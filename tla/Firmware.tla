------------------------------ MODULE Firmware ------------------------------
(***************************************************************************)
(* The firmware library: what each of its functions stores to SIM_MMIO_ADDR *)
(* (print.c, sim.c, start.S), as sequences of words, and the text a caller  *)
(* means by a call, defined without the library's loops.  Characters and    *)
(* protocol bytes share the address, and are told apart by value alone.     *)
(***************************************************************************)
EXTENDS Integers, Sequences, SequencesExt

CONSTANTS
  WordBits,   \* width of an int, a multiple of four; 32 in the code
  BufferLen   \* bytes of print_dec's buffer; 10 in the code

WordSize == 2^WordBits
Words == 0 .. WordSize - 1
HexDigits == WordBits \div 4   \* what %x and %p ask of print_hex: 8 in the code

\* The buffer holds the digits of the largest number.
ASSUME FirmwareAssumption ==
  /\ WordBits \in Nat /\ WordBits % 4 = 0
  /\ BufferLen \in Nat /\ WordSize <= 10^BufferLen

RISCV_QUIT == 0
RISCV_START == 128
RISCV_FINISH == 129
RISCV_FAIL == 130
RISCV_PASS == 131
Protocol == {RISCV_QUIT, RISCV_START, RISCV_FINISH, RISCV_FAIL, RISCV_PASS}

Digit(d) == IF d < 10 THEN 48 + d ELSE 55 + d   \* '0' .. '9', 'A' .. 'F'
Percent == 37
Minus == 45
CharC == 99
CharD == 100
CharP == 112
CharS == 115
CharU == 117
CharX == 120

-----------------------------------------------------------------------------
\* print.c

\* The first loop of print_dec: the digits, the last one first.
dec_buffer[val \in Words] ==
  <<val % 10>> \o (IF val \div 10 = 0 THEN <<>> ELSE dec_buffer[val \div 10])

print_dec(val) == [i \in 1 .. Len(dec_buffer[val]) |-> Digit(Reverse(dec_buffer[val])[i])]

\* A nibble each, from bit 4 * digits - 4 down.
print_hex(val, digits) ==
  [i \in 1 .. digits |-> Digit((val \div 2^(4 * (digits - i))) % 16)]

\* Negation is that of the build: two's complement, also of the smallest int.
Negated(val) == (WordSize - val) % WordSize
print_signed_dec(val) ==
  IF val >= WordSize \div 2 THEN <<Minus>> \o print_dec(Negated(val)) ELSE print_dec(val)

\* The characters of one conversion, and whether it takes an argument.
TakesArg(conv) == conv \in {CharC, CharS, CharD, CharU, CharX, CharP}
Converted(conv, arg) ==
  CASE conv = CharC -> <<arg>>
    [] conv = CharS -> arg
    [] conv = CharD -> print_signed_dec(arg)
    [] conv = CharU -> print_dec(arg)
    [] conv = CharX -> print_hex(arg, HexDigits)
    [] conv = CharP -> <<48, CharX>> \o print_hex(arg, HexDigits)
    [] conv = Percent -> <<Percent>>
    [] OTHER -> <<Percent, conv>>

\* printf from place i of the format, with the arguments from place a on.
printf(fmt, args) ==
  LET from[i \in 1 .. Len(fmt) + 1, a \in 1 .. Len(args) + 1] ==
        IF i > Len(fmt) THEN <<>>
        ELSE IF fmt[i] # Percent THEN <<fmt[i]>> \o from[i + 1, a]
        ELSE IF i = Len(fmt) THEN <<>>
        ELSE IF TakesArg(fmt[i + 1])
               THEN Converted(fmt[i + 1], args[a]) \o from[i + 2, a + 1]
               ELSE Converted(fmt[i + 1], 0) \o from[i + 2, a]
  IN from[1, 1]

-----------------------------------------------------------------------------
\* sim.c and start.S

sim_pass == <<RISCV_PASS, RISCV_QUIT>>
sim_fail == <<RISCV_FAIL, RISCV_QUIT>>
sim_finish_call == <<RISCV_FINISH, RISCV_QUIT>>
sim_exit(status) == IF status = 0 THEN sim_pass ELSE sim_fail

\* A call main makes: of printf with the items of its format and their arguments,
\* or of a function that ends the test.  An item is text, a conversion of an
\* argument, or a '%' that ends the format.
FormatEnd == -1
Format(items) == FlattenSeq([i \in 1 .. Len(items) |->
  CASE items[i].conv = 0 -> items[i].arg
    [] items[i].conv = FormatEnd -> <<Percent>>
    [] OTHER -> <<Percent, items[i].conv>>])
Args(items) ==
  LET taking == SelectSeq(items, LAMBDA it : TakesArg(it.conv))
  IN [i \in 1 .. Len(taking) |-> taking[i].arg]

\* What the processor stores to SIM_MMIO_ADDR from reset on: a program is the
\* calls of its main, and what main returns.
Stored(call) ==
  CASE call.f = "printf" -> printf(Format(call.items), Args(call.items))
    [] call.f = "pass" -> sim_pass
    [] call.f = "fail" -> sim_fail
    [] call.f = "finish" -> sim_finish_call
Stores(p) ==
  <<RISCV_START>> \o FlattenSeq([i \in 1 .. Len(p.calls) |-> Stored(p.calls[i])])
                  \o sim_exit(p.returns)

-----------------------------------------------------------------------------
\* The text a call means

\* The numeral of v in a base: as few digits as it needs, or n of them.
Places(v, base) == CHOOSE n \in 1 .. WordBits : v < base^n /\ (n = 1 \/ v >= base^(n - 1))
Numeral(v, base, n) == [i \in 1 .. n |-> Digit((v \div base^(n - i)) % base)]
Decimal(v) == Numeral(v, 10, Places(v, 10))
Signed(v) == IF 2 * v < WordSize THEN Decimal(v) ELSE <<Minus>> \o Decimal(WordSize - v)

ItemText(item) ==
  CASE item.conv \in {0, CharS} -> item.arg
    [] item.conv = CharC -> <<item.arg>>
    [] item.conv = CharD -> Signed(item.arg)
    [] item.conv = CharU -> Decimal(item.arg)
    [] item.conv = CharX -> Numeral(item.arg, 16, HexDigits)
    [] item.conv = CharP -> <<48, CharX>> \o Numeral(item.arg, 16, HexDigits)
    [] item.conv = Percent -> <<Percent>>
    [] item.conv = FormatEnd -> <<>>
    [] OTHER -> <<Percent, item.conv>>

\* The text of the calls before the first that ends the test, and that call's status.
Ending(p) ==
  LET ends == {i \in 1 .. Len(p.calls) : p.calls[i].f # "printf"}
  IN IF ends = {} THEN Len(p.calls) + 1 ELSE CHOOSE i \in ends : \A j \in ends : i <= j
Text(p) ==
  FlattenSeq([i \in 1 .. Ending(p) - 1 |->
    FlattenSeq([j \in 1 .. Len(p.calls[i].items) |-> ItemText(p.calls[i].items[j])])])
Succeeds(p) ==
  IF Ending(p) > Len(p.calls) THEN p.returns = 0 ELSE p.calls[Ending(p)].f # "fail"

\* The first status among the stores of a program says whether it succeeds.
Statuses == {RISCV_FINISH, RISCV_FAIL, RISCV_PASS}
StatusByte(p, i) == Stores(p)[i] % 256 \in Statuses
BeforeStatus(p, n) == \A i \in 1 .. n : ~StatusByte(p, i)
SaysStatus(p) ==
  \A i \in 1 .. Len(Stores(p)) :
    BeforeStatus(p, i - 1) /\ StatusByte(p, i) =>
      (Stores(p)[i] % 256 # RISCV_FAIL <=> Succeeds(p))

\* Before the first status the characters among the stores of a program are its text,
\* the n-th character the n-th of the text.
CharByte(p, i) == Stores(p)[i] % 256 \notin Protocol
CharsUpTo(p, n) == {i \in 1 .. n : CharByte(p, i)}
PrintsText(p) ==
  /\ Text(p) \in Seq(0 .. 255)
  /\ \A i \in 1 .. Len(Stores(p)) : BeforeStatus(p, i) /\ CharByte(p, i) =>
       LET n == Cardinality(CharsUpTo(p, i))
       IN n <= Len(Text(p)) /\ Text(p)[n] = Stores(p)[i] % 256
  /\ \A i \in 1 .. Len(Stores(p)) : BeforeStatus(p, i - 1) /\ StatusByte(p, i) =>
       Cardinality(CharsUpTo(p, i - 1)) = Len(Text(p))
=============================================================================
