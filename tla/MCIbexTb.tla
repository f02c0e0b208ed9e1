------------------------------ MODULE MCIbexTb ------------------------------
EXTENDS IbexTb

Lit(s) == [conv |-> 0, arg |-> s]
Conv(c, v) == [conv |-> c, arg |-> v]
Prints(items) == [f |-> "printf", items |-> items]
Says(f) == [f |-> f, items |-> <<>>]
Main(calls, r) == [calls |-> calls, returns |-> r]

\* Every int through %d, %u and %x; a format with all the rest in it, also one
\* printf does not know; a format that ends in a '%'; the orders of prints and statuses.
NumberPrograms ==
  {Main(<<Prints(<<Conv(c, v)>>)>>, 0) : c \in {CharD, CharU, CharX}, v \in Words}
FormatProgram ==
  Main(<<Prints(<<Lit(<<97>>), Conv(CharS, <<98, 99>>), Conv(CharC, 10), Conv(Percent, 0),
                  Conv(CharP, 172), Conv(113, 0)>>),
         Prints(<<Conv(CharC, 35), Conv(FormatEnd, 0)>>), Says("finish")>>, 1)
StatusPrograms ==
  {Main(<<Says(a), Says(b)>>, 0) : a, b \in {"pass", "fail", "finish"}}
  \cup {Main(<<Says("pass"), Prints(<<Lit(<<97>>)>>)>>, 1), Main(<<>>, 1)}
MCPrograms == NumberPrograms \cup StatusPrograms \cup {FormatProgram}

ASSUME StatusesSaid == \A p \in Programs : SaysStatus(p) /\ PrintsText(p)
=============================================================================
