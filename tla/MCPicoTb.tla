------------------------------ MODULE MCPicoTb ------------------------------
(* Programs of up to three instructions for PicoTb.                         *)
EXTENDS PicoTb

MCPrograms ==
  {<<"plain", k>> : k \in {"pass", "fail", "oob", "trap"}}
  \cup {<<"plain", "plain", "pass">>, <<"pass", "plain">>, <<"pass", "trap">>,
        <<"plain", "plain">>}
=============================================================================
