----------------------------- MODULE MCStartup -----------------------------
(***************************************************************************)
(* Startup for TLC: every setting missing, not Unicode, malformed and at   *)
(* both edges of what is accepted, with limits of 3 and a largest port of  *)
(* 4.                                                                      *)
(***************************************************************************)
EXTENDS Startup

Plain(value) == [padded |-> FALSE, value |-> value]
Padded(value) == [padded |-> TRUE, value |-> value]

MCNumbers == {Unset, Undecodable, Plain(0), Plain(1), Padded(3), Plain(4), Plain(Malformed)}

MCEnvironments ==
    [token : {Unset, Undecodable, Plain(0), Plain(1), Plain(2)},
     addr : {Unset, Undecodable, Padded(Blank), Plain(Host), Plain(Malformed)},
     port : {Unset, Undecodable, Plain(0), Plain(4), Plain(5), Padded(1), Plain(Malformed)},
     rate : MCNumbers,
     burst : {Unset, Undecodable, Plain(0), Padded(1), Plain(3), Plain(4)}]

=============================================================================
