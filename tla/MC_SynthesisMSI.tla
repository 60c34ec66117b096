-------------------------- MODULE MC_SynthesisMSI --------------------------
(***************************************************************************)
(* The four solutions of the case study (SYNON = 1, three caches), which   *)
(* differ in what the directory tracks on an Ack and on a Put only, and    *)
(* the reference.                                                          *)
(***************************************************************************)
EXTENDS SynthesisMSI

Solutions ==
  {[Reference EXCEPT !.M_S_Put_Response = "none", !.I_M_Ack_Track = t,
                     !.M_S_Put_Track = u] :
     t \in {"none", "owner is src"}, u \in {"none", "no owner"}}

Accepted == Solutions \cup {Reference}
=============================================================================
