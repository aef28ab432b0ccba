----------------------------- MODULE MCArbiterPool -----------------------------
(***************************************************************************)
(* A small instance of ArbiterPool: three jobs, each of which may be       *)
(* offered under every class the engine knows.                             *)
(***************************************************************************)
EXTENDS ArbiterPool

Job(id, planned) ==
  [id |-> id, class |-> "scheduled", origin |-> "scheduled", triggered |-> Never,
   released |-> Never, planned |-> planned, priority |-> 0, preempts |-> FALSE]

OffersOf(id, planned) ==
  LET job == Job(id, planned)
  IN  {job,
       [job EXCEPT !.class = "manual", !.origin = "manual"],
       [job EXCEPT !.class = "manual", !.released = 0],
       [job EXCEPT !.class = "manual", !.triggered = 1],
       [job EXCEPT !.class = "manual", !.triggered = 1, !.released = 0]}
      \cup {[job EXCEPT !.class = "forced", !.priority = n, !.preempts = preempts] :
              n \in 0..1, preempts \in BOOLEAN}

FewOffers == UNION {OffersOf(id, planned) : id \in 1..3, planned \in 0..1}
==============================================================================
