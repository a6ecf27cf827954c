---------------------------- MODULE PoolAdmission ----------------------------
(* The pool as its callers see it, as an instance of Admission.              *)
EXTENDS Pool

\* A request is admitted while it has a slot.
StageAt(step) ==
    CASE step = "arriving" -> "waiting"
      [] step \in {"acquired", "exec", "drain", "save"} -> "admitted"
      [] step = "done" -> "left"
      [] step = "refused" -> "refused"

stages == [r \in Requests |-> StageAt(pc[r])]

owners == [r \in Requests |-> request[r].owner]

A == INSTANCE Admission WITH stage <- stages, owner_of <- owners

=============================================================================
