-------------------------- MODULE ProposalLifecycle --------------------------
(***************************************************************************)
(* What a proposal module promises about the status of its proposals, as   *)
(* seen between transactions: a proposal is decided at most once, a        *)
(* decision is only ever completed, and a completed proposal never moves   *)
(* again.  One transaction may create and move several proposals, and move *)
(* one of them by several steps.                                           *)
(***************************************************************************)
EXTENDS Naturals, Sequences

VARIABLE status   \* the status of each proposal, by id

Final == {"executed", "execution_failed", "closed", "vetoed"}

\* The statuses a proposal can have after status s.
Later(s) ==
    CASE s = "open" -> {"open", "passed", "rejected", "veto_timelock"} \cup Final
      [] s = "veto_timelock" ->
             {"veto_timelock", "passed", "executed", "execution_failed", "vetoed"}
      [] s = "passed" -> {"passed", "executed", "execution_failed"}
      [] s = "rejected" -> {"rejected", "closed"}
      [] OTHER -> {s}

Init == status = <<>>

\* Every proposal stays or moves forward; new ones are appended.
Next ==
    /\ DOMAIN status \subseteq DOMAIN status'
    /\ \A id \in DOMAIN status : status'[id] \in Later(status[id])

Spec == Init /\ [][Next]_status
=============================================================================
