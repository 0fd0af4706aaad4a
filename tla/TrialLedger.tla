----------------------------- MODULE TrialLedger -----------------------------
(***************************************************************************)
(* What every way of running a study promises about its recorded history,  *)
(* whatever runs it: a trial number is used once, a recorded trial stays   *)
(* recorded, a running trial only gains entries, and a trial that has      *)
(* ended never changes again.                                              *)
(***************************************************************************)
EXTENDS Trials

VARIABLE ledger   \* function from trial numbers to trials

\* What an earlier run has left, every trial under its number.
LedgerInit == \A n \in DOMAIN ledger : ledger[n].number = n

Put(t) == ledger' = [n \in DOMAIN ledger \cup {t.number} |->
                        IF n = t.number THEN t ELSE ledger[n]]

\* A fresh number, for a trial that is running or that has already ended.
Enter == \E n \in (DOMAIN ledger') \ DOMAIN ledger :
            ledger'[n].number = n /\ Put(ledger'[n])

Running(n) == n \in DOMAIN ledger /\ ledger[n].state = "Running"

\* One more parameter or report, or a new value for one already there.
Extend == \E n \in DOMAIN ledger :
    /\ Running(n)
    /\ LET t == ledger'[n]
       IN  /\ n \in DOMAIN ledger'
           /\ t.number = n /\ t.state = "Running" /\ t.value = ledger[n].value
           /\ Keys(ledger[n].params) \subseteq Keys(t.params)
           /\ Keys(ledger[n].intermediate_values) \subseteq Keys(t.intermediate_values)
           /\ Put(t)

\* The outcome, and nothing but the outcome, is written.
Close == \E n \in DOMAIN ledger :
    /\ Running(n)
    /\ n \in DOMAIN ledger'
    /\ \/ \E s \in {"Pruned", "Failed"} : ledger'[n] = [ledger[n] EXCEPT !.state = s]
       \/ ledger'[n] = [ledger[n] EXCEPT !.state = "Complete", !.value = ledger'[n].value]
    /\ Put(ledger'[n])

LedgerNext == Enter \/ Extend \/ Close

LedgerSpec == LedgerInit /\ [][LedgerNext]_ledger

=============================================================================
