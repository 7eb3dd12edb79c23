------------------------------ MODULE RetryClaims ------------------------------
(***************************************************************************)
(* Sentences of the repository about the retry lifecycle that the code     *)
(* does not keep.  Each is checked on its own and refuted.                 *)
(***************************************************************************)
EXTENDS RetryLifecycle

\* execute: an outcome is pending "until a later resolution (webhook or poll)
\* replaces this entry in the audit log".  The report of the whole log does not
\* count a case as pending that another entry says is resolved.
ResolutionReplaces ==
    \A i, j \in DOMAIN auditLog :
        auditLog[i].result = "pending" /\ auditLog[i].order = auditLog[j].order
            => auditLog[j].result = "pending"

\* reconcile_once: a malformed entry "is counted as an error and skipped".  The
\* entry that a poll takes out of the store is one whose outcome it then holds.
MalformedIsSkipped ==
    [][\A o \in pending \ pending' :
         \E h \in Handlers : claim'[h].order = o]_vars

\* test_diagnose: a real payment already in the audit log is skipped by the
\* next run, also while a webhook or a poll is logging an outcome.
LoggedPaymentIsSkipped ==
    [][\A o \in Orders :
         status[o] = "absent" /\ retryFor'[o] # None
             => \A i \in DOMAIN auditLog : auditLog[i].payment # retryFor'[o]]_vars

=============================================================================
