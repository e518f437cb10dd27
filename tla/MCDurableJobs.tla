--------------------------- MODULE MCDurableJobs ---------------------------
(***************************************************************************)
(* Small instances of DurableJobs for TLC: one job type that is safe to    *)
(* retry and one that is not, both with two attempts.  A scope is named    *)
(* after its job type.                                                     *)
(***************************************************************************)
EXTENDS DurableJobs, TLC

CONSTANTS j1, j2, k1, mail, run

MCTypes == {"mail", "run"}
MCRetrySafe == {"mail"}
MCMaxAttempts == ("mail" :> 2) @@ ("run" :> 2)
MCScopes == {mail, run}
MCTypeOf == (mail :> "mail") @@ (run :> "run")

\* Two callers that pass one key for jobs of different scopes.
SharedScopeOf == (j1 :> mail) @@ (j2 :> run)
SharedKeyOf == (j1 :> k1) @@ (j2 :> k1)

\* One job of each type, without keys.
PairScopeOf == (j1 :> mail) @@ (j2 :> run)
PairKeyOf == (j1 :> NoKey) @@ (j2 :> NoKey)

\* The processes are interchangeable; used only for runs without liveness.
ProcSymmetry == Permutations(Procs)
=============================================================================
