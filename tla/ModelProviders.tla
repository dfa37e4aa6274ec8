--------------------------- MODULE ModelProviders ---------------------------
(***************************************************************************)
(* The model providers that administrators configure                       *)
(* (application/admin.go): one row each, of which one may be the default.  *)
(* Every write is a transaction; the revision an edit expects was read     *)
(* before it.                                                              *)
(***************************************************************************)
EXTENDS Integers, FiniteSets

CONSTANTS
    ModelProviderIds,
    MaxRevision       \* bound: the revision of a row

VARIABLE provider

providerVars == <<provider>>

ModelProvider == [status: {"none", "active", "disabled"}, default: BOOLEAN, revision: Nat]

ProvidersTypeOK == provider \in [ModelProviderIds -> ModelProvider]

NoProvider == [status |-> "none", default |-> FALSE, revision |-> 0]

ProvidersInit == provider = [p \in ModelProviderIds |-> NoProvider]

Stored(p) == provider[p].status # "none"

\* The rows once the default is cleared, when the caller asks for it.
clearDefaultProvider(clear) ==
    [p \in ModelProviderIds |->
        IF clear THEN [provider[p] EXCEPT !.default = FALSE] ELSE provider[p]]

CreateModelProvider(p) ==
    /\ ~Stored(p)
    /\ \E st \in {"active", "disabled"}, wanted \in BOOLEAN :
          LET default == wanted /\ st = "active" IN
          provider' = [clearDefaultProvider(default) EXCEPT
                          ![p] = [status |-> st, default |-> default, revision |-> 1]]

Updated_AsAsked(p, st, default, given) ==
    [status |-> st, default |-> default, revision |-> provider[p].revision + 1]

\* A patch with a status and, when given, whether the row is the default: the
\* default is active, whatever status the patch carries.
Updated(p, st, default, given) ==
    [status |-> IF default THEN "active" ELSE st, default |-> default,
     revision |-> provider[p].revision + 1]

UpdateModelProvider(p, expected) ==
    /\ Stored(p) /\ provider[p].revision = expected /\ expected < MaxRevision
    /\ \E st \in {"active", "disabled"}, given \in {"default", "ordinary", "absent"} :
          LET default == given = "default" \/ (given = "absent" /\ provider[p].default) IN
          provider' = [clearDefaultProvider(default) EXCEPT ![p] = Updated(p, st, default, given)]

ActivateModelProvider(p) ==
    /\ Stored(p) /\ provider[p].revision < MaxRevision
    /\ provider' = [clearDefaultProvider(TRUE) EXCEPT
                       ![p] = [status |-> "active", default |-> TRUE, revision |-> provider[p].revision + 1]]

DeleteModelProvider(p) ==
    /\ Stored(p) /\ ~provider[p].default
    /\ provider' = [provider EXCEPT ![p] = NoProvider]

ProvidersNext ==
    \E p \in ModelProviderIds :
       \/ CreateModelProvider(p) \/ ActivateModelProvider(p) \/ DeleteModelProvider(p)
       \/ \E expected \in 1..MaxRevision : UpdateModelProvider(p, expected)

ProvidersSpec == ProvidersInit /\ [][ProvidersNext]_providerVars

\* ActiveProviderRuntime: the default first, then any active row.
ActiveProvider ==
    {p \in ModelProviderIds : /\ provider[p].status = "active"
                              /\ (\E q \in ModelProviderIds : provider[q].default) => provider[p].default}

-----------------------------------------------------------------------------
(* Properties.                                                              *)

\* The default is active and the only row the runtime may take: no sequence of
\* patches, activations and deletions leaves two defaults, or one that is
\* disabled (clearDefaultProvider, UpdateModelProvider).
OneUsableDefault ==
    \A p \in ModelProviderIds : provider[p].default => ActiveProvider = {p}

=============================================================================
