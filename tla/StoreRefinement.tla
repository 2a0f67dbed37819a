--------------------------- MODULE StoreRefinement ---------------------------
(***************************************************************************)
(* How the setting store of ConfigStore keeps the promise of               *)
(* DurableSettings: what is stored is what a boot makes of the file.       *)
(***************************************************************************)
EXTENDS ConfigStore

LegalConfig == {c \in Config : /\ CheckCapacity(c)
                               /\ \A key \in Locked : c[key] = Default[key]}

StoredConfig == LoadedConfig(IF HasPath THEN file ELSE NoFile)

Durable == INSTANCE DurableSettings WITH
    Legal <- LegalConfig, Factory <- Default,
    running <- current, stored <- StoredConfig

\* The store with its file, its interrupted saves and its edits is a pair of
\* legal configurations, of which the stored one comes back at every start and
\* changes by a save only, from outside, or to the defaults when a save is cut.
ImplementsDurableSettings == Durable!Init /\ [][Durable!Next]_(Durable!vars)
=============================================================================
