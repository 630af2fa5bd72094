------------------------ MODULE ReferentialIntegrity ------------------------
(***************************************************************************)
(* What the foreign keys of MongoReferences (FK) are for: declared columns *)
(* name documents that exist, and a delete takes what the ON DELETE rules  *)
(* say, no less and no more.  The state has the names it has there.        *)
(***************************************************************************)
CONSTANTS Clients, Nodes, CollOf, HasId, Refs, From, To, None, MaxQueries

VARIABLES store, refs, rule, client, changed, stale, unchecked, queries

FK == INSTANCE MongoReferences

ASSUME ReferencesAssumption == FK!Setting

\* The behaviours of clients of one database.
Writes == FK!Spec

\* What declared columns name exists, as long as no write raced another one,
\* went through a transaction block, or declared a constraint late: the check
\* of inserts, the one of updates and the cascade leave no other way.
ReferencesHold ==
    unchecked = {} /\ (\A c \in Clients : client[c].at # "purge")
        => FK!Dangling(store, FK!Declared) = {}

Cascading(c) == client[c].at = "commit" /\ client[c].query.op = "delete" /\ store' # store

\* A delete nobody disturbed removes all it was asked for, and leaves no child
\* of what it removed: through cycles and documents reached twice, whatever
\* the order of the rules.
DeleteIsWhole ==
    [][ \A c \in Clients \ stale : Cascading(c) /\ client'[c].at = "idle" =>
          /\ client[c].query.on \cap DOMAIN store' = {}
          /\ \A n \in DOMAIN store', r \in FK!Declared :
                store'[n][r] \notin DOMAIN store \ DOMAIN store' ]_FK!vars

\* It removes nothing else than children that cascade, and changes nothing
\* else than columns that are set to null.
DeleteKeepsTheRest ==
    [][ \A c \in Clients \ stale : Cascading(c) /\ client'[c].at = "idle" =>
          LET gone == DOMAIN store \ DOMAIN store' IN
          /\ \A n \in gone \ client[c].query.on :
                \E r \in FK!Declared : rule[r] = "cascade" /\ store[n][r] \in gone
          /\ \A n \in DOMAIN store', r \in Refs :
                store'[n][r] # store[n][r] =>
                   /\ r \in FK!Declared /\ rule[r] = "set-null"
                   /\ store'[n][r] = None /\ store[n][r] \in gone ]_FK!vars
=============================================================================
