------------------------------ MODULE Knowledge ------------------------------
(* What the system knows: the ontology registry, whose upsert takes its lock    *)
(* three times, and the long-term memory with its index by entity.              *)
EXTENDS Integers, Sequences, FiniteSets, SequencesExt

CONSTANTS
    Registrars,   \* tasks that register entities
    Drafts,       \* entities to register: [id, class, version, relations]
    Records,      \* records to remember: [tenant, words, refs], refs being [entity, tenant]
    Untenanted,   \* an entity reference without a tenant
    MaxUpserts,   \* bound: registrations begun
    MaxRemovals,  \* bound: removals
    MaxRecords    \* bound: records

VARIABLES
    entities,     \* id -> entity: InMemoryOntologyRegistry::inner
    upsert,       \* registrar -> its upsert() in progress
    upserts, removals,   \* how many began
    stamp,        \* id -> changes of its entry (history)
    records,      \* LongTermInner::records
    index         \* <<tenant, entity>> -> positions in records: entity_index

ontology == <<entities, upsert, upserts, removals, stamp>>
memory == <<records, index>>
knowledgeVars == <<ontology, memory>>

NoUpsert == [pc |-> "idle"]
Ids == {d.id : d \in Drafts} \union UNION {d.relations : d \in Drafts}

KnowledgeInit ==
    /\ entities = <<>>
    /\ upsert = [r \in Registrars |-> NoUpsert]
    /\ upserts = 0 /\ removals = 0
    /\ stamp = [id \in Ids |-> 0]
    /\ records = <<>>
    /\ index = <<>>

With(f, key, value) == [k \in DOMAIN f \union {key} |-> IF k = key THEN value ELSE f[k]]

-----------------------------------------------------------------------------
(* The ontology *)

\* Classification::level: Public, Internal, Pii, Regulated
LevelOf(class) == [Public |-> 0, Internal |-> 1, Pii |-> 2, Regulated |-> 3][class]

\* Mutant: the flow is tested the other way round.
CanFlowInto_Reversed(from, to) == LevelOf(from) >= LevelOf(to)

\* Classification::can_flow_into
CanFlowInto(from, to) == LevelOf(from) <= LevelOf(to)

\* compare_versions(current, new) = Breaking, on <<major, minor, patch>>
Breaking(current, new) ==
    ~ \/ new[1] = current[1] /\ new[2] > current[2]
      \/ new[1] = current[1] /\ new[2] = current[2] /\ new[3] >= current[3]

\* Begin: under the first lock, every relation points at a known entity or at
\* the entity itself.
CheckRelations(r, draft, allow) ==
    LET known == \A to \in draft.relations : to = draft.id \/ to \in DOMAIN entities
    IN  /\ upsert[r].pc = "idle"
        /\ upserts < MaxUpserts
        /\ upserts' = upserts + 1
        /\ upsert' = [upsert EXCEPT ![r] =
               IF known THEN [pc |-> "related", draft |-> draft, allow |-> allow, seen |-> stamp]
               ELSE NoUpsert]
        /\ UNCHANGED <<entities, removals, stamp, memory>>

\* What the second check asks of a draft that replaces an entity
Acceptable(old, draft, allow) ==
    /\ CanFlowInto(old.class, draft.class)
    /\ Breaking(old.version, draft.version) => allow

\* Under the second lock, the new version against the one that is there.
CheckVersion(r) ==
    LET draft == upsert[r].draft
        fine == draft.id \in DOMAIN entities
                => Acceptable(entities[draft.id], draft, upsert[r].allow)
    IN  /\ upsert[r].pc = "related"
        /\ upsert' = [upsert EXCEPT ![r] =
               IF fine THEN [@ EXCEPT !.pc = "checked", !.seen[draft.id] = stamp[draft.id]]
               ELSE NoUpsert]
        /\ UNCHANGED <<entities, upserts, removals, stamp, memory>>

\* Under the third lock, the insertion.
Insert(r) ==
    LET draft == upsert[r].draft
    IN  /\ upsert[r].pc = "checked"
        /\ entities' = With(entities, draft.id, draft)
        /\ stamp' = [stamp EXCEPT ![draft.id] = @ + 1]
        /\ upsert' = [upsert EXCEPT ![r] = NoUpsert]
        /\ UNCHANGED <<upserts, removals, memory>>

\* OntologyRegistry::remove asks nobody.
RemoveEntity(id) ==
    /\ removals < MaxRemovals
    /\ removals' = removals + 1
    /\ entities' = [k \in DOMAIN entities \ {id} |-> entities[k]]
    /\ stamp' = [stamp EXCEPT ![id] = @ + 1]
    /\ UNCHANGED <<upsert, upserts, memory>>

-----------------------------------------------------------------------------
(* The long-term memory *)

\* A reference the index takes: without a tenant, or of the record's own
Indexed(record, ref) == ref.tenant \in {Untenanted, record.tenant}

\* Mutant: a reference to another tenant's entity ends the indexing.
AddRefs_Stops(record, position) ==
    IF \E i \in DOMAIN record.refs : ~Indexed(record, record.refs[i]) THEN index
    ELSE FoldLeft(LAMBDA idx, ref :
                    LET key == <<record.tenant, ref.entity>>
                    IN  With(idx, key, Append(IF key \in DOMAIN idx THEN idx[key] ELSE <<>>, position)),
                  index, record.refs)

\* The index entries of a record, one per reference that is not another tenant's
AddRefs(record, position) ==
    LET Add(idx, ref) ==
            LET key == <<record.tenant, ref.entity>>
            IN  IF ~Indexed(record, ref) THEN idx
                ELSE With(idx, key, Append(IF key \in DOMAIN idx THEN idx[key] ELSE <<>>, position))
    IN  FoldLeft(Add, index, record.refs)

\* InMemoryLongTermStore::insert, under one lock
Remember(record) ==
    /\ Len(records) < MaxRecords
    /\ index' = AddRefs(record, Len(records) + 1)
    /\ records' = Append(records, record)
    /\ UNCHANGED ontology

\* The positions search() returns: the tenant's records with every word asked for
Search(tenant, words, limit) ==
    LET hits == SelectSeq([i \in DOMAIN records |-> i],
                          LAMBDA i : records[i].tenant = tenant /\ words \subseteq records[i].words)
    IN  SubSeq(hits, 1, IF Len(hits) < limit THEN Len(hits) ELSE limit)

\* The positions search_by_entity() returns
SearchByEntity(tenant, entity, limit) ==
    LET key == <<tenant, entity>>
        hits == IF key \notin DOMAIN index THEN <<>>
                ELSE SelectSeq(index[key], LAMBDA i : i \in DOMAIN records /\ records[i].tenant = tenant)
    IN  SubSeq(hits, 1, IF Len(hits) < limit THEN Len(hits) ELSE limit)

-----------------------------------------------------------------------------
KnowledgeNext ==
    \/ \E r \in Registrars :
         \/ \E d \in Drafts, allow \in BOOLEAN : CheckRelations(r, d, allow)
         \/ CheckVersion(r)
         \/ Insert(r)
    \/ \E id \in DOMAIN entities : RemoveEntity(id)
    \/ \E record \in Records : Remember(record)

KnowledgeSpec == KnowledgeInit /\ [][KnowledgeNext]_knowledgeVars

-----------------------------------------------------------------------------
(* Properties *)

\* upsert() tests relations, then classification and version, then inserts,
\* each under a lock of its own.  It lowers a classification or breaks a version
\* without leave only when the entry changed between the second test and the
\* insertion, and inserts a relation to an unknown entity only when that one
\* went after the first: nothing else lets either through.
FlawNeedsOverlap ==
    [][\A r \in Registrars :
          upsert[r].pc = "checked" /\ upsert'[r] = NoUpsert =>
            LET draft == upsert[r].draft
                id    == draft.id
                moved == {k \in Ids : stamp[k] # upsert[r].seen[k]}
            IN  /\ \/ id \notin DOMAIN entities
                   \/ id \in moved
                   \/ /\ LevelOf(entities[id].class) <= LevelOf(draft.class)
                      /\ Breaking(entities[id].version, draft.version) => upsert[r].allow
                /\ draft.relations \ DOMAIN entities' \subseteq moved]_knowledgeVars

\* The index gives every record of the tenant that refers to the entity, in the
\* order of insertion, whatever else the record refers to, and nothing of
\* another tenant; what the search by words finds for a tenant agrees with it.
IndexIsComplete ==
    \A tenant \in {r.tenant : r \in Records}, entity \in {ref.entity : ref \in UNION {ToSet(r.refs) : r \in Records}} :
        LET hits == SearchByEntity(tenant, entity, 100)
        IN  /\ ToSet(hits) =
                 {i \in ToSet(Search(tenant, {}, 100)) :
                    \E ref \in ToSet(records[i].refs) : ref.entity = entity /\ ref.tenant \in {Untenanted, tenant}}
            /\ \A i, j \in DOMAIN hits : i < j => hits[i] <= hits[j]
=============================================================================
