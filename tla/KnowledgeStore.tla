--------------------------- MODULE KnowledgeStore ---------------------------
(***************************************************************************)
(* The knowledge base: entities kept in three tables and an audit log      *)
(* (internal/persistence/unified.go, document.go, vector.go,               *)
(* relational.go), created, searched and deleted over HTTP                 *)
(* (internal/adi/handler.go).                                              *)
(*                                                                         *)
(* A creation is one transaction that calls the embedding service half     *)
(* way; then it reads the entity back outside of it.  A deletion is three  *)
(* statements of which two may fail unnoticed.  A search asks the vectors  *)
(* and then reads what they refer to, two queries an entity.  Every        *)
(* statement is a step and may fail; the process may die between any two.  *)
(***************************************************************************)
EXTENDS Naturals, FiniteSets

CONSTANTS
    Entities,   \* ids of entities, each generated once
    Creations,  \* IngestKnowledge requests served at the same time
    Deletions,  \* DeleteKnowledge requests served at the same time
    Searches,   \* SearchKnowledge requests served at the same time
    TopK        \* results that a search asks for

ASSUME EntitiesAssumption == IsFiniteSet(Entities)
ASSUME TopKAssumption == TopK \in Nat

VARIABLES
    \* tables, as the entities that have a row
    refs,       \* entity_refs
    docs,       \* document_store
    vectors,    \* vector_store
    audit,      \* audit_logs, pairs of an action and an entity
    \* requests under way, maps from those that are
    creation,
    deletion,
    search,     \* also the searches that have been answered
    \* history, for the properties only
    reply,      \* what the creator of each entity was told
    born,       \* entities that were committed
    plain,      \* those that could not be embedded
    begun,      \* those that somebody has begun to delete
    unaudited   \* those of whose deletion the audit entry could not be written

tables  == <<refs, docs, vectors, audit>>
history == <<reply, born, plain, begun, unaudited>>
vars    == <<tables, creation, deletion, search, history>>

----------------------------------------------------------------------------
(* Types *)

Actions == {"CREATE", "DELETE"}

\* "null" is a 201 without an entity, "bare" one without its document.
Replies == {"none", "whole", "bare", "null", "failed"}

\* A creation: the statement it is at and the rows its transaction has inserted.
\* After the commit it reads the ref and the document.
Statements  == {"ref", "document", "embed", "vector", "audit", "commit"}
CreationSet == [entity : Entities, at : Statements \union {"readRef", "readDoc"},
                wrote : SUBSET Statements]

DeletionSet == [entity : Entities, at : {"audit", "vectors", "ref"}]

\* A search: the results still to be read, those whose ref has been read, and the
\* answer so far, with and without document.  History: all results, and those whose
\* reading failed.
SearchSet == [at : {"vectors", "hydrate", "answered"}, todo : SUBSET Entities,
              reading : SUBSET Entities, whole : SUBSET Entities, bare : SUBSET Entities,
              hits : SUBSET Entities, unread : SUBSET Entities]

IsMap(map, S, T) == DOMAIN map \subseteq S /\ map \in [DOMAIN map -> T]

Empty           == [x \in {} |-> x]
Put(map, x, v)  == [y \in DOMAIN map \union {x} |-> IF y = x THEN v ELSE map[y]]
Without(map, x) == [y \in DOMAIN map \ {x} |-> map[y]]

Searching(s) == s \in DOMAIN search /\ search[s].at # "answered"

----------------------------------------------------------------------------
Init ==
    /\ refs = {} /\ docs = {} /\ vectors = {} /\ audit = {}
    /\ creation = Empty /\ deletion = Empty /\ search = Empty
    /\ reply = [e \in Entities |-> "none"]
    /\ born = {} /\ plain = {} /\ begun = {} /\ unaudited = {}

----------------------------------------------------------------------------
(* Creation *)

\* IngestKnowledge opens a transaction; the insert of the ref generates the id.
CreateBegin(c, e) ==
    /\ c \notin DOMAIN creation
    /\ reply[e] = "none" /\ \A d \in DOMAIN creation : creation[d].entity # e
    /\ creation' = Put(creation, c, [entity |-> e, at |-> "document", wrote |-> {"ref"}])
    /\ UNCHANGED <<tables, deletion, search, history>>

\* Mutant: an error of an insert is ignored, as in a deletion.
InsertSloppy(c, statement, next) ==
    /\ c \in DOMAIN creation /\ creation[c].at = statement
    /\ \E rows \in {{statement}, {}} :
          creation' = [creation EXCEPT ![c].at = next, ![c].wrote = @ \union rows]
    /\ UNCHANGED <<tables, deletion, search, history>>

\* An insert in the transaction.
Insert(c, statement, next) ==
    /\ c \in DOMAIN creation /\ creation[c].at = statement
    /\ creation' = [creation EXCEPT ![c].at = next, ![c].wrote = @ \union {statement}]
    /\ UNCHANGED <<tables, deletion, search, history>>

CreateDocument(c) == Insert(c, "document", "embed")
CreateVector(c)   == Insert(c, "vector", "audit")
CreateAudit(c)    == Insert(c, "audit", "commit")

\* The embedding service is asked while the transaction is open; without an embedding
\* the creation goes on, and the entity gets no vector.
CreateEmbed(c) ==
    /\ c \in DOMAIN creation /\ creation[c].at = "embed"
    /\ \/ /\ creation' = [creation EXCEPT ![c].at = "vector"]
          /\ UNCHANGED plain
       \/ /\ creation' = [creation EXCEPT ![c].at = "audit"]
          /\ plain' = plain \union {creation[c].entity}
    /\ UNCHANGED <<tables, deletion, search, reply, born, begun, unaudited>>

\* The rows of a transaction become visible together.
Publish(c) ==
    LET e == creation[c].entity
        Into(table, statement) ==
            IF statement \in creation[c].wrote THEN table \union {e} ELSE table IN
    /\ refs' = Into(refs, "ref")
    /\ docs' = Into(docs, "document")
    /\ vectors' = Into(vectors, "vector")
    /\ audit' = IF "audit" \in creation[c].wrote THEN audit \union {<<"CREATE", e>>} ELSE audit
    /\ born' = born \union {e}

CreateCommit(c) ==
    /\ c \in DOMAIN creation /\ creation[c].at = "commit"
    /\ Publish(c)
    /\ creation' = [creation EXCEPT ![c].at = "readRef"]
    /\ UNCHANGED <<deletion, search, reply, plain, begun, unaudited>>

\* The commit is carried out but its answer is lost.
CreateCommitUnknown(c) ==
    /\ c \in DOMAIN creation /\ creation[c].at = "commit"
    /\ Publish(c)
    /\ creation' = Without(creation, c)
    /\ reply' = [reply EXCEPT ![creation[c].entity] = "failed"]
    /\ UNCHANGED <<deletion, search, plain, begun, unaudited>>

Answer(c, what) ==
    /\ creation' = Without(creation, c)
    /\ reply' = [reply EXCEPT ![creation[c].entity] = what]
    /\ UNCHANGED <<tables, deletion, search, born, plain, begun, unaudited>>

\* Mutant: the entity is read back before the commit.
CreateReadRefEarly(c) ==
    /\ c \in DOMAIN creation /\ creation[c].at \in {"commit", "readRef"}
    /\ IF creation[c].entity \in refs
       THEN /\ creation' = [creation EXCEPT ![c].at = "readDoc"]
            /\ UNCHANGED <<tables, deletion, search, history>>
       ELSE Answer(c, "null")

\* GetEntity reads the ref; an entity already deleted is answered with null.
CreateReadRef(c) ==
    /\ c \in DOMAIN creation /\ creation[c].at = "readRef"
    /\ IF creation[c].entity \in refs
       THEN /\ creation' = [creation EXCEPT ![c].at = "readDoc"]
            /\ UNCHANGED <<tables, deletion, search, history>>
       ELSE Answer(c, "null")

\* And then the document, which may be gone by now.
CreateReadDoc(c) ==
    /\ c \in DOMAIN creation /\ creation[c].at = "readDoc"
    /\ Answer(c, IF creation[c].entity \in docs THEN "whole" ELSE "bare")

\* A statement fails: before the commit it takes all of the transaction back; after it
\* the entity stays and the client is told of a failure all the same.
CreateFails(c) ==
    /\ c \in DOMAIN creation
    /\ Answer(c, "failed")

----------------------------------------------------------------------------
(* Deletion *)

\* DeleteEntity looks for the entity; without one it answers 404.
DeleteGet(d, e) ==
    /\ d \notin DOMAIN deletion /\ e \in refs
    /\ deletion' = Put(deletion, d, [entity |-> e, at |-> "audit"])
    /\ begun' = begun \union {e}
    /\ UNCHANGED <<tables, creation, search, reply, born, plain, unaudited>>

\* Mutant: the audit entry is left to the end.
DeleteAuditSkipped(d) ==
    /\ d \in DOMAIN deletion /\ deletion[d].at = "audit"
    /\ deletion' = [deletion EXCEPT ![d].at = "vectors"]
    /\ UNCHANGED <<tables, creation, search, history>>

\* It writes the audit entry; an error is ignored.
DeleteAudit(d) ==
    /\ d \in DOMAIN deletion /\ deletion[d].at = "audit"
    /\ LET e == deletion[d].entity IN
          \/ audit' = audit \union {<<"DELETE", e>>} /\ UNCHANGED unaudited
          \/ unaudited' = unaudited \union {e} /\ UNCHANGED audit
    /\ deletion' = [deletion EXCEPT ![d].at = "vectors"]
    /\ UNCHANGED <<refs, docs, vectors, creation, search, reply, born, plain, begun>>

\* It deletes the vectors; an error is ignored.
DeleteVectors(d) ==
    /\ d \in DOMAIN deletion /\ deletion[d].at = "vectors"
    /\ vectors' \in {vectors \ {deletion[d].entity}, vectors}
    /\ deletion' = [deletion EXCEPT ![d].at = "ref"]
    /\ UNCHANGED <<refs, docs, audit, creation, search, history>>

\* Mutant: the document does not follow its ref.
DeleteRefNoCascade(d) ==
    /\ d \in DOMAIN deletion /\ deletion[d].at = "ref"
    /\ refs' = refs \ {deletion[d].entity}
    /\ vectors' = vectors \ {deletion[d].entity}
    /\ deletion' = Without(deletion, d)
    /\ UNCHANGED <<docs, audit, creation, search, history>>

\* It deletes the ref, which takes the document and any vector along.
DeleteRef(d) ==
    /\ d \in DOMAIN deletion /\ deletion[d].at = "ref"
    /\ LET e == deletion[d].entity IN
          refs' = refs \ {e} /\ docs' = docs \ {e} /\ vectors' = vectors \ {e}
    /\ deletion' = Without(deletion, d)
    /\ UNCHANGED <<audit, creation, search, history>>

\* The last statement fails: what the first two did stays.
DeleteFails(d) ==
    /\ d \in DOMAIN deletion /\ deletion[d].at = "ref"
    /\ deletion' = Without(deletion, d)
    /\ UNCHANGED <<tables, creation, search, history>>

----------------------------------------------------------------------------
(* Search *)

\* The query has been embedded.
SearchBegin(s) ==
    /\ ~Searching(s)
    /\ search' = Put(search, s, [at |-> "vectors", todo |-> {}, reading |-> {}, whole |-> {},
                                 bare |-> {}, hits |-> {}, unread |-> {}])
    /\ UNCHANGED <<tables, creation, deletion, history>>

\* The nearest vectors; which ones these are is left open.
SearchVectors(s) ==
    /\ Searching(s) /\ search[s].at = "vectors"
    /\ \E near \in SUBSET vectors :
          /\ Cardinality(near) <= TopK /\ (near = vectors \/ Cardinality(near) = TopK)
          /\ search' = [search EXCEPT ![s].at = "hydrate", ![s].todo = near, ![s].hits = near]
    /\ UNCHANGED <<tables, creation, deletion, history>>

\* GetEntity of one result after the other: the ref, without which it is left out.
SearchReadRef(s, e) ==
    /\ Searching(s) /\ e \in search[s].todo /\ search[s].reading = {}
    /\ search' = [search EXCEPT ![s].todo = @ \ {e},
                                ![s].reading = IF e \in refs THEN {e} ELSE {}]
    /\ UNCHANGED <<tables, creation, deletion, history>>

\* Mutant: the answer claims the document without having found it.
SearchReadDocBlind(s, e) ==
    /\ Searching(s) /\ e \in search[s].reading
    /\ search' = [search EXCEPT ![s].reading = {},
                                ![s].bare = IF e \in vectors THEN @ ELSE @ \union {e},
                                ![s].whole = IF e \in vectors THEN @ \union {e} ELSE @]
    /\ UNCHANGED <<tables, creation, deletion, history>>

\* And the document, without which it is answered all the same.
SearchReadDoc(s, e) ==
    /\ Searching(s) /\ e \in search[s].reading
    /\ search' = [search EXCEPT ![s].reading = {},
                                ![s].bare = IF e \in docs THEN @ ELSE @ \union {e},
                                ![s].whole = IF e \in docs THEN @ \union {e} ELSE @]
    /\ UNCHANGED <<tables, creation, deletion, history>>

\* A result that cannot be read is left out.
SearchSkips(s, e) ==
    /\ Searching(s)
    /\ \/ e \in search[s].reading
       \/ e \in search[s].todo /\ search[s].reading = {}
    /\ search' = [search EXCEPT ![s].todo = @ \ {e}, ![s].reading = {},
                                ![s].unread = @ \union {e}]
    /\ UNCHANGED <<tables, creation, deletion, history>>

SearchAnswer(s) ==
    /\ Searching(s) /\ search[s].at = "hydrate"
    /\ search[s].todo = {} /\ search[s].reading = {}
    /\ search' = [search EXCEPT ![s].at = "answered"]
    /\ UNCHANGED <<tables, creation, deletion, history>>

\* The query of the vectors fails.
SearchFails(s) ==
    /\ Searching(s) /\ search[s].at = "vectors"
    /\ search' = Without(search, s)
    /\ UNCHANGED <<tables, creation, deletion, history>>

----------------------------------------------------------------------------
\* The process dies: open transactions are rolled back, nobody gets an answer.
Crash ==
    /\ creation # Empty \/ deletion # Empty \/ search # Empty
    /\ reply' = [e \in Entities |->
                    IF \E c \in DOMAIN creation : creation[c].entity = e THEN "failed"
                    ELSE reply[e]]
    /\ creation' = Empty /\ deletion' = Empty /\ search' = Empty
    /\ UNCHANGED <<tables, born, plain, begun, unaudited>>

IngestKnowledge(c) ==
    \/ \E e \in Entities : CreateBegin(c, e)
    \/ CreateDocument(c) \/ CreateEmbed(c) \/ CreateVector(c) \/ CreateAudit(c)
    \/ CreateCommit(c) \/ CreateCommitUnknown(c) \/ CreateFails(c)
    \/ CreateReadRef(c) \/ CreateReadDoc(c)

DeleteKnowledge(d) ==
    \/ \E e \in Entities : DeleteGet(d, e)
    \/ DeleteAudit(d) \/ DeleteVectors(d) \/ DeleteRef(d) \/ DeleteFails(d)

SearchKnowledge(s) ==
    \/ SearchBegin(s) \/ SearchVectors(s) \/ SearchAnswer(s) \/ SearchFails(s)
    \/ \E e \in Entities : SearchReadRef(s, e) \/ SearchReadDoc(s, e) \/ SearchSkips(s, e)

Next ==
    \/ \E c \in Creations : IngestKnowledge(c)
    \/ \E d \in Deletions : DeleteKnowledge(d)
    \/ \E s \in Searches : SearchKnowledge(s)
    \/ Crash

Spec == Init /\ [][Next]_vars

----------------------------------------------------------------------------
(* What the knowledge base promises *)

\* Every variable holds values of its type, and documents and vectors refer to rows.
TypeOK ==
    /\ refs \subseteq Entities /\ docs \subseteq refs /\ vectors \subseteq refs
    /\ audit \subseteq Actions \X Entities
    /\ IsMap(creation, Creations, CreationSet)
    /\ IsMap(deletion, Deletions, DeletionSet)
    /\ IsMap(search, Searches, SearchSet)
    /\ reply \in [Entities -> Replies]
    /\ born \subseteq Entities /\ plain \subseteq Entities
    /\ begun \subseteq Entities /\ unaudited \subseteq Entities

\* An entity is created everywhere or nowhere, whatever fails: one that can be seen has
\* its document, and the log has the creation of those that were committed and of no
\* others.
EntitiesAreWhole ==
    /\ refs \subseteq docs \intersect born
    /\ \A e \in Entities : e \in born <=> <<"CREATE", e>> \in audit

\* An entity that is there is found by no search only because it could not be embedded
\* when it was created or somebody has begun to delete it.
HiddenForAReason == refs \ vectors \subseteq plain \union begun

\* No entity disappears without a trace: the log has the deletion before the entity
\* goes, unless the log could not be written, and of nothing that nobody deleted.
DeletionsAreLogged ==
    LET logged == {e \in Entities : <<"DELETE", e>> \in audit} IN
    born \ refs \subseteq logged \union unaudited /\ logged \subseteq begun

\* An answer holds results of one query of the vectors, at most as many as asked for;
\* what is missing from it, or has no document in it, was deleted since or could not
\* be read.
AnswersAreSound ==
    \A s \in DOMAIN search : search[s].at = "answered" =>
        LET found == search[s].whole \union search[s].bare IN
        /\ found \subseteq search[s].hits /\ Cardinality(found) <= TopK
        /\ search[s].hits \ found \subseteq search[s].unread \union (born \ refs)
        /\ search[s].bare \subseteq born \ refs

\* What the creator is told holds: an entity answered with null, or without its
\* document, was there and has been deleted.
RepliesAreTrue ==
    \A e \in Entities :
        /\ reply[e] = "whole" => e \in born
        /\ reply[e] \in {"bare", "null"} => e \in born \ refs
=============================================================================
