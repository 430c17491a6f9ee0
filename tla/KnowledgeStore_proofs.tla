------------------------ MODULE KnowledgeStore_proofs ------------------------
(***************************************************************************)
(* Proofs about the knowledge base, for any number of entities and of      *)
(* requests of each kind served at the same time.                          *)
(***************************************************************************)
EXTENDS KnowledgeStore, FiniteSetTheorems, TLAPS

LEMMA MapFacts ==
  ASSUME NEW S, NEW T, NEW map, IsMap(map, S, T)
  PROVE  /\ DOMAIN map \subseteq S
         /\ \A x \in DOMAIN map : map[x] \in T
         /\ \A x \in S, v \in T : IsMap(Put(map, x, v), S, T)
         /\ \A x : IsMap(Without(map, x), S, T)
         /\ \A x, v \in T : IsMap([map EXCEPT ![x] = v], S, T)
BY DEF IsMap, Put, Without

LEMMA EmptyIsMap == \A S, T : IsMap(Empty, S, T)
BY DEF IsMap, Empty

----------------------------------------------------------------------------
(* Types *)

Typed ==
    /\ refs \subseteq Entities /\ docs \subseteq Entities /\ vectors \subseteq Entities
    /\ audit \subseteq Actions \X Entities
    /\ IsMap(creation, Creations, CreationSet)
    /\ IsMap(deletion, Deletions, DeletionSet)
    /\ IsMap(search, Searches, SearchSet)
    /\ reply \in [Entities -> Replies]
    /\ born \subseteq Entities /\ plain \subseteq Entities
    /\ begun \subseteq Entities /\ unaudited \subseteq Entities

LEMMA TypedInit == Init => Typed
BY EmptyIsMap DEF Init, Typed, Replies

LEMMA TypedStep == Typed /\ [Next]_vars => Typed'
<1> SUFFICES ASSUME Typed, [Next]_vars PROVE Typed'
  OBVIOUS
<1> USE DEF tables, history
<1>1. ASSUME NEW c \in Creations, IngestKnowledge(c) PROVE Typed'
  <2>0. ASSUME c \in DOMAIN creation
        PROVE  /\ creation[c] \in CreationSet /\ creation[c].entity \in Entities
               /\ creation[c].wrote \subseteq Statements
    <3>1. creation[c] \in CreationSet
      BY <2>0, MapFacts DEF Typed
    <3> QED
      BY <3>1 DEF CreationSet
  <2>1. ASSUME NEW e \in Entities, CreateBegin(c, e) PROVE Typed'
    <3>1. [entity |-> e, at |-> "document", wrote |-> {"ref"}] \in CreationSet
      BY DEF CreationSet, Statements
    <3>2. IsMap(creation', Creations, CreationSet)
      BY <2>1, <3>1, MapFacts DEF CreateBegin, Typed
    <3> QED
      BY <2>1, <3>2 DEF CreateBegin, Typed
  <2>2. ASSUME NEW statement \in Statements, NEW next \in Statements, Insert(c, statement, next)
        PROVE  Typed'
    <3>1. [creation[c] EXCEPT !.at = next, !.wrote = @ \union {statement}] \in CreationSet
      BY <2>2, <2>0 DEF Insert, CreationSet
    <3>2. IsMap(creation', Creations, CreationSet)
      BY <2>2, <3>1 DEF Insert, Typed, IsMap
    <3> QED
      BY <2>2, <3>2 DEF Insert, Typed
  <2>3. CASE CreateEmbed(c)
    <3>1. \A next \in {"vector", "audit"} : [creation[c] EXCEPT !.at = next] \in CreationSet
      BY <2>3, <2>0 DEF CreateEmbed, CreationSet, Statements
    <3>2. IsMap(creation', Creations, CreationSet)
      BY <2>3, <3>1 DEF CreateEmbed, Typed, IsMap
    <3> QED
      BY <2>3, <2>0, <3>2 DEF CreateEmbed, Typed
  <2>4. ASSUME c \in DOMAIN creation, Publish(c)
        PROVE  /\ refs' \subseteq Entities /\ docs' \subseteq Entities
               /\ vectors' \subseteq Entities /\ audit' \subseteq Actions \X Entities
               /\ born' \subseteq Entities
    BY <2>4, <2>0 DEF Publish, Typed, Actions
  <2>5. CASE CreateCommit(c)
    <3>1. [creation[c] EXCEPT !.at = "readRef"] \in CreationSet
      BY <2>5, <2>0 DEF CreateCommit, CreationSet
    <3>2. IsMap(creation', Creations, CreationSet)
      BY <2>5, <3>1 DEF CreateCommit, Typed, IsMap
    <3> QED
      BY <2>5, <2>4, <3>2 DEF CreateCommit, Typed
  <2>6. CASE CreateCommitUnknown(c)
    <3>1. IsMap(creation', Creations, CreationSet)
      BY <2>6, MapFacts DEF CreateCommitUnknown, Typed
    <3>2. reply' \in [Entities -> Replies]
      BY <2>6 DEF CreateCommitUnknown, Typed, Replies
    <3> QED
      BY <2>6, <2>4, <3>1, <3>2 DEF CreateCommitUnknown, Typed
  <2>7. ASSUME NEW what \in Replies, Answer(c, what) PROVE Typed'
    <3>1. IsMap(creation', Creations, CreationSet)
      BY <2>7, MapFacts DEF Answer, Typed
    <3> QED
      BY <2>7, <3>1 DEF Answer, Typed
  <2>8. CASE CreateReadRef(c) /\ creation[c].entity \in refs
    <3>1. [creation[c] EXCEPT !.at = "readDoc"] \in CreationSet
      BY <2>8, <2>0 DEF CreateReadRef, CreationSet
    <3>2. IsMap(creation', Creations, CreationSet)
      BY <2>8, <3>1 DEF CreateReadRef, Typed, IsMap
    <3> QED
      BY <2>8, <3>2 DEF CreateReadRef, Typed
  <2>9. CASE \/ CreateReadRef(c) /\ creation[c].entity \notin refs
             \/ CreateReadDoc(c) \/ CreateFails(c)
    <3>1. {"whole", "bare", "null", "failed"} \subseteq Replies
      BY DEF Replies
    <3> QED
      BY <2>9, <2>7, <3>1 DEF CreateReadRef, CreateReadDoc, CreateFails
  <2> QED
    BY <1>1, <2>1, <2>2, <2>3, <2>5, <2>6, <2>8, <2>9
       DEF IngestKnowledge, CreateDocument, CreateVector, CreateAudit, Statements
<1>2. ASSUME NEW d \in Deletions, DeleteKnowledge(d) PROVE Typed'
  <2>0. ASSUME d \in DOMAIN deletion
        PROVE  deletion[d] \in DeletionSet /\ deletion[d].entity \in Entities
    <3>1. deletion[d] \in DeletionSet
      BY <2>0, MapFacts DEF Typed
    <3> QED
      BY <3>1 DEF DeletionSet
  <2>1. ASSUME NEW e \in Entities, DeleteGet(d, e) PROVE Typed'
    <3>1. [entity |-> e, at |-> "audit"] \in DeletionSet
      BY DEF DeletionSet
    <3>2. IsMap(deletion', Deletions, DeletionSet)
      BY <2>1, <3>1, MapFacts DEF DeleteGet, Typed
    <3> QED
      BY <2>1, <3>2 DEF DeleteGet, Typed
  <2>2. CASE DeleteAudit(d) \/ DeleteVectors(d)
    <3>1. d \in DOMAIN deletion
      BY <2>2 DEF DeleteAudit, DeleteVectors
    <3>2. \A at \in {"vectors", "ref"} : [deletion[d] EXCEPT !.at = at] \in DeletionSet
      BY <2>0, <3>1 DEF DeletionSet
    <3>3. IsMap(deletion', Deletions, DeletionSet)
      BY <2>2, <3>2 DEF DeleteAudit, DeleteVectors, Typed, IsMap
    <3> QED
      BY <2>2, <2>0, <3>1, <3>3 DEF DeleteAudit, DeleteVectors, Typed, Actions
  <2>3. CASE DeleteRef(d) \/ DeleteFails(d)
    <3>1. IsMap(deletion', Deletions, DeletionSet)
      BY <2>3, MapFacts DEF DeleteRef, DeleteFails, Typed
    <3> QED
      BY <2>3, <3>1 DEF DeleteRef, DeleteFails, Typed
  <2> QED
    BY <1>2, <2>1, <2>2, <2>3 DEF DeleteKnowledge
<1>3. ASSUME NEW s \in Searches, SearchKnowledge(s) PROVE Typed'
  <2>0. ASSUME Searching(s) PROVE search[s] \in SearchSet
    BY <2>0, MapFacts DEF Searching, Typed
  <2>1. IsMap(search', Searches, SearchSet)
    <3>1. CASE SearchBegin(s)
      <4>1. [at |-> "vectors", todo |-> {}, reading |-> {}, whole |-> {},
             bare |-> {}, hits |-> {}, unread |-> {}] \in SearchSet
        BY DEF SearchSet
      <4> QED
        BY <3>1, <4>1, MapFacts DEF SearchBegin, Typed
    <3>2. CASE SearchVectors(s)
      <4>1. PICK near \in SUBSET vectors :
               search' = [search EXCEPT ![s].at = "hydrate", ![s].todo = near, ![s].hits = near]
        BY <3>2 DEF SearchVectors
      <4>2. [search[s] EXCEPT !.at = "hydrate", !.todo = near, !.hits = near] \in SearchSet
        BY <3>2, <2>0 DEF SearchVectors, Typed, SearchSet
      <4> QED
        BY <4>1, <4>2 DEF Typed, IsMap
    <3>3. ASSUME NEW e \in Entities, SearchReadRef(s, e) PROVE IsMap(search', Searches, SearchSet)
      <4>1. [search[s] EXCEPT !.todo = @ \ {e}, !.reading = IF e \in refs THEN {e} ELSE {}]
               \in SearchSet
        BY <3>3, <2>0 DEF SearchReadRef, SearchSet
      <4> QED
        BY <3>3, <4>1 DEF SearchReadRef, Typed, IsMap
    <3>4. ASSUME NEW e \in Entities, SearchReadDoc(s, e) PROVE IsMap(search', Searches, SearchSet)
      <4>1. [search[s] EXCEPT !.reading = {}, !.bare = IF e \in docs THEN @ ELSE @ \union {e},
                              !.whole = IF e \in docs THEN @ \union {e} ELSE @] \in SearchSet
        BY <3>4, <2>0 DEF SearchReadDoc, SearchSet
      <4> QED
        BY <3>4, <4>1 DEF SearchReadDoc, Typed, IsMap
    <3>5. ASSUME NEW e \in Entities, SearchSkips(s, e) PROVE IsMap(search', Searches, SearchSet)
      <4>1. [search[s] EXCEPT !.todo = @ \ {e}, !.reading = {}, !.unread = @ \union {e}]
               \in SearchSet
        BY <3>5, <2>0 DEF SearchSkips, SearchSet
      <4> QED
        BY <3>5, <4>1 DEF SearchSkips, Typed, IsMap
    <3>6. CASE SearchAnswer(s)
      <4>1. [search[s] EXCEPT !.at = "answered"] \in SearchSet
        BY <3>6, <2>0 DEF SearchAnswer, SearchSet
      <4> QED
        BY <3>6, <4>1 DEF SearchAnswer, Typed, IsMap
    <3>7. CASE SearchFails(s)
      BY <3>7, MapFacts DEF SearchFails, Typed
    <3> QED
      BY <1>3, <3>1, <3>2, <3>3, <3>4, <3>5, <3>6, <3>7 DEF SearchKnowledge
  <2>2. UNCHANGED <<tables, creation, deletion, history>>
    BY <1>3 DEF SearchKnowledge, SearchBegin, SearchVectors, SearchReadRef, SearchReadDoc,
                SearchSkips, SearchAnswer, SearchFails
  <2> QED
    BY <2>1, <2>2 DEF Typed
<1>4. CASE Crash
  BY <1>4, EmptyIsMap DEF Crash, Typed, Replies
<1>5. CASE UNCHANGED vars
  BY <1>5 DEF vars, Typed
<1> QED
  BY <1>1, <1>2, <1>3, <1>4, <1>5 DEF Next

----------------------------------------------------------------------------
(* The tables *)

\* What a transaction has inserted, and what is known once it is over.
Transactions ==
    \A c \in DOMAIN creation :
        LET t == creation[c] IN
        /\ reply[t.entity] = "none"
        /\ \A d \in DOMAIN creation : creation[d].entity = t.entity => d = c
        /\ "ref" \in t.wrote
        /\ t.at \in {"embed", "vector", "audit", "commit"} => "document" \in t.wrote
        /\ t.at \in {"audit", "commit"} => "vector" \in t.wrote \/ t.entity \in plain
        /\ t.at = "commit" => "audit" \in t.wrote
        /\ t.at \in Statements <=> t.entity \notin born

\* An entity that was committed has an answer or will have one.
Answered ==
    \A e \in born : reply[e] = "none" => \E c \in DOMAIN creation : creation[c].entity = e

Tables ==
    /\ docs = refs /\ vectors \subseteq refs /\ refs \subseteq born
    /\ \A e \in Entities : e \in born <=> <<"CREATE", e>> \in audit

\* A deletion that is past its audit entry has written it, or could not.
Deleting ==
    /\ \A d \in DOMAIN deletion :
          /\ deletion[d].entity \in begun
          /\ deletion[d].at # "audit" =>
                <<"DELETE", deletion[d].entity>> \in audit \/ deletion[d].entity \in unaudited
    /\ begun \subseteq born

TablesInv ==
    Transactions /\ Answered /\ Tables /\ Deleting /\ HiddenForAReason
        /\ DeletionsAreLogged /\ RepliesAreTrue

LEMMA TablesInit == Init => TablesInv
BY DEF Init, TablesInv, Transactions, Answered, Tables, Deleting, HiddenForAReason,
       DeletionsAreLogged, RepliesAreTrue, Empty

\* A request of a creator is answered, and leaves the tables as they are.
LEMMA AnswerKeeps ==
  ASSUME Typed, TablesInv, NEW c \in DOMAIN creation, NEW what \in Replies \ {"none"},
         Answer(c, what),
         what = "whole" => creation[c].entity \in born,
         what \in {"bare", "null"} => creation[c].entity \in born \ refs
  PROVE  TablesInv'
<1> USE DEF tables, history
<1>0. creation[c].entity \in Entities
  <2>1. creation[c] \in CreationSet
    BY MapFacts DEF Typed
  <2> QED
    BY <2>1 DEF CreationSet
<1>1. /\ DOMAIN creation' = DOMAIN creation \ {c}
      /\ \A d \in DOMAIN creation' : creation'[d] = creation[d]
  BY DEF Answer, Without
<1>2. /\ reply'[creation[c].entity] = what
      /\ \A e \in Entities : e # creation[c].entity => reply'[e] = reply[e]
  BY <1>0 DEF Answer, Typed
<1>3. \A d \in DOMAIN creation' : creation'[d].entity \in Entities
  <2> TAKE d \in DOMAIN creation'
  <2>1. creation[d] \in CreationSet
    BY <1>1, MapFacts DEF Typed
  <2> QED
    BY <1>1, <2>1 DEF CreationSet
<1>4. Transactions'
  BY <1>1, <1>2, <1>3 DEF Answer, TablesInv, Transactions
<1>5. Answered'
  BY <1>0, <1>1, <1>2 DEF Answer, TablesInv, Answered, Typed
<1>6. RepliesAreTrue'
  BY <1>2 DEF Answer, TablesInv, RepliesAreTrue
<1>7. (Tables /\ Deleting /\ HiddenForAReason /\ DeletionsAreLogged)'
  BY DEF Answer, TablesInv, Tables, Deleting, HiddenForAReason, DeletionsAreLogged
<1> QED
  BY <1>4, <1>5, <1>6, <1>7 DEF TablesInv

\* The transaction of an entity is committed, with all its rows.
LEMMA PublishKeeps ==
  ASSUME Typed, TablesInv, NEW c \in DOMAIN creation, creation[c].at = "commit", Publish(c),
         UNCHANGED <<deletion, plain, begun, unaudited>>
  PROVE  /\ (Tables /\ Deleting /\ HiddenForAReason /\ DeletionsAreLogged)'
         /\ born' = born \union {creation[c].entity} /\ born \ refs \subseteq born' \ refs'
         /\ creation[c].entity \in Entities \ born
<1> DEFINE e == creation[c].entity
<1>1. e \in Entities
  <2>1. creation[c] \in CreationSet
    BY MapFacts DEF Typed
  <2> QED
    BY <2>1 DEF CreationSet
<1>2. /\ e \notin born /\ e \notin refs
      /\ {"ref", "document", "audit"} \subseteq creation[c].wrote
      /\ "vector" \in creation[c].wrote \/ e \in plain
  BY DEF TablesInv, Transactions, Statements, Tables
<1>3. /\ refs' = refs \union {e} /\ docs' = docs \union {e}
      /\ vectors' = IF "vector" \in creation[c].wrote THEN vectors \union {e} ELSE vectors
      /\ audit' = audit \union {<<"CREATE", e>>} /\ born' = born \union {e}
  BY <1>2 DEF Publish
<1>4. Tables'
  BY <1>1, <1>2, <1>3 DEF TablesInv, Tables
<1>5. Deleting'
  BY <1>3 DEF TablesInv, Deleting
<1>6. HiddenForAReason'
  BY <1>2, <1>3 DEF TablesInv, HiddenForAReason
<1>7. DeletionsAreLogged'
  BY <1>2, <1>3 DEF TablesInv, DeletionsAreLogged
<1> QED
  BY <1>1, <1>2, <1>3, <1>4, <1>5, <1>6, <1>7 DEF TablesInv, Tables

LEMMA CreationsKeepTables ==
  ASSUME Typed, TablesInv, NEW c \in Creations, IngestKnowledge(c)
  PROVE  TablesInv'
<1> USE DEF tables, history
<1>0. ASSUME NEW d \in DOMAIN creation
      PROVE  creation[d] \in CreationSet /\ creation[d].entity \in Entities
  <2>1. creation[d] \in CreationSet
    BY MapFacts DEF Typed
  <2> QED
    BY <2>1 DEF CreationSet
<1>1. ASSUME UNCHANGED <<tables, deletion, reply, born, begun, unaudited>>,
             plain \subseteq plain', Transactions', Answered'
      PROVE  TablesInv'
  BY <1>1 DEF TablesInv, Tables, Deleting, HiddenForAReason, DeletionsAreLogged, RepliesAreTrue
<1>2. ASSUME NEW e \in Entities, CreateBegin(c, e) PROVE TablesInv'
  <2>1. e \notin born
    BY <1>2 DEF CreateBegin, TablesInv, Answered
  <2>2. /\ DOMAIN creation' = DOMAIN creation \union {c} /\ c \notin DOMAIN creation
        /\ creation'[c] = [entity |-> e, at |-> "document", wrote |-> {"ref"}]
        /\ \A d \in DOMAIN creation : creation'[d] = creation[d]
    BY <1>2 DEF CreateBegin, Put
  <2>5. /\ creation'[c].entity = e /\ creation'[c].at = "document"
        /\ creation'[c].wrote = {"ref"}
    BY <2>2
  <2>6. /\ reply' = reply /\ reply[e] = "none" /\ born' = born /\ plain' = plain
        /\ \A d \in DOMAIN creation : creation[d].entity # e
    BY <1>2 DEF CreateBegin
  <2>3. Transactions'
    BY <2>1, <2>2, <2>5, <2>6 DEF TablesInv, Transactions, Statements
  <2>4. Answered'
    BY <2>2, <2>6 DEF TablesInv, Answered
  <2> QED
    BY <1>1, <1>2, <2>3, <2>4 DEF CreateBegin
<1>3. ASSUME c \in DOMAIN creation, DOMAIN creation' = DOMAIN creation,
             \A d \in DOMAIN creation : d # c => creation'[d] = creation[d],
             creation'[c].entity = creation[c].entity,
             UNCHANGED <<reply, born>>
      PROVE  Answered'
  BY <1>3 DEF TablesInv, Answered
<1>4. ASSUME NEW statement, NEW next, Insert(c, statement, next),
             <<statement, next>> \in
                {<<"document", "embed">>, <<"vector", "audit">>, <<"audit", "commit">>}
      PROVE  TablesInv'
  <2>1. /\ c \in DOMAIN creation /\ DOMAIN creation' = DOMAIN creation
        /\ \A d \in DOMAIN creation : d # c => creation'[d] = creation[d]
        /\ creation'[c].entity = creation[c].entity /\ creation'[c].at = next
        /\ creation'[c].wrote = creation[c].wrote \union {statement}
    BY <1>0, <1>4 DEF Insert, CreationSet
  <2>2. Transactions'
    BY <1>4, <2>1 DEF Insert, TablesInv, Transactions, Statements
  <2> QED
    BY <1>1, <1>3, <1>4, <2>1, <2>2 DEF Insert
<1>5. CASE CreateEmbed(c)
  <2>1. PICK next \in {"vector", "audit"} :
           /\ creation' = [creation EXCEPT ![c].at = next]
           /\ plain' = IF next = "vector" THEN plain ELSE plain \union {creation[c].entity}
    BY <1>5 DEF CreateEmbed
  <2>2. /\ c \in DOMAIN creation /\ DOMAIN creation' = DOMAIN creation
        /\ \A d \in DOMAIN creation : d # c => creation'[d] = creation[d]
        /\ creation'[c].entity = creation[c].entity /\ creation'[c].at = next
        /\ creation'[c].wrote = creation[c].wrote
    BY <1>0, <1>5, <2>1 DEF CreateEmbed, CreationSet
  <2>3. Transactions'
    BY <1>5, <2>1, <2>2 DEF CreateEmbed, TablesInv, Transactions, Statements
  <2> QED
    BY <1>1, <1>3, <1>5, <2>1, <2>2, <2>3 DEF CreateEmbed
<1>6. CASE CreateCommit(c)
  <2> DEFINE e == creation[c].entity
  <2>1. /\ c \in DOMAIN creation /\ DOMAIN creation' = DOMAIN creation
        /\ \A d \in DOMAIN creation : d # c => creation'[d] = creation[d]
        /\ creation'[c].entity = e /\ creation'[c].at = "readRef"
        /\ creation'[c].wrote = creation[c].wrote
    BY <1>0, <1>6 DEF CreateCommit, CreationSet
  <2>2. /\ (Tables /\ Deleting /\ HiddenForAReason /\ DeletionsAreLogged)'
        /\ born' = born \union {e} /\ born \ refs \subseteq born' \ refs'
    BY <1>6, PublishKeeps DEF CreateCommit
  <2>3. Transactions'
    BY <1>6, <2>1, <2>2 DEF CreateCommit, TablesInv, Transactions, Statements
  <2>4. Answered'
    BY <1>6, <2>1, <2>2 DEF CreateCommit, TablesInv, Answered
  <2>5. RepliesAreTrue'
    BY <1>6, <2>2 DEF CreateCommit, TablesInv, RepliesAreTrue
  <2> QED
    BY <2>2, <2>3, <2>4, <2>5 DEF TablesInv
<1>7. CASE CreateCommitUnknown(c)
  <2> DEFINE e == creation[c].entity
  <2>1. /\ c \in DOMAIN creation /\ DOMAIN creation' = DOMAIN creation \ {c}
        /\ \A d \in DOMAIN creation' : creation'[d] = creation[d]
        /\ reply'[e] = "failed" /\ \A x \in Entities : x # e => reply'[x] = reply[x]
    BY <1>0, <1>7 DEF CreateCommitUnknown, Without, Typed
  <2>2. /\ (Tables /\ Deleting /\ HiddenForAReason /\ DeletionsAreLogged)'
        /\ born' = born \union {e} /\ born \ refs \subseteq born' \ refs' /\ e \in Entities
    BY <1>7, PublishKeeps DEF CreateCommitUnknown
  <2>3. Transactions'
    BY <1>0, <1>7, <2>1, <2>2 DEF CreateCommitUnknown, TablesInv, Transactions
  <2>4. Answered'
    BY <1>7, <2>1, <2>2 DEF CreateCommitUnknown, TablesInv, Answered, Typed
  <2>5. RepliesAreTrue'
    BY <1>7, <2>1, <2>2 DEF CreateCommitUnknown, TablesInv, RepliesAreTrue
  <2> QED
    BY <2>2, <2>3, <2>4, <2>5 DEF TablesInv
<1>8. CASE CreateReadRef(c)
  <2>0. c \in DOMAIN creation /\ creation[c].entity \in born
    BY <1>8 DEF CreateReadRef, TablesInv, Transactions, Statements
  <2>1. CASE creation[c].entity \in refs
    <3>1. /\ DOMAIN creation' = DOMAIN creation
          /\ \A d \in DOMAIN creation : d # c => creation'[d] = creation[d]
          /\ creation'[c].entity = creation[c].entity /\ creation'[c].at = "readDoc"
          /\ creation'[c].wrote = creation[c].wrote
      BY <1>0, <1>8, <2>0, <2>1 DEF CreateReadRef, CreationSet
    <3>2. Transactions'
      BY <1>8, <2>0, <2>1, <3>1 DEF CreateReadRef, TablesInv, Transactions, Statements
    <3> QED
      BY <1>1, <1>3, <1>8, <2>0, <2>1, <3>1, <3>2 DEF CreateReadRef
  <2>2. CASE creation[c].entity \notin refs
    BY <1>8, <2>0, <2>2, AnswerKeeps DEF CreateReadRef, Replies
  <2> QED
    BY <2>1, <2>2
<1>9. CASE CreateReadDoc(c)
  <2>1. c \in DOMAIN creation /\ creation[c].entity \in born /\ docs = refs
    BY <1>9 DEF CreateReadDoc, TablesInv, Transactions, Tables, Statements
  <2>2. PICK what \in {"whole", "bare"} :
           Answer(c, what) /\ (what = "bare" => creation[c].entity \notin docs)
    BY <1>9 DEF CreateReadDoc
  <2> QED
    BY <2>1, <2>2, AnswerKeeps DEF Replies
<1>10. CASE CreateFails(c)
  BY <1>10, AnswerKeeps DEF CreateFails, Replies
<1> QED
  BY <1>2, <1>4, <1>5, <1>6, <1>7, <1>8, <1>9, <1>10
     DEF IngestKnowledge, CreateDocument, CreateVector, CreateAudit

LEMMA DeletionsKeepTables ==
  ASSUME Typed, TablesInv, NEW d \in Deletions, DeleteKnowledge(d)
  PROVE  TablesInv'
<1> USE DEF tables, history
<1>0. ASSUME NEW x \in DOMAIN deletion PROVE deletion[x] \in DeletionSet
  BY <1>0, MapFacts DEF Typed
<1>1. ASSUME UNCHANGED <<creation, reply, born, plain, audit>>, refs' \subseteq refs,
             docs' = refs', vectors' \subseteq refs'
      PROVE  Transactions' /\ Answered' /\ Tables' /\ RepliesAreTrue'
  BY <1>1 DEF TablesInv, Transactions, Answered, Tables, RepliesAreTrue
<1>2. ASSUME NEW e \in Entities, DeleteGet(d, e) PROVE TablesInv'
  <2>1. /\ DOMAIN deletion' = DOMAIN deletion \union {d}
        /\ deletion'[d].entity = e /\ deletion'[d].at = "audit"
        /\ \A x \in DOMAIN deletion : deletion'[x] = deletion[x]
    BY <1>2 DEF DeleteGet, Put
  <2>2. Deleting'
    BY <1>2, <2>1 DEF DeleteGet, TablesInv, Deleting, Tables
  <2>3. HiddenForAReason' /\ DeletionsAreLogged'
    BY <1>2 DEF DeleteGet, TablesInv, HiddenForAReason, DeletionsAreLogged
  <2>4. Transactions' /\ Answered' /\ Tables' /\ RepliesAreTrue'
    BY <1>1, <1>2 DEF DeleteGet, TablesInv, Tables
  <2> QED
    BY <2>2, <2>3, <2>4 DEF TablesInv
<1>3. CASE DeleteAudit(d)
  <2> DEFINE e == deletion[d].entity
  <2>1. /\ d \in DOMAIN deletion /\ DOMAIN deletion' = DOMAIN deletion
        /\ deletion'[d].entity = e
        /\ \A x \in DOMAIN deletion : x # d => deletion'[x] = deletion[x]
    BY <1>0, <1>3 DEF DeleteAudit, DeletionSet
  <2>2. /\ audit \subseteq audit' /\ audit' \subseteq audit \union {<<"DELETE", e>>}
        /\ unaudited \subseteq unaudited'
        /\ <<"DELETE", e>> \in audit' \/ e \in unaudited'
        /\ UNCHANGED <<refs, docs, vectors, creation, reply, born, plain, begun>>
    BY <1>3 DEF DeleteAudit
  <2>3. Deleting'
    BY <2>1, <2>2 DEF TablesInv, Deleting
  <2>4. e \in begun
    BY <2>1 DEF TablesInv, Deleting
  <2>5. DeletionsAreLogged'
    BY <2>2, <2>4 DEF TablesInv, DeletionsAreLogged
  <2>6. Tables'
    BY <2>2 DEF TablesInv, Tables
  <2>7. Transactions' /\ Answered' /\ HiddenForAReason' /\ RepliesAreTrue'
    BY <2>2 DEF TablesInv, Transactions, Answered, HiddenForAReason, RepliesAreTrue
  <2> QED
    BY <2>3, <2>5, <2>6, <2>7 DEF TablesInv
<1>4. CASE DeleteVectors(d)
  <2> DEFINE e == deletion[d].entity
  <2>1. /\ d \in DOMAIN deletion /\ DOMAIN deletion' = DOMAIN deletion
        /\ deletion'[d].entity = e /\ deletion[d].at = "vectors"
        /\ \A x \in DOMAIN deletion : x # d => deletion'[x] = deletion[x]
    BY <1>0, <1>4 DEF DeleteVectors, DeletionSet
  <2>2. Deleting'
    BY <1>4, <2>1 DEF DeleteVectors, TablesInv, Deleting
  <2>3. e \in begun
    BY <2>1 DEF TablesInv, Deleting
  <2>4. HiddenForAReason' /\ DeletionsAreLogged'
    BY <1>4, <2>3 DEF DeleteVectors, TablesInv, HiddenForAReason, DeletionsAreLogged
  <2>5. Transactions' /\ Answered' /\ Tables' /\ RepliesAreTrue'
    BY <1>1, <1>4 DEF DeleteVectors, TablesInv, Tables
  <2> QED
    BY <2>2, <2>4, <2>5 DEF TablesInv
<1>5. CASE DeleteRef(d)
  <2> DEFINE e == deletion[d].entity
  <2>1. /\ d \in DOMAIN deletion /\ DOMAIN deletion' = DOMAIN deletion \ {d}
        /\ \A x \in DOMAIN deletion' : deletion'[x] = deletion[x]
    BY <1>5 DEF DeleteRef, Without
  <2>2. Deleting'
    BY <1>5, <2>1 DEF DeleteRef, TablesInv, Deleting
  <2>3. <<"DELETE", e>> \in audit \/ e \in unaudited
    BY <1>5, <2>1 DEF DeleteRef, TablesInv, Deleting
  <2>4. HiddenForAReason' /\ DeletionsAreLogged'
    BY <1>5, <2>3 DEF DeleteRef, Typed, TablesInv, HiddenForAReason, DeletionsAreLogged
  <2>5. Transactions' /\ Answered' /\ Tables' /\ RepliesAreTrue'
    BY <1>1, <1>5 DEF DeleteRef, TablesInv, Tables
  <2> QED
    BY <2>2, <2>4, <2>5 DEF TablesInv
<1>6. CASE DeleteFails(d)
  <2>1. /\ DOMAIN deletion' = DOMAIN deletion \ {d}
        /\ \A x \in DOMAIN deletion' : deletion'[x] = deletion[x]
    BY <1>6 DEF DeleteFails, Without
  <2>2. Deleting'
    BY <1>6, <2>1 DEF DeleteFails, TablesInv, Deleting
  <2>3. HiddenForAReason' /\ DeletionsAreLogged'
    BY <1>6 DEF DeleteFails, TablesInv, HiddenForAReason, DeletionsAreLogged
  <2>4. Transactions' /\ Answered' /\ Tables' /\ RepliesAreTrue'
    BY <1>1, <1>6 DEF DeleteFails, TablesInv, Tables
  <2> QED
    BY <2>2, <2>3, <2>4 DEF TablesInv
<1> QED
  BY <1>2, <1>3, <1>4, <1>5, <1>6 DEF DeleteKnowledge

LEMMA TablesStep == Typed /\ TablesInv /\ [Next]_vars => TablesInv'
<1> SUFFICES ASSUME Typed, TablesInv, [Next]_vars PROVE TablesInv'
  OBVIOUS
<1> USE DEF tables, history
<1>1. ASSUME NEW c \in Creations, IngestKnowledge(c) PROVE TablesInv'
  BY <1>1, CreationsKeepTables
<1>2. ASSUME NEW d \in Deletions, DeleteKnowledge(d) PROVE TablesInv'
  BY <1>2, DeletionsKeepTables
<1>3. ASSUME UNCHANGED <<tables, creation, deletion, history>> PROVE TablesInv'
  BY <1>3 DEF TablesInv, Transactions, Answered, Tables, Deleting, HiddenForAReason,
              DeletionsAreLogged, RepliesAreTrue
<1>4. ASSUME NEW s \in Searches, SearchKnowledge(s) PROVE TablesInv'
  BY <1>3, <1>4 DEF SearchKnowledge, SearchBegin, SearchVectors, SearchReadRef, SearchReadDoc,
                    SearchSkips, SearchAnswer, SearchFails
<1>5. CASE Crash
  <2>1. DOMAIN creation' = {} /\ DOMAIN deletion' = {}
    BY <1>5 DEF Crash, Empty
  <2>2. \A e \in Entities : \/ reply'[e] = "failed"
                           \/ /\ reply'[e] = reply[e]
                              /\ \A c \in DOMAIN creation : creation[c].entity # e
    BY <1>5 DEF Crash
  <2>3. Answered' /\ RepliesAreTrue'
    BY <1>5, <2>1, <2>2 DEF Crash, Typed, TablesInv, Answered, RepliesAreTrue
  <2>4. (Transactions /\ Tables /\ Deleting /\ HiddenForAReason /\ DeletionsAreLogged)'
    BY <1>5, <2>1 DEF Crash, TablesInv, Transactions, Tables, Deleting, HiddenForAReason,
                      DeletionsAreLogged
  <2> QED
    BY <2>3, <2>4 DEF TablesInv
<1>6. CASE UNCHANGED vars
  BY <1>3, <1>6 DEF vars
<1> QED
  BY <1>1, <1>2, <1>4, <1>5, <1>6 DEF Next

----------------------------------------------------------------------------
(* Searches *)

\* Results are read one at a time, and every result of the query is still to be read, in
\* the answer, unread, or gone.
Sound(q) ==
    LET found == q.whole \union q.bare IN
    /\ q.at = "vectors" => q.todo = {} /\ q.reading = {} /\ found = {} /\ q.hits = {}
    /\ q.at = "answered" => q.todo = {} /\ q.reading = {}
    /\ q.hits \subseteq born /\ Cardinality(q.hits) <= TopK
    /\ q.todo \union q.reading \union found \subseteq q.hits
    /\ q.hits \subseteq q.todo \union q.reading \union found \union q.unread \union (born \ refs)
    /\ q.bare \subseteq born \ refs
    /\ \A x, y \in q.reading : x = y

SearchesInv == \A s \in DOMAIN search : Sound(search[s])

LEMMA SearchesInit == Init => SearchesInv
BY DEF Init, SearchesInv, Empty

\* What is committed and gone stays so.
LEMMA GoneStaysGone ==
  ASSUME Typed, TablesInv, [Next]_vars
  PROVE  born \subseteq born' /\ born \ refs \subseteq born' \ refs'
<1> USE DEF tables, history
<1>1. ASSUME NEW c \in Creations, IngestKnowledge(c)
      PROVE  born \subseteq born' /\ born \ refs \subseteq born' \ refs'
  <2>1. CASE CreateCommit(c) \/ CreateCommitUnknown(c)
    BY <2>1, PublishKeeps DEF CreateCommit, CreateCommitUnknown
  <2>2. CASE ~(CreateCommit(c) \/ CreateCommitUnknown(c))
    BY <1>1, <2>2 DEF IngestKnowledge, CreateBegin, CreateDocument, CreateVector, CreateAudit,
                      Insert, CreateEmbed, CreateReadRef, CreateReadDoc, CreateFails, Answer
  <2> QED
    BY <2>1, <2>2
<1>2. ASSUME NEW d \in Deletions, DeleteKnowledge(d)
      PROVE  born \subseteq born' /\ born \ refs \subseteq born' \ refs'
  BY <1>2 DEF DeleteKnowledge, DeleteGet, DeleteAudit, DeleteVectors, DeleteRef, DeleteFails
<1>3. ASSUME NEW s \in Searches, SearchKnowledge(s) PROVE UNCHANGED <<tables, history>>
  BY <1>3 DEF SearchKnowledge, SearchBegin, SearchVectors, SearchReadRef, SearchReadDoc,
              SearchSkips, SearchAnswer, SearchFails
<1>4. CASE Crash
  BY <1>4 DEF Crash
<1>5. CASE UNCHANGED vars
  BY <1>5 DEF vars
<1> QED
  BY <1>1, <1>2, <1>3, <1>4, <1>5 DEF Next

LEMMA SearchesStep == Typed /\ TablesInv /\ SearchesInv /\ [Next]_vars => SearchesInv'
<1> SUFFICES ASSUME Typed, TablesInv, SearchesInv, [Next]_vars PROVE SearchesInv'
  OBVIOUS
<1> USE DEF tables, history
<1>1. born \subseteq born' /\ born \ refs \subseteq born' \ refs'
  BY GoneStaysGone
<1>2. ASSUME UNCHANGED search PROVE SearchesInv'
  BY <1>1, <1>2 DEF SearchesInv, Sound
<1>3. ASSUME NEW s \in Searches, SearchKnowledge(s) PROVE SearchesInv'
  <2>0. UNCHANGED <<tables, history>>
    BY <1>3 DEF SearchKnowledge, SearchBegin, SearchVectors, SearchReadRef, SearchReadDoc,
                SearchSkips, SearchAnswer, SearchFails
  <2>1. ASSUME NEW q, s \in DOMAIN search' => search'[s] = q /\ Sound(q),
               \A k \in DOMAIN search' \ {s} : k \in DOMAIN search /\ search'[k] = search[k]
        PROVE  SearchesInv'
    BY <1>1, <2>0, <2>1 DEF SearchesInv, Sound
  <2>2. ASSUME Searching(s)
        PROVE  s \in DOMAIN search /\ search[s] \in SearchSet /\ Sound(search[s])
    BY <2>2, MapFacts DEF Searching, Typed, SearchesInv
  <2>3. CASE SearchBegin(s)
    <3> DEFINE q == [at |-> "vectors", todo |-> {}, reading |-> {}, whole |-> {},
                     bare |-> {}, hits |-> {}, unread |-> {}]
    <3>1. Sound(q)
      BY FS_EmptySet, TopKAssumption DEF Sound
    <3>2. search'[s] = q /\ \A k \in DOMAIN search' \ {s} : k \in DOMAIN search /\ search'[k] = search[k]
      BY <2>3 DEF SearchBegin, Put
    <3> QED
      BY <2>1, <3>1, <3>2
  <2>4. CASE SearchVectors(s)
    <3>1. PICK near \in SUBSET vectors :
             /\ Cardinality(near) <= TopK
             /\ search' = [search EXCEPT ![s].at = "hydrate", ![s].todo = near, ![s].hits = near]
      BY <2>4 DEF SearchVectors
    <3> DEFINE q == [search[s] EXCEPT !.at = "hydrate", !.todo = near, !.hits = near]
    <3>2. near \subseteq born
      BY DEF TablesInv, Tables
    <3>3. Sound(q)
      BY <2>2, <2>4, <3>1, <3>2 DEF SearchVectors, SearchSet, Sound
    <3>4. search'[s] = q /\ \A k \in DOMAIN search' \ {s} : k \in DOMAIN search /\ search'[k] = search[k]
      BY <2>2, <2>4, <3>1 DEF SearchVectors
    <3> QED
      BY <2>1, <3>3, <3>4
  <2>5. ASSUME NEW e \in Entities, SearchReadRef(s, e) PROVE SearchesInv'
    <3> DEFINE q == [search[s] EXCEPT !.todo = @ \ {e},
                                      !.reading = IF e \in refs THEN {e} ELSE {}]
    <3>1. Sound(q)
      BY <2>2, <2>5 DEF SearchReadRef, SearchSet, Sound
    <3>2. search'[s] = q /\ \A k \in DOMAIN search' \ {s} : k \in DOMAIN search /\ search'[k] = search[k]
      BY <2>2, <2>5 DEF SearchReadRef
    <3> QED
      BY <2>1, <3>1, <3>2
  <2>6. ASSUME NEW e \in Entities, SearchReadDoc(s, e) PROVE SearchesInv'
    <3> DEFINE q == [search[s] EXCEPT !.reading = {},
                                      !.bare = IF e \in docs THEN @ ELSE @ \union {e},
                                      !.whole = IF e \in docs THEN @ \union {e} ELSE @]
    <3>0. docs = refs
      BY DEF TablesInv, Tables
    <3>1. search[s].reading \subseteq {e}
      BY <2>6, <2>2 DEF SearchReadDoc, Sound
    <3>2. Sound(q)
      BY <2>2, <2>6, <3>0, <3>1 DEF SearchReadDoc, SearchSet, Sound
    <3>3. search'[s] = q /\ \A k \in DOMAIN search' \ {s} : k \in DOMAIN search /\ search'[k] = search[k]
      BY <2>2, <2>6 DEF SearchReadDoc
    <3> QED
      BY <2>1, <3>2, <3>3
  <2>7. ASSUME NEW e \in Entities, SearchSkips(s, e) PROVE SearchesInv'
    <3> DEFINE q == [search[s] EXCEPT !.todo = @ \ {e}, !.reading = {},
                                      !.unread = @ \union {e}]
    <3>1. Sound(q)
      BY <2>2, <2>7 DEF SearchSkips, SearchSet, Sound
    <3>2. search'[s] = q /\ \A k \in DOMAIN search' \ {s} : k \in DOMAIN search /\ search'[k] = search[k]
      BY <2>2, <2>7 DEF SearchSkips
    <3> QED
      BY <2>1, <3>1, <3>2
  <2>8. CASE SearchAnswer(s)
    <3> DEFINE q == [search[s] EXCEPT !.at = "answered"]
    <3>1. Sound(q)
      BY <2>2, <2>8 DEF SearchAnswer, SearchSet, Sound
    <3>2. search'[s] = q /\ \A k \in DOMAIN search' \ {s} : k \in DOMAIN search /\ search'[k] = search[k]
      BY <2>2, <2>8 DEF SearchAnswer
    <3> QED
      BY <2>1, <3>1, <3>2
  <2>9. CASE SearchFails(s)
    <3>1. s \notin DOMAIN search'
          /\ \A k \in DOMAIN search' \ {s} : k \in DOMAIN search /\ search'[k] = search[k]
      BY <2>9 DEF SearchFails, Without
    <3> QED
      BY <2>1, <3>1
  <2> QED
    BY <1>3, <2>3, <2>4, <2>5, <2>6, <2>7, <2>8, <2>9 DEF SearchKnowledge
<1>4. ASSUME NEW c \in Creations, IngestKnowledge(c) PROVE SearchesInv'
  BY <1>2, <1>4 DEF IngestKnowledge, CreateBegin, CreateDocument, CreateVector, CreateAudit,
                    Insert, CreateEmbed, CreateCommit, CreateCommitUnknown, CreateReadRef,
                    CreateReadDoc, CreateFails, Answer
<1>5. ASSUME NEW d \in Deletions, DeleteKnowledge(d) PROVE SearchesInv'
  BY <1>2, <1>5 DEF DeleteKnowledge, DeleteGet, DeleteAudit, DeleteVectors, DeleteRef, DeleteFails
<1>6. CASE Crash
  BY <1>6 DEF Crash, Empty, SearchesInv
<1>7. CASE UNCHANGED vars
  BY <1>2, <1>7 DEF vars
<1> QED
  BY <1>3, <1>4, <1>5, <1>6, <1>7 DEF Next

----------------------------------------------------------------------------
(* Theorems *)

StoreInv == Typed /\ TablesInv /\ SearchesInv

LEMMA StoreInvariant == Spec => []StoreInv
<1>1. Init => StoreInv
  BY TypedInit, TablesInit, SearchesInit DEF StoreInv
<1>2. StoreInv /\ [Next]_vars => StoreInv'
  BY TypedStep, TablesStep, SearchesStep DEF StoreInv
<1> QED
  BY <1>1, <1>2, PTL DEF Spec

\* Every variable keeps its type, and no document or vector is left without its row.
THEOREM Typing == Spec => []TypeOK
<1>1. StoreInv => TypeOK
  BY DEF StoreInv, Typed, TablesInv, Tables, TypeOK
<1> QED
  BY <1>1, StoreInvariant, PTL

\* A creation happens in all tables and in the log or nowhere, whatever fails and
\* whenever the process dies.
THEOREM CreationIsAtomic == Spec => []EntitiesAreWhole
<1>1. StoreInv => EntitiesAreWhole
  BY DEF StoreInv, TablesInv, Tables, EntitiesAreWhole
<1> QED
  BY <1>1, StoreInvariant, PTL

\* An entity is hidden from searches only if it could not be embedded or somebody has
\* begun to delete it.
THEOREM HidingHasReasons == Spec => []HiddenForAReason
BY StoreInvariant, PTL DEF StoreInv, TablesInv

\* A deletion is in the log before the entity goes, unless the log could not be written.
THEOREM LogPrecedesDeletion == Spec => []DeletionsAreLogged
BY StoreInvariant, PTL DEF StoreInv, TablesInv

\* An answer is made of one query's results, and what is missing was deleted or unreadable.
THEOREM SearchesAreSound == Spec => []AnswersAreSound
<1>1. StoreInv => AnswersAreSound
  <2> SUFFICES ASSUME StoreInv, NEW s \in DOMAIN search, search[s].at = "answered"
               PROVE  LET found == search[s].whole \union search[s].bare IN
                      /\ found \subseteq search[s].hits /\ Cardinality(found) <= TopK
                      /\ search[s].hits \ found \subseteq search[s].unread \union (born \ refs)
                      /\ search[s].bare \subseteq born \ refs
    BY DEF AnswersAreSound
  <2> DEFINE found == search[s].whole \union search[s].bare
  <2>1. Sound(search[s])
    BY DEF StoreInv, SearchesInv
  <2>2. found \subseteq search[s].hits /\ search[s].hits \subseteq Entities
    BY <2>1 DEF Sound, StoreInv, Typed
  <2>3. IsFiniteSet(search[s].hits)
    BY <2>2, FS_Subset, EntitiesAssumption
  <2>4. /\ Cardinality(found) \in Nat /\ Cardinality(search[s].hits) \in Nat
        /\ Cardinality(found) <= Cardinality(search[s].hits)
    BY <2>2, <2>3, FS_Subset, FS_CardinalityType
  <2>5. Cardinality(found) <= TopK
    BY <2>1, <2>4, TopKAssumption DEF Sound
  <2> QED
    BY <2>1, <2>2, <2>5 DEF Sound
<1> QED
  BY <1>1, StoreInvariant, PTL

\* A creator that is shown no entity, or one without its document, is told of one that
\* was there and has been deleted.
THEOREM RepliesHold == Spec => []RepliesAreTrue
BY StoreInvariant, PTL DEF StoreInv, TablesInv
=============================================================================
