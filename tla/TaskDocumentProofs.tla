-------------------------- MODULE TaskDocumentProofs --------------------------
(* Theorems about TaskDocument for any number of requests and any number of     *)
(* aborted transactions, rejected calls and process deaths.                     *)
EXTENDS TaskDocument, FiniteSetTheorems, TLAPS

-------------------------------------------------------------------------------
(* The invariant                                                           *)

\* The version identifies the contents: a copy of the current version is the document.
IsCopy(c) == c.v <= doc.v /\ (c.v = doc.v => c = doc)

InUpdate(r) == at[r] \in {"update", "save", "commit"}
InCommand(r) == at[r] \in {"authorize", "unlink", "reread", "write"}

KindInv ==
  \A r \in Requests : /\ InUpdate(r) => kind[r] \in Updates
                      /\ InCommand(r) => kind[r] \in Kinds \ Updates
                      /\ at[r] \in {"unlink", "reread"} => kind[r] \in ById

CopyInv ==
  \A r \in Requests :
    /\ InUpdate(r) => IsCopy(seen[r]) /\ ~ seen[r].deleted
    /\ at[r] = "write" => IsCopy(local[r]) /\ (kind[r] = "remove" => ~ local[r].deleted)

VersionInv ==
  \A r \in Requests : at[r] \in {"save", "commit"} => seen[r].v <= local[r].v

\* Nothing has changed the document since its holder saved it.
HolderInv == holder # None => at[holder] = "commit" /\ seen[holder].v = doc.v

Inv == TypeOK /\ KindInv /\ CopyInv /\ VersionInv /\ HolderInv

-------------------------------------------------------------------------------
(* The operators                                                           *)

\* The points and kinds named by the actions are points and kinds.
LEMMA Members ==
  /\ Updates \subseteq Kinds /\ ById \subseteq Kinds /\ "remove" \in Kinds
  /\ "remove" \notin Updates \cup ById /\ Updates \cap ById = {}
  /\ Running \subseteq Points /\ Answers \subseteq Points
  /\ Running \cap Answers = {} /\ "new" \notin Running
  BY DEF Updates, ById, Kinds, Running, Answers, Points

\* The document of a new task is a document.
LEMMA CreatedFacts == Created \in Document /\ Created.v = 0 /\ ~ Created.deleted
  BY DEF Created, Document, Files

\* A save increments the version, undeletes nothing, and only an update by r sets the
\* title to r.
LEMMA WrittenFacts ==
  ASSUME TypeOK, NEW r \in Requests, kind[r] \in Kinds
  PROVE  /\ Written(r) \in Document
         /\ Written(r).v = doc.v + 1
         /\ doc.deleted => Written(r).deleted
         /\ kind[r] \in Updates => Written(r).title = r
         /\ kind[r] \notin Updates => Written(r).title = doc.title
<1>1. doc \in Document /\ local[r] \in Document /\ target[r] \in Files
  BY DEF TypeOK
<1>2. Written(r) \in Document
  BY <1>1 DEF Written, Document, Files
<1> QED
  BY <1>1, <1>2 DEF Written, Document

\* Faults are counted within their bounds.
LEMMA FaultFacts ==
  ASSUME TypeOK, NEW k \in FaultKinds, Fault(k)
  PROVE  /\ faults' \in [FaultKinds -> Nat]
         /\ faults'.abort <= MaxAborts /\ faults'.reject <= MaxRejections
         /\ faults'.crash <= MaxCrashes
<1>1. faults \in [FaultKinds -> Nat] /\ faults[k] \in Nat
  BY DEF TypeOK
<1>2. MaxAborts \in Nat /\ MaxRejections \in Nat /\ MaxCrashes \in Nat
  BY TaskAssumption
<1>3. faults' = [faults EXCEPT ![k] = faults[k] + 1]
  BY DEF Fault
<1>4. CASE k = "abort"
  BY <1>1, <1>2, <1>3, <1>4 DEF Fault, TypeOK, FaultKinds
<1>5. CASE k = "reject"
  BY <1>1, <1>2, <1>3, <1>5 DEF Fault, TypeOK, FaultKinds
<1>6. CASE k = "crash"
  BY <1>1, <1>2, <1>3, <1>6 DEF Fault, TypeOK, FaultKinds
<1> QED
  BY <1>4, <1>5, <1>6 DEF FaultKinds

-------------------------------------------------------------------------------
(* The steps                                                               *)

\* Before the first request the invariant holds.
LEMMA InitInv == Init => Inv
  BY TaskAssumption, CreatedFacts, Members
  DEF Init, Inv, TypeOK, KindInv, CopyInv, VersionInv, HolderInv, IsCopy, InUpdate, InCommand,
      Files, FaultKinds, LogEntries, Points

\* View: what its client gets is a copy of the document.
LEMMA ViewInv == ASSUME Inv, NEW r \in Requests, View(r) PROVE Inv'
<1>1. TypeOK'
  BY Members DEF View, Inv, TypeOK, Goto, copyVars, storeVars, Files, Points, Running, Answers,
     LogEntries
<1>2. KindInv'
  BY Members, <1>1 DEF View, Inv, TypeOK, KindInv, InUpdate, InCommand, Goto, Running, ById
<1>3. CopyInv' /\ VersionInv' /\ HolderInv'
  BY <1>1, Members DEF View, Inv, TypeOK, CopyInv, KindInv, VersionInv, HolderInv, IsCopy, InUpdate,
     InCommand, Goto, Document, copyVars, storeVars
<1> QED
  BY <1>1, <1>2, <1>3 DEF Inv

\* ReadForUpdate: the copy has the version the client has seen.
LEMMA ReadForUpdateInv == ASSUME Inv, NEW r \in Requests, ReadForUpdate(r) PROVE Inv'
<1>1. TypeOK'
  BY Members DEF ReadForUpdate, Inv, TypeOK, Goto, copyVars, storeVars, Files, Points, Running, Answers,
     LogEntries
<1>2. KindInv'
  BY Members, <1>1 DEF ReadForUpdate, Inv, TypeOK, KindInv, InUpdate, InCommand, Goto, Running, ById
<1>3. CopyInv' /\ VersionInv' /\ HolderInv'
  BY <1>1, Members DEF ReadForUpdate, Inv, TypeOK, CopyInv, KindInv, VersionInv, HolderInv, IsCopy, InUpdate,
     InCommand, Goto, Document, copyVars, storeVars
<1> QED
  BY <1>1, <1>2, <1>3 DEF Inv

\* Arrive changes neither the document nor a copy.
LEMMA ArriveInv == ASSUME Inv, NEW r \in Requests, Arrive(r) PROVE Inv'
<1>1. TypeOK'
  BY Members DEF Arrive, Inv, TypeOK, Goto, copyVars, storeVars, Files, Points, Running, Answers,
     LogEntries
<1>2. KindInv'
  BY Members, <1>1 DEF Arrive, Inv, TypeOK, KindInv, InUpdate, InCommand, Goto, Running, ById
<1>3. CopyInv' /\ VersionInv' /\ HolderInv'
  BY <1>1, Members DEF Arrive, Inv, TypeOK, CopyInv, KindInv, VersionInv, HolderInv, IsCopy, InUpdate,
     InCommand, Goto, Document, copyVars, storeVars
<1> QED
  BY <1>1, <1>2, <1>3 DEF Inv

\* Authorize: a deletion starts from a copy that is not deleted.
LEMMA AuthorizeInv == ASSUME Inv, NEW r \in Requests, Authorize(r) PROVE Inv'
<1>1. TypeOK'
  BY Members DEF Authorize, Inv, TypeOK, Goto, copyVars, storeVars, Files, Points, Running, Answers,
     LogEntries
<1>2. KindInv'
  BY Members, <1>1 DEF Authorize, Inv, TypeOK, KindInv, InUpdate, InCommand, Goto, Running, ById
<1>3. UNCHANGED <<doc, holder, kind, seen>>
  BY DEF Authorize, storeVars
<1>4. PICK p \in {"refused", "reread", "write", "unlink"} :
        /\ at' = [at EXCEPT ![r] = p]
        /\ \/ p # "write" /\ local' = local
           \/ ~ doc.deleted /\ local' = [local EXCEPT ![r] = doc]
  BY DEF Authorize, Goto
<1>5. at[r] = "authorize" /\ \A q \in Requests \ {r} : at'[q] = at[q] /\ local'[q] = local[q]
  BY <1>4 DEF Authorize, Inv, TypeOK
<1>6. at'[r] = p /\ (p = "write" => local'[r] = doc /\ ~ doc.deleted)
  BY <1>4 DEF Inv, TypeOK
<1>7. doc.v <= doc.v
  BY DEF Inv, TypeOK, Document
<1>8. CopyInv'
  BY <1>3, <1>5, <1>6, <1>7 DEF Inv, CopyInv, IsCopy, InUpdate
<1>9. VersionInv'
  BY <1>3, <1>5, <1>6 DEF Inv, VersionInv
<1>10. HolderInv'
  BY <1>3, <1>5, <1>6 DEF Inv, TypeOK, HolderInv
<1> QED
  BY <1>1, <1>2, <1>8, <1>9, <1>10 DEF Inv

\* Forbid changes neither the document nor a copy.
LEMMA ForbidInv == ASSUME Inv, NEW r \in Requests, Forbid(r) PROVE Inv'
<1>1. TypeOK'
  BY Members DEF Forbid, Inv, TypeOK, Goto, copyVars, storeVars, Files, Points, Running, Answers,
     LogEntries
<1>2. KindInv'
  BY Members, <1>1 DEF Forbid, Inv, TypeOK, KindInv, InUpdate, InCommand, Goto, Running, ById
<1>3. CopyInv' /\ VersionInv' /\ HolderInv'
  BY <1>1, Members DEF Forbid, Inv, TypeOK, CopyInv, KindInv, VersionInv, HolderInv, IsCopy, InUpdate,
     InCommand, Goto, Document, copyVars, storeVars
<1> QED
  BY <1>1, <1>2, <1>3 DEF Inv

\* Unlink changes neither the document nor a copy.
LEMMA UnlinkInv == ASSUME Inv, NEW r \in Requests, Unlink(r) PROVE Inv'
<1>1. TypeOK'
  BY Members DEF Unlink, Inv, TypeOK, Goto, copyVars, storeVars, Files, Points, Running, Answers,
     LogEntries
<1>2. KindInv'
  BY Members, <1>1 DEF Unlink, Inv, TypeOK, KindInv, InUpdate, InCommand, Goto, Running, ById
<1>3. CopyInv' /\ VersionInv' /\ HolderInv'
  BY <1>1, Members DEF Unlink, Inv, TypeOK, CopyInv, KindInv, VersionInv, HolderInv, IsCopy, InUpdate,
     InCommand, Goto, Document, copyVars, storeVars
<1> QED
  BY <1>1, <1>2, <1>3 DEF Inv

\* Reread changes neither the document nor a copy.
LEMMA RereadInv == ASSUME Inv, NEW r \in Requests, Reread(r) PROVE Inv'
<1>1. TypeOK'
  BY Members DEF Reread, Inv, TypeOK, Goto, copyVars, storeVars, Files, Points, Running, Answers,
     LogEntries
<1>2. KindInv'
  BY Members, <1>1 DEF Reread, Inv, TypeOK, KindInv, InUpdate, InCommand, Goto, Running, ById
<1>3. CopyInv' /\ VersionInv' /\ HolderInv'
  BY <1>1, Members DEF Reread, Inv, TypeOK, CopyInv, KindInv, VersionInv, HolderInv, IsCopy, InUpdate,
     InCommand, Goto, Document, copyVars, storeVars
<1> QED
  BY <1>1, <1>2, <1>3 DEF Inv

\* Activity changes neither the document nor a copy.
LEMMA ActivityInv == ASSUME Inv, NEW r \in Requests, Activity(r) PROVE Inv'
<1>1. TypeOK'
  BY Members DEF Activity, Inv, TypeOK, Goto, copyVars, storeVars, Files, Points, Running, Answers,
     LogEntries
<1>2. KindInv'
  BY Members, <1>1 DEF Activity, Inv, TypeOK, KindInv, InUpdate, InCommand, Goto, Running, ById
<1>3. CopyInv' /\ VersionInv' /\ HolderInv'
  BY <1>1, Members DEF Activity, Inv, TypeOK, CopyInv, KindInv, VersionInv, HolderInv, IsCopy, InUpdate,
     InCommand, Goto, Document, copyVars, storeVars
<1> QED
  BY <1>1, <1>2, <1>3 DEF Inv

\* Audit changes neither the document nor a copy.
LEMMA AuditInv == ASSUME Inv, NEW r \in Requests, Audit(r) PROVE Inv'
<1>1. TypeOK'
  BY Members DEF Audit, Inv, TypeOK, Goto, copyVars, storeVars, Files, Points, Running, Answers,
     LogEntries
<1>2. KindInv'
  BY Members, <1>1 DEF Audit, Inv, TypeOK, KindInv, InUpdate, InCommand, Goto, Running, ById
<1>3. CopyInv' /\ VersionInv' /\ HolderInv'
  BY <1>1, Members DEF Audit, Inv, TypeOK, CopyInv, KindInv, VersionInv, HolderInv, IsCopy, InUpdate,
     InCommand, Goto, Document, copyVars, storeVars
<1> QED
  BY <1>1, <1>2, <1>3 DEF Inv

\* ClearCache changes neither the document nor a copy.
LEMMA ClearCacheInv == ASSUME Inv, NEW r \in Requests, ClearCache(r) PROVE Inv'
<1>1. TypeOK'
  BY Members DEF ClearCache, Inv, TypeOK, Goto, copyVars, storeVars, Files, Points, Running, Answers,
     LogEntries
<1>2. KindInv'
  BY Members, <1>1 DEF ClearCache, Inv, TypeOK, KindInv, InUpdate, InCommand, Goto, Running, ById
<1>3. CopyInv' /\ VersionInv' /\ HolderInv'
  BY <1>1, Members DEF ClearCache, Inv, TypeOK, CopyInv, KindInv, VersionInv, HolderInv, IsCopy, InUpdate,
     InCommand, Goto, Document, copyVars, storeVars
<1> QED
  BY <1>1, <1>2, <1>3 DEF Inv

\* Save keeps the document, and its holder has seen the current version.
LEMMA SaveInv == ASSUME Inv, NEW r \in Requests, Save(r) PROVE Inv'
<1>0. local[r] \in Document /\ seen[r] \in Document /\ doc \in Document
      /\ seen[r].v <= local[r].v /\ seen[r].v \in Nat /\ local[r].v \in Nat
      /\ [local[r] EXCEPT !.v = @ + 1] \in Document
  BY DEF Inv, TypeOK, VersionInv, Save, Document
<1>1. TypeOK'
  BY <1>0, Members DEF Save, Inv, TypeOK, Goto, Points, Running, Answers
<1>2. KindInv'
  BY Members, <1>1 DEF Save, Inv, TypeOK, KindInv, InUpdate, InCommand, Goto
<1>3. CASE local[r].v # doc.v \/ SavedBefore(r)
  BY <1>0, <1>1, <1>2, <1>3
  DEF Save, Inv, TypeOK, CopyInv, VersionInv, HolderInv, IsCopy, InUpdate, Goto
<1>4. CASE local[r].v = doc.v /\ ~ SavedBefore(r)
  <2>1. /\ holder = None /\ holder' = r /\ doc' = doc /\ seen' = seen /\ kind' = kind
        /\ local' = [local EXCEPT ![r].v = @ + 1]
        /\ at' = [at EXCEPT ![r] = "commit"]
    BY <1>4 DEF Save, Goto
  <2>2. seen[r].v = doc.v
    BY <1>0, <1>4 DEF SavedBefore
  <2>3. local'[r].v = local[r].v + 1 /\ \A q \in Requests \ {r} : local'[q] = local[q]
    BY <2>1, <1>0 DEF Inv, TypeOK, Document
  <2>4. CopyInv' /\ VersionInv'
    BY <2>1, <2>3, <1>0 DEF Save, Inv, TypeOK, CopyInv, VersionInv, IsCopy, InUpdate
  <2>5. HolderInv'
    BY <2>1, <2>2 DEF Inv, TypeOK, HolderInv
  <2> QED
    BY <1>1, <1>2, <2>4, <2>5 DEF Inv
<1> QED
  BY <1>3, <1>4

\* A write that compares versions makes every other copy an old one.
LEMMA CopiesAge ==
  ASSUME TypeOK, NEW r \in Requests, kind[r] \in Kinds, doc' = Written(r),
         NEW c \in Document, IsCopy(c)
  PROVE  c.v <= doc'.v /\ c.v # doc'.v
<1>1. doc.v \in Nat /\ c.v \in Nat /\ c.v <= doc.v /\ doc'.v = doc.v + 1
  BY WrittenFacts DEF TypeOK, Document, IsCopy
<1> QED
  BY <1>1

\* What r stores is a document and the counts keep their types.
LEMMA StoreFacts ==
  ASSUME TypeOK, NEW r \in Requests, kind[r] \in Kinds, Store(r)
  PROVE  /\ doc' = Written(r) /\ doc' \in Document
         /\ applied' = applied \cup {r}
         /\ completions' \in Nat
  BY WrittenFacts DEF Store, TypeOK

\* Only the holder of the document stores in a transaction.
LEMMA CommitTransactionInv ==
  ASSUME Inv, NEW r \in Requests, at[r] = "commit", CommitTransaction(r),
         NEW p \in {"clear", "error"}, Goto(r, p),
         faults' \in [FaultKinds -> Nat], faults'.abort <= MaxAborts,
         faults'.reject <= MaxRejections, faults'.crash <= MaxCrashes
  PROVE  Inv'
<1>1. kind[r] \in Updates /\ kind[r] \in Kinds
  BY Members DEF Inv, KindInv, InUpdate
<1>2. TransactionLog(r) \subseteq LogEntries
  BY DEF TransactionLog, LogEntries
<1>3. TypeOK'
  <2>1. doc' \in Document /\ applied' \subseteq Requests /\ completions' \in Nat
        /\ holder' \in Requests \cup {None}
    BY <1>1, StoreFacts DEF CommitTransaction, Inv, TypeOK
  <2>2. at' \in [Requests -> Points] /\ log' \in [Requests -> SUBSET LogEntries]
    BY <1>2 DEF CommitTransaction, Inv, TypeOK, Goto, Points, Running, Answers
  <2> QED
    BY <2>1, <2>2 DEF CommitTransaction, Inv, TypeOK, copyVars
<1>4. KindInv'
  BY DEF CommitTransaction, Inv, TypeOK, KindInv, InUpdate, InCommand, Goto
<1>5. CASE holder = r
  <2>1. doc' = Written(r) /\ holder' = None
    BY <1>1, <1>5, StoreFacts DEF CommitTransaction, Inv
  <2>2. CopyInv'
    <3> SUFFICES ASSUME NEW q \in Requests
                 PROVE  /\ InUpdate(q)' => IsCopy(seen[q])' /\ ~ seen'[q].deleted
                        /\ at'[q] = "write" =>
                             IsCopy(local[q])' /\ (kind'[q] = "remove" => ~ local'[q].deleted)
      BY DEF CopyInv
    <3>1. seen' = seen /\ local' = local /\ kind' = kind
      BY DEF CommitTransaction, copyVars
    <3>2. at'[q] \in {"update", "save", "commit", "write"} => at'[q] = at[q]
      BY DEF Goto, Inv, TypeOK
    <3>3. seen[q] \in Document /\ local[q] \in Document /\ TypeOK
      BY DEF Inv, TypeOK
    <3>4. IsCopy(seen[q]) => IsCopy(seen[q])'
      BY <1>1, <2>1, <3>1, <3>3, CopiesAge DEF IsCopy
    <3>5. IsCopy(local[q]) => IsCopy(local[q])'
      BY <1>1, <2>1, <3>1, <3>3, CopiesAge DEF IsCopy
    <3> QED
      BY <3>1, <3>2, <3>4, <3>5 DEF Inv, CopyInv, InUpdate
  <2>3. VersionInv' /\ HolderInv'
    BY <2>1 DEF CommitTransaction, copyVars, Inv, TypeOK, VersionInv, HolderInv, Goto
  <2> QED
    BY <1>3, <1>4, <2>2, <2>3 DEF Inv
<1>6. CASE holder # r
  <2>1. doc' = doc /\ holder' = holder /\ seen' = seen /\ local' = local /\ kind' = kind
    BY <1>6 DEF CommitTransaction, copyVars
  <2>2. CopyInv' /\ VersionInv' /\ HolderInv'
    BY <1>6, <2>1 DEF Inv, TypeOK, CopyInv, VersionInv, HolderInv, IsCopy, InUpdate, Goto
  <2> QED
    BY <1>3, <1>4, <2>2 DEF Inv
<1> QED
  BY <1>5, <1>6

\* Commit makes the document of its request current.
LEMMA CommitInv == ASSUME Inv, NEW r \in Requests, Commit(r) PROVE Inv'
  BY CommitTransactionInv DEF Commit, Inv, TypeOK

\* A write outside of a transaction finds no holder.
LEMMA StoreInv ==
  ASSUME Inv, NEW r \in Requests, at[r] = "write", holder = None, Store(r),
         NEW p \in {"audit", "activity", "error"}, Goto(r, p),
         UNCHANGED <<kind, copyVars, files, holder, log>>,
         faults' \in [FaultKinds -> Nat], faults'.abort <= MaxAborts,
         faults'.reject <= MaxRejections, faults'.crash <= MaxCrashes
  PROVE  Inv'
<1>1. kind[r] \in Kinds
  BY DEF Inv, KindInv, InCommand
<1>2. /\ doc' = Written(r) /\ doc' \in Document /\ applied' = applied \cup {r}
      /\ completions' \in Nat
      /\ kind' = kind /\ seen' = seen /\ local' = local /\ target' = target
  BY <1>1, StoreFacts DEF Inv, copyVars
<1>3. TypeOK'
  BY <1>2 DEF Inv, TypeOK, Goto, Points, Running, Answers
<1>4. KindInv'
  BY <1>2 DEF Inv, TypeOK, KindInv, InUpdate, InCommand, Goto
<1>5. CopyInv'
  <2> SUFFICES ASSUME NEW q \in Requests
               PROVE  /\ InUpdate(q)' => IsCopy(seen[q])' /\ ~ seen'[q].deleted
                      /\ at'[q] = "write" =>
                           IsCopy(local[q])' /\ (kind'[q] = "remove" => ~ local'[q].deleted)
    BY DEF CopyInv
  <2>1. at'[q] \in {"update", "save", "commit", "write"} => at'[q] = at[q]
    BY DEF Goto, Inv, TypeOK
  <2>2. seen[q] \in Document /\ local[q] \in Document /\ TypeOK
    BY DEF Inv, TypeOK
  <2>3. IsCopy(seen[q]) => IsCopy(seen[q])'
    BY <1>1, <1>2, <2>2, CopiesAge DEF IsCopy
  <2>4. IsCopy(local[q]) => IsCopy(local[q])'
    BY <1>1, <1>2, <2>2, CopiesAge DEF IsCopy
  <2> QED
    BY <1>2, <2>1, <2>3, <2>4 DEF Inv, CopyInv, InUpdate
<1>6. VersionInv' /\ HolderInv'
  BY <1>2 DEF Inv, TypeOK, VersionInv, HolderInv, Goto
<1> QED
  BY <1>3, <1>4, <1>5, <1>6 DEF Inv

\* A write stores over the version it has read, or changes nothing.
LEMMA WriteInv == ASSUME Inv, NEW r \in Requests, Write(r) PROVE Inv'
<1>1. CASE local[r].v = doc.v
  BY <1>1, StoreInv DEF Write, Inv, TypeOK
<1>2. CASE local[r].v # doc.v
  <2>1. /\ doc' = doc /\ applied' = applied /\ completions' = completions
        /\ UNCHANGED <<kind, files, holder, log, faults, seen, local, target>>
        /\ at' = [at EXCEPT ![r] = "error"]
    BY <1>2 DEF Write, copyVars, Goto
  <2>2. TypeOK'
    BY <2>1 DEF Inv, TypeOK, Points, Answers
  <2>3. KindInv' /\ CopyInv' /\ VersionInv' /\ HolderInv'
    BY <2>1 DEF Write, Inv, TypeOK, KindInv, CopyInv, VersionInv, HolderInv, IsCopy, InUpdate, InCommand
  <2> QED
    BY <2>2, <2>3 DEF Inv
<1> QED
  BY <1>1, <1>2

\* A request that fails or repeats its transaction no longer holds the document.
LEMMA ReleaseInv ==
  ASSUME Inv, NEW r \in Requests, Release(r), NEW p, Goto(r, p),
         p = "error" \/ (p = "save" /\ at[r] = "commit"),
         UNCHANGED <<kind, copyVars, doc, files, applied, completions, log>>,
         faults' \in [FaultKinds -> Nat], faults'.abort <= MaxAborts,
         faults'.reject <= MaxRejections, faults'.crash <= MaxCrashes
  PROVE  Inv'
<1>1. TypeOK'
  BY DEF Inv, TypeOK, Goto, Release, Points, Running, Answers, copyVars
<1>2. KindInv' /\ VersionInv' /\ HolderInv'
  BY DEF Inv, TypeOK, KindInv, VersionInv, HolderInv, InUpdate, InCommand, Goto, Release, copyVars
<1>3. CopyInv'
  BY DEF Inv, TypeOK, CopyInv, IsCopy, InUpdate, Goto, copyVars
<1> QED
  BY <1>1, <1>2, <1>3 DEF Inv

\* An aborted transaction is repeated without the document.
LEMMA AbortInv == ASSUME Inv, NEW r \in Requests, Abort(r) PROVE Inv'
<1>1. "abort" \in FaultKinds
  BY DEF FaultKinds
<1> QED
  BY <1>1, FaultFacts, ReleaseInv DEF Abort, Inv

\* A request that ends with an error has given the document up.
LEMMA CallRejectedInv == ASSUME Inv, NEW r \in Requests, CallRejected(r) PROVE Inv'
<1>1. "reject" \in FaultKinds
  BY DEF FaultKinds
<1> QED
  BY <1>1, FaultFacts, ReleaseInv DEF CallRejected, Inv

\* The answer is lost, but what was done is done.
LEMMA AnswerLostInv == ASSUME Inv, NEW r \in Requests, AnswerLost(r) PROVE Inv'
<1>1. "reject" \in FaultKinds
  BY DEF FaultKinds
<1>2. /\ faults' \in [FaultKinds -> Nat]
      /\ faults'.abort <= MaxAborts /\ faults'.reject <= MaxRejections
      /\ faults'.crash <= MaxCrashes
  BY <1>1, FaultFacts DEF AnswerLost, Inv
<1>3. CASE at[r] \in {"activity", "audit"}
  <2>1. /\ UNCHANGED <<kind, copyVars, storeVars>>
        /\ log' = [log EXCEPT ![r] = @ \cup {at[r]}]
        /\ at' = [at EXCEPT ![r] = "error"]
    BY <1>3 DEF AnswerLost, Goto
  <2>2. TypeOK'
    BY <1>2, <1>3, <2>1
    DEF Inv, TypeOK, copyVars, storeVars, LogEntries, Points, Answers
  <2>3. KindInv' /\ CopyInv' /\ VersionInv' /\ HolderInv'
    BY <1>3, <2>1 DEF Inv, TypeOK, KindInv, CopyInv, VersionInv, HolderInv, IsCopy, InUpdate,
       InCommand, copyVars, storeVars
  <2> QED
    BY <2>2, <2>3 DEF Inv
<1>4. CASE at[r] \notin {"activity", "audit"}
  BY <1>2, <1>4, CommitTransactionInv, StoreInv DEF AnswerLost
<1> QED
  BY <1>3, <1>4

\* A dead process leaves no request that holds the document.
LEMMA CrashInv == ASSUME Inv, Crash PROVE Inv'
<1>1. PICK S \in SUBSET {r \in Requests : at[r] \in Running} \ {{}} :
        /\ at' = [r \in Requests |-> IF r \in S THEN "error" ELSE at[r]]
        /\ holder' = IF holder \in S THEN None ELSE holder
  BY DEF Crash
<1>2. "crash" \in FaultKinds
  BY DEF FaultKinds
<1>3. TypeOK'
  BY <1>1, <1>2, FaultFacts DEF Crash, Inv, TypeOK, Points, Running, Answers, copyVars
<1>4. KindInv' /\ VersionInv' /\ HolderInv'
  BY <1>1 DEF Crash, Inv, TypeOK, KindInv, VersionInv, HolderInv, InUpdate, InCommand, copyVars
<1>5. CopyInv'
  BY <1>1 DEF Crash, Inv, TypeOK, CopyInv, IsCopy, InUpdate, copyVars
<1> QED
  BY <1>3, <1>4, <1>5 DEF Inv

\* Every step preserves the invariant.
LEMMA NextInv == Inv /\ [Next]_vars => Inv'
<1> SUFFICES ASSUME Inv, [Next]_vars PROVE Inv'
  OBVIOUS
<1>1. CASE Next
  BY <1>1, ViewInv, ArriveInv, ReadForUpdateInv, SaveInv, CommitInv, AuthorizeInv, UnlinkInv,
     RereadInv, WriteInv, ActivityInv, AuditInv, ClearCacheInv, ForbidInv, AbortInv,
     CallRejectedInv, AnswerLostInv, CrashInv
  DEF Next, Step
<1>2. CASE UNCHANGED vars
  BY <1>2 DEF vars, copyVars, storeVars, Inv, TypeOK, KindInv, CopyInv, VersionInv, HolderInv,
     IsCopy, InUpdate, InCommand
<1> QED
  BY <1>1, <1>2

-------------------------------------------------------------------------------
(* The theorems                                                            *)

\* The invariant holds for any number of requests and failures.
THEOREM Invariance == Spec => []Inv
  BY InitInv, NextInv, PTL DEF Spec

\* Type correctness of the document, of every request and of the counts.
THEOREM TypeCorrectness == Spec => []TypeOK
<1>1. Inv => TypeOK
  BY DEF Inv
<1> QED
  BY Invariance, <1>1, PTL

\* However requests end, none leaves a transaction that blocks the document.
THEOREM NoOrphanedLock == Spec => []LockHasOwner
<1>1. Inv => LockHasOwner
  BY DEF Inv, HolderInv, LockHasOwner
<1> QED
  BY Invariance, <1>1, PTL

\* The document is changed by a request that commits it as its holder, or by one
\* whose copy is the current document.
LEMMA Writers ==
  ASSUME Inv, [Next]_vars
  PROVE  \/ doc' = doc /\ applied' = applied
         \/ \E q \in Requests :
              /\ Store(q)
              /\ \/ at[q] = "commit" /\ kind[q] \in Updates /\ doc = seen[q]
                 \/ at[q] = "write" /\ kind[q] \in Kinds \ Updates /\ doc = local[q]
<1>1. ASSUME NEW q \in Requests, at[q] = "commit", CommitTransaction(q)
      PROVE  \/ doc' = doc /\ applied' = applied
             \/ Store(q) /\ kind[q] \in Updates /\ doc = seen[q]
  <2>1. CASE holder = q
    <3>1. q # None
      BY TaskAssumption
    <3>2. kind[q] \in Updates /\ doc = seen[q]
      BY <1>1, <2>1, <3>1 DEF Inv, KindInv, CopyInv, HolderInv, IsCopy, InUpdate
    <3> QED
      BY <1>1, <2>1, <3>2 DEF CommitTransaction
  <2>2. CASE holder # q
    BY <1>1, <2>2 DEF CommitTransaction
  <2> QED
    BY <2>1, <2>2
<1>2. ASSUME NEW q \in Requests, at[q] = "write", local[q].v = doc.v, Store(q)
      PROVE  kind[q] \in Kinds \ Updates /\ doc = local[q]
  BY <1>2 DEF Inv, KindInv, CopyInv, IsCopy, InCommand
<1>3. ASSUME NEW q \in Requests, Step(q)
      PROVE  \/ doc' = doc /\ applied' = applied
             \/ at[q] = "commit" /\ CommitTransaction(q)
             \/ at[q] = "write" /\ local[q].v = doc.v /\ Store(q)
  BY <1>3
  DEF Step, ReadForUpdate, Save, Commit, Authorize, Unlink, Reread, Write, Activity, Audit,
      ClearCache, storeVars
<1>4. ASSUME NEW q \in Requests,
             View(q) \/ Arrive(q) \/ Forbid(q) \/ Abort(q) \/ CallRejected(q) \/ AnswerLost(q)
      PROVE  \/ doc' = doc /\ applied' = applied
             \/ at[q] = "commit" /\ CommitTransaction(q)
             \/ at[q] = "write" /\ local[q].v = doc.v /\ Store(q)
  BY <1>4 DEF View, Arrive, Forbid, Abort, CallRejected, AnswerLost, storeVars
<1>5. Crash => doc' = doc /\ applied' = applied
  BY DEF Crash
<1>6. UNCHANGED vars => doc' = doc /\ applied' = applied
  BY DEF vars, storeVars
<1> QED
  BY <1>1, <1>2, <1>3, <1>4, <1>5, <1>6 DEF Next

\* An update overwrites nothing its client has not seen, whatever other requests do,
\* and whatever is aborted, repeated or lost.
THEOREM NoUpdateLost == Spec => NoLostUpdate
<1>1. ASSUME Inv, [Next]_vars, NEW r \in Requests, doc.title # r, doc'.title = r
      PROVE  doc = seen[r]
  <2>1. PICK q \in Requests :
          /\ Store(q)
          /\ \/ kind[q] \in Updates /\ doc = seen[q]
             \/ kind[q] \in Kinds \ Updates /\ doc = local[q]
    BY <1>1, Writers
  <2>2. kind[q] \in Kinds /\ doc' = Written(q) /\ TypeOK
    BY <1>1, <2>1, Members DEF Store, Inv
  <2>3. kind[q] \in Updates /\ doc'.title = q
    BY <1>1, <2>2, WrittenFacts
  <2> QED
    BY <1>1, <2>1, <2>3
<1>2. Inv /\ [Next]_vars =>
        [\A r \in Requests : doc.title # r /\ doc'.title = r => doc = seen[r]]_vars
  BY <1>1
<1> QED
  BY Invariance, <1>2, PTL DEF Spec, NoLostUpdate

\* No update and no deletion takes effect on a deleted task, and none undeletes it.
THEOREM DeletionIsFinal == Spec => DeletedIsFinal
<1>1. ASSUME Inv, [Next]_vars, doc.deleted
      PROVE  doc'.deleted /\ \A r \in applied' \ applied : kind[r] \in ById
  <2>1. CASE doc' = doc /\ applied' = applied
    BY <1>1, <2>1
  <2>2. ASSUME NEW q \in Requests, Store(q),
               \/ at[q] = "commit" /\ kind[q] \in Updates /\ doc = seen[q]
               \/ at[q] = "write" /\ kind[q] \in Kinds \ Updates /\ doc = local[q]
        PROVE  doc'.deleted /\ \A r \in applied' \ applied : kind[r] \in ById
    <3>1. at[q] = "write" /\ kind[q] \in Kinds \ Updates /\ kind[q] # "remove"
      BY <1>1, <2>2 DEF Inv, CopyInv, InUpdate
    <3>2. kind[q] \in ById
      BY <3>1 DEF Kinds
    <3>3. doc'.deleted
      BY <1>1, <2>2, <3>1, WrittenFacts DEF Store, Inv
    <3> QED
      BY <2>2, <3>2, <3>3 DEF Store
  <2> QED
    BY <1>1, <2>1, <2>2, Writers
<1>2. Inv /\ [Next]_vars =>
        [doc.deleted => /\ doc'.deleted
                        /\ \A r \in applied' \ applied : kind[r] \in ById]_vars
  BY <1>1
<1> QED
  BY Invariance, <1>2, PTL DEF Spec, DeletedIsFinal

-------------------------------------------------------------------------------
(* Answers and files                                                       *)

\* Where the write of r has not been committed, and nothing of it logged.
Unwritten(r) ==
  at[r] \in {"new", "update", "save", "commit", "authorize", "unlink", "reread", "write",
             "refused"}

\* What a request has done when it gets to a point; a save that was aborted is not done
\* again, and so the request gets on without it.
AnswerInv ==
  \A r \in Requests :
    /\ Unwritten(r) => r \notin applied /\ log[r] = {}
    /\ at[r] = "save" /\ SavedBefore(r) => faults.abort > 0
    /\ at[r] = "commit" => holder = r \/ faults.abort > 0
    /\ at[r] \in {"activity", "audit"} => r \in applied
    /\ at[r] \in {"clear", "ok"} => "audit" \in log[r] /\ (r \in applied \/ faults.abort > 0)

Detaching(r) == kind[r] = "detach" /\ at[r] \in {"unlink", "reread", "write"}

\* An attachment is that of a request that has stored it; its file is gone once a
\* deletion of it has got past Unlink, and nobody else takes a file away.
FileInv ==
  /\ \A a \in doc.attachments \cap Requests : a \in applied
  /\ Initial \in files => Initial \in doc.attachments
  /\ \A a \in files \cap Requests :
       kind[a] = "attach" /\ (at[a] \in {"activity", "audit", "clear", "ok"} => a \in doc.attachments)
  /\ \A r \in Requests :
       /\ at[r] = "new" => r \notin files
       /\ at[r] = "unlink" => kind[r] = "detach"
       /\ kind[r] = "attach" /\ InCommand(r) => r \in files
       /\ Detaching(r) => target[r] \in applied \cup {Initial}
       /\ Detaching(r) /\ at[r] # "unlink" => target[r] \notin files
  /\ \A a \in doc.attachments \ files :
       \E r \in Requests : /\ kind[r] = "detach" /\ target[r] = a
                           /\ at[r] \in {"reread", "write", "error"}

FullInv == Inv /\ AnswerInv /\ FileInv

\* Before the first request nothing is logged, stored or uploaded.
LEMMA FullInit == Init => FullInv
<1> SUFFICES ASSUME Init PROVE AnswerInv /\ FileInv
  BY InitInv DEF FullInv
<1>1. AnswerInv
  BY DEF Init, AnswerInv, Unwritten
<1>2. FileInv
  BY TaskAssumption, CreatedFacts DEF Init, FileInv, Created, Detaching, InCommand
<1> QED BY <1>1, <1>2

\* The count of aborts does not go back.
LEMMA AbortsGrow ==
  ASSUME TypeOK, NEW k \in FaultKinds, Fault(k)
  PROVE  (faults.abort > 0 => faults'.abort > 0) /\ (k = "abort" => faults'.abort > 0)
  BY DEF TypeOK, Fault, FaultKinds

\* The steps that neither log, nor store, nor fail.
LEMMA QuietAnswers ==
  ASSUME FullInv, NEW r \in Requests,
         \/ View(r) \/ ReadForUpdate(r) \/ Save(r) \/ Arrive(r) \/ Authorize(r) \/ Unlink(r)
         \/ Reread(r) \/ ClearCache(r) \/ Forbid(r)
  PROVE  AnswerInv'
<1> USE DEF FullInv, Inv, TypeOK, AnswerInv, Unwritten, Goto
<1>1. CASE View(r) \/ Arrive(r)
  BY <1>1 DEF View, Arrive, SavedBefore, storeVars, copyVars
<1>2. CASE ReadForUpdate(r)
  <2>1. UNCHANGED <<holder, applied, log, faults, seen>>
    BY <1>2 DEF ReadForUpdate, storeVars
  <2>2. at[r] = "update" /\ at' \in {[at EXCEPT ![r] = "refused"], [at EXCEPT ![r] = "save"]}
    BY <1>2 DEF ReadForUpdate
  <2>3. /\ at'[r] = "save" => local'[r].v = seen[r].v /\ seen[r].v \in Nat
        /\ \A q \in Requests \ {r} : local'[q] = local[q]
    BY <1>2 DEF ReadForUpdate, Document
  <2>4. \A q \in Requests : at'[q] = "save" /\ SavedBefore(q)' => q # r /\ SavedBefore(q)
    BY <2>1, <2>2, <2>3 DEF SavedBefore
  <2> QED BY <2>1, <2>2, <2>4
<1>3. CASE Save(r)
  <2>1. UNCHANGED <<applied, log, faults, seen>> /\ at[r] = "save"
    BY <1>3 DEF Save
  <2>2. \A q \in Requests \ {r} : local'[q] = local[q]
    BY <1>3 DEF Save
  <2>3. at' \in {[at EXCEPT ![r] = "refused"], [at EXCEPT ![r] = "commit"]}
    BY <1>3 DEF Save
  <2>4. at'[r] = "commit" => holder' = r \/ SavedBefore(r)
    BY <1>3 DEF Save
  <2>5. \A q \in Requests : holder = q => holder' = q
    BY <1>3, TaskAssumption DEF Save
  <2>6. \A q \in Requests : at'[q] = "save" /\ SavedBefore(q)' => SavedBefore(q) /\ at[q] = "save"
    BY <2>1, <2>2, <2>3 DEF SavedBefore
  <2> QED BY <2>1, <2>3, <2>4, <2>5, <2>6
<1>4. CASE Authorize(r)
  <2>1. /\ UNCHANGED <<holder, applied, log, faults, seen>> /\ at[r] = "authorize"
        /\ \A q \in Requests \ {r} : local'[q] = local[q]
    BY <1>4 DEF Authorize, storeVars
  <2>2. PICK p \in {"refused", "reread", "write", "unlink"} : at' = [at EXCEPT ![r] = p]
    BY <1>4 DEF Authorize
  <2>3. \A q \in Requests : at'[q] = "save" /\ SavedBefore(q)' => SavedBefore(q) /\ at[q] = "save"
    BY <2>1, <2>2 DEF SavedBefore
  <2> QED BY <2>1, <2>2, <2>3
<1>5. CASE Reread(r)
  <2>1. /\ UNCHANGED <<holder, applied, log, faults, seen>> /\ at[r] = "reread"
        /\ \A q \in Requests \ {r} : local'[q] = local[q]
    BY <1>5 DEF Reread, storeVars
  <2>2. PICK p \in {"refused", "write"} : at' = [at EXCEPT ![r] = p]
    BY <1>5 DEF Reread
  <2>3. \A q \in Requests : at'[q] = "save" /\ SavedBefore(q)' => SavedBefore(q) /\ at[q] = "save"
    BY <2>1, <2>2 DEF SavedBefore
  <2> QED BY <2>1, <2>2, <2>3
<1>6. CASE Unlink(r) \/ ClearCache(r) \/ Forbid(r)
  BY <1>6 DEF Unlink, ClearCache, Forbid, SavedBefore, storeVars, copyVars
<1> QED BY <1>1, <1>2, <1>3, <1>4, <1>5, <1>6

\* The steps that log, outside of a transaction.
LEMMA LogAnswers ==
  ASSUME FullInv, NEW r \in Requests, Activity(r) \/ Audit(r) PROVE AnswerInv'
  BY DEF FullInv, Inv, TypeOK, AnswerInv, Unwritten, Goto, Activity, Audit, SavedBefore,
     storeVars, copyVars

\* A transaction that commits logs, and stores unless it was aborted before.
LEMMA CommitAnswers ==
  ASSUME FullInv, NEW r \in Requests, at[r] = "commit", CommitTransaction(r),
         NEW p \in {"clear", "error"}, Goto(r, p),
         faults.abort > 0 => faults'.abort > 0
  PROVE  AnswerInv'
<1>1. UNCHANGED <<seen, local>> /\ log' = [log EXCEPT ![r] = TransactionLog(r)]
  BY DEF CommitTransaction, copyVars
<1>2. "audit" \in TransactionLog(r)
  BY DEF TransactionLog
<1>3. applied' = (IF holder = r THEN applied \cup {r} ELSE applied)
  BY DEF CommitTransaction, Store
<1>4. \A q \in Requests \ {r} : holder = q => holder' = q
  BY DEF CommitTransaction
<1> QED
  BY <1>1, <1>2, <1>3, <1>4 DEF FullInv, Inv, TypeOK, AnswerInv, Unwritten, Goto, SavedBefore

\* A write outside of a transaction.
LEMMA StoreAnswers ==
  ASSUME FullInv, NEW r \in Requests, at[r] = "write",
         applied' = applied \cup {r}, NEW p \in {"audit", "activity", "error"}, Goto(r, p),
         UNCHANGED <<seen, local, log, holder>>, faults.abort > 0 => faults'.abort > 0
  PROVE  AnswerInv'
  BY DEF FullInv, Inv, TypeOK, AnswerInv, Unwritten, Goto, SavedBefore

\* A write that finds another version ends with an error.
LEMMA WriteAnswers == ASSUME FullInv, NEW r \in Requests, Write(r) PROVE AnswerInv'
<1>1. CASE local[r].v = doc.v
  BY <1>1, StoreAnswers DEF Write, Store, copyVars
<1>2. CASE local[r].v # doc.v
  BY <1>2 DEF Write, FullInv, Inv, TypeOK, AnswerInv, Unwritten, Goto, SavedBefore, copyVars
<1> QED BY <1>1, <1>2

\* Failures leave requests without an answer, or repeat a transaction.
LEMMA FailureAnswers ==
  ASSUME FullInv, NEW r \in Requests, Abort(r) \/ CallRejected(r) \/ AnswerLost(r)
  PROVE  AnswerInv'
<1>1. /\ faults.abort > 0 => faults'.abort > 0
      /\ Abort(r) => faults'.abort > 0
  BY AbortsGrow DEF Abort, CallRejected, AnswerLost, FullInv, Inv, FaultKinds
<1>2. CASE Abort(r) \/ CallRejected(r)
  <2>1. UNCHANGED <<seen, local, applied, log>>
    BY <1>2 DEF Abort, CallRejected, copyVars
  <2>2. \A q \in Requests \ {r} : holder = q => holder' = q
    BY <1>2 DEF Abort, CallRejected, Release
  <2>3. \/ Abort(r) /\ at[r] = "commit" /\ at' = [at EXCEPT ![r] = "save"]
        \/ at' = [at EXCEPT ![r] = "error"]
    BY <1>2 DEF Abort, CallRejected, Goto
  <2> QED
    BY <1>1, <2>1, <2>2, <2>3 DEF FullInv, Inv, TypeOK, AnswerInv, Unwritten, SavedBefore
<1>3. CASE AnswerLost(r) /\ at[r] = "commit"
  BY <1>1, <1>3, CommitAnswers DEF AnswerLost
<1>4. CASE AnswerLost(r) /\ at[r] = "write"
  BY <1>1, <1>4, StoreAnswers DEF AnswerLost, Store, copyVars
<1>5. CASE AnswerLost(r) /\ at[r] \in {"activity", "audit"}
  BY <1>1, <1>5 DEF AnswerLost, FullInv, Inv, TypeOK, AnswerInv, Unwritten, Goto, SavedBefore,
     copyVars, storeVars
<1> QED BY <1>2, <1>3, <1>4, <1>5 DEF AnswerLost

\* Whoever dies with its process stays without an answer.
LEMMA CrashAnswers == ASSUME FullInv, Crash PROVE AnswerInv'
<1>1. PICK S \in SUBSET {r \in Requests : at[r] \in Running} \ {{}} :
        /\ at' = [r \in Requests |-> IF r \in S THEN "error" ELSE at[r]]
        /\ holder' = IF holder \in S THEN None ELSE holder
  BY DEF Crash
<1>2. faults.abort > 0 => faults'.abort > 0
  BY AbortsGrow DEF Crash, FullInv, Inv, FaultKinds
<1> QED
  BY <1>1, <1>2 DEF Crash, FullInv, Inv, TypeOK, AnswerInv, Unwritten, SavedBefore, copyVars

\* Every step keeps what requests have done in accord with where they are.
LEMMA AnswersKept == FullInv /\ [Next]_vars => AnswerInv'
<1> SUFFICES ASSUME FullInv, [Next]_vars PROVE AnswerInv'
  OBVIOUS
<1>1. ASSUME NEW r \in Requests, Commit(r) PROVE AnswerInv'
  BY <1>1, CommitAnswers DEF Commit
<1>2. CASE UNCHANGED vars
  BY <1>2 DEF vars, copyVars, storeVars, FullInv, AnswerInv, Unwritten, SavedBefore
<1> QED
  BY <1>1, <1>2, QuietAnswers, LogAnswers, WriteAnswers, FailureAnswers, CrashAnswers
     DEF Next, Step

\* A request moves on; document, files and commands stay.
LEMMA FilesFrame ==
  ASSUME FullInv, NEW r \in Requests, NEW p, at' = [at EXCEPT ![r] = p],
         UNCHANGED <<doc, files, applied, kind, target>>,
         at[r] # "error", p \notin {"new", "authorize", "unlink", "reread"},
         p \in {"activity", "audit", "clear", "ok"}
           => at[r] \in {"activity", "audit", "clear"} \/ kind[r] \in Updates,
         p = "write" => at[r] = "reread",
         at[r] \in {"reread", "write"} /\ kind[r] = "detach"
           => p \in {"write", "error"} \/ target[r] \notin doc.attachments
  PROVE  FileInv'
<1>1. "attach" \notin Updates
  BY DEF Updates
<1>2. \A q \in Requests : at'[q] = IF q = r THEN p ELSE at[q]
  BY DEF FullInv, Inv, TypeOK
<1>3. \A a \in doc.attachments \ files :
        \E q \in Requests : /\ kind[q] = "detach" /\ target[q] = a
                            /\ at'[q] \in {"reread", "write", "error"}
  BY <1>2 DEF FullInv, FileInv
<1> QED
  BY <1>1, <1>2, <1>3 DEF FullInv, FileInv, Detaching, InCommand

\* The steps that change neither the document nor a file.
LEMMA QuietFiles ==
  ASSUME FullInv, NEW r \in Requests,
         \/ ReadForUpdate(r) \/ Save(r) \/ Reread(r) \/ Activity(r) \/ Audit(r)
         \/ ClearCache(r) \/ Forbid(r) \/ Abort(r) \/ CallRejected(r)
  PROVE  FileInv'
<1>1. CASE ReadForUpdate(r) \/ Save(r) \/ Activity(r) \/ Audit(r) \/ ClearCache(r) \/ Abort(r)
  BY <1>1, FilesFrame
     DEF ReadForUpdate, Save, Activity, Audit, ClearCache, Abort, Goto, storeVars, copyVars
<1>2. CASE Forbid(r)
  BY <1>2, FilesFrame DEF Forbid, Goto, storeVars, copyVars
<1>3. CASE CallRejected(r)
  BY <1>3, FilesFrame DEF CallRejected, Running, Goto, copyVars
<1>4. CASE Reread(r)
  BY <1>4, FilesFrame DEF Reread, Goto, storeVars
<1> QED BY <1>1, <1>2, <1>3, <1>4

\* A command arrives, an upload with a file that is its own.
LEMMA ArrivalFiles == ASSUME FullInv, NEW r \in Requests, View(r) \/ Arrive(r) PROVE FileInv'
<1>1. /\ at[r] = "new" /\ r \notin applied /\ r \notin files
      /\ UNCHANGED <<doc, applied, target>>
  <2>1. at[r] = "new" /\ UNCHANGED <<doc, applied, target>>
    BY DEF View, Arrive, storeVars, copyVars
  <2> QED BY <2>1 DEF FullInv, FileInv, AnswerInv, Unwritten
<1>2. PICK k \in Kinds, p \in {"update", "authorize"} :
        /\ kind' = [kind EXCEPT ![r] = k] /\ at' = [at EXCEPT ![r] = p]
        /\ files' = IF k = "attach" THEN files \cup {r} ELSE files
  BY Members DEF View, Arrive, Goto, Updates, storeVars
<1>3. \A q \in Requests : /\ kind'[q] = IF q = r THEN k ELSE kind[q]
                          /\ at'[q] = IF q = r THEN p ELSE at[q]
  BY <1>2 DEF FullInv, Inv, TypeOK
<1>4. ~ Detaching(r)' /\ \A q \in Requests \ {r} : Detaching(q)' => Detaching(q)
  BY <1>1, <1>3 DEF Detaching
<1>5. \A a \in doc.attachments \ files' :
        \E q \in Requests : /\ kind'[q] = "detach" /\ target[q] = a
                            /\ at'[q] \in {"reread", "write", "error"}
  BY <1>1, <1>2, <1>3 DEF FullInv, FileInv
<1>6. r # Initial
  BY TaskAssumption
<1>7. \A a \in files' \cap Requests :
        /\ kind'[a] = "attach"
        /\ at'[a] \in {"activity", "audit", "clear", "ok"} => a \in doc.attachments
  BY <1>1, <1>2, <1>3 DEF FullInv, FileInv
<1>8. \A q \in Requests :
        /\ at'[q] = "new" => q \notin files'
        /\ kind'[q] = "attach" /\ at'[q] \in {"authorize", "unlink", "reread", "write"}
             => q \in files'
        /\ at'[q] = "unlink" => kind'[q] = "detach"
  BY <1>1, <1>2, <1>3 DEF FullInv, FileInv, InCommand
<1>9. \A q \in Requests : Detaching(q)' =>
        /\ target[q] \in applied \cup {Initial}
        /\ at'[q] # "unlink" => target[q] \notin files'
  BY <1>1, <1>2, <1>3, <1>4, <1>6 DEF FullInv, FileInv
<1>10. Initial \in files' => Initial \in doc.attachments
  BY <1>2, <1>6 DEF FullInv, FileInv
<1> QED
  BY <1>1, <1>5, <1>7, <1>8, <1>9, <1>10 DEF FullInv, FileInv, InCommand

\* A command that does not delete an attachment goes on; the target of one that does is
\* an attachment of the task.
LEMMA AuthorizeFiles == ASSUME FullInv, NEW r \in Requests, Authorize(r) PROVE FileInv'
<1>1. at[r] = "authorize" /\ UNCHANGED <<doc, files, applied, kind>>
  BY DEF Authorize, storeVars
<1>2. PICK p \in {"refused", "reread", "write", "unlink"} : at' = [at EXCEPT ![r] = p]
  BY DEF Authorize, Goto
<1>3. \A q \in Requests : /\ at'[q] = IF q = r THEN p ELSE at[q]
                          /\ q # r => target'[q] = target[q]
  BY <1>2 DEF FullInv, Inv, TypeOK, Authorize
<1>4. /\ kind[r] = "detach" => p \in {"refused", "unlink"}
      /\ p = "unlink" => kind[r] = "detach" /\ target'[r] \in doc.attachments
  BY <1>2 DEF Authorize, FullInv, Inv, TypeOK, Goto
<1>5. doc.attachments \subseteq applied \cup {Initial}
  BY DEF FullInv, FileInv, Inv, TypeOK, Document, Files
<1>6. \A a \in doc.attachments \ files :
        \E q \in Requests : /\ kind[q] = "detach" /\ target'[q] = a
                            /\ at'[q] \in {"reread", "write", "error"}
  BY <1>1, <1>3 DEF FullInv, FileInv
<1>7. \A q \in Requests : Detaching(q)' =>
        /\ target'[q] \in applied \cup {Initial}
        /\ at'[q] # "unlink" => target'[q] \notin files
  <2> SUFFICES ASSUME NEW q \in Requests, Detaching(q)'
               PROVE  /\ target'[q] \in applied \cup {Initial}
                      /\ at'[q] # "unlink" => target'[q] \notin files
    OBVIOUS
  <2>1. CASE q = r
    BY <2>1, <1>1, <1>3, <1>4, <1>5 DEF Detaching
  <2>2. CASE q # r
    BY <2>2, <1>1, <1>3 DEF Detaching, FullInv, FileInv
  <2> QED BY <2>1, <2>2
<1>8. \A q \in Requests :
        /\ at'[q] = "new" => at[q] = "new"
        /\ at'[q] \in {"authorize", "unlink", "reread", "write"}
             => at[q] \in {"authorize", "unlink", "reread", "write"}
        /\ at'[q] \in {"activity", "audit", "clear", "ok"} => at'[q] = at[q]
  BY <1>1, <1>3
<1>9. \A q \in Requests : at'[q] = "unlink" => kind[q] = "detach"
  BY <1>1, <1>3, <1>4 DEF FullInv, FileInv, Authorize, Goto
<1> QED
  BY <1>1, <1>6, <1>7, <1>8, <1>9 DEF FullInv, FileInv, InCommand

\* The file of the target goes, and the deletion is what accounts for it.
LEMMA UnlinkFiles == ASSUME FullInv, NEW r \in Requests, Unlink(r) PROVE FileInv'
<1>1. /\ at[r] = "unlink" /\ at' = [at EXCEPT ![r] = "reread"] /\ files' = files \ {target[r]}
      /\ UNCHANGED <<doc, applied, kind, target>>
  BY DEF Unlink, Goto, copyVars
<1>2. \A q \in Requests : at'[q] = IF q = r THEN "reread" ELSE at[q]
  BY <1>1 DEF FullInv, Inv, TypeOK
<1>3. Detaching(r) /\ kind[r] = "detach" /\ target[r] \in applied \cup {Initial}
  BY <1>1 DEF FullInv, FileInv, Detaching
<1>4. \A q \in Requests : kind[q] = "attach" /\ InCommand(q) => q # target[r]
  <2>1. \A q \in Requests : InCommand(q) => q \notin applied /\ q # Initial
    BY TaskAssumption DEF FullInv, AnswerInv, Unwritten, InCommand
  <2> QED BY <1>3, <2>1
<1>5. \A a \in doc.attachments \ files' :
        \E q \in Requests : /\ kind[q] = "detach" /\ target[q] = a
                            /\ at'[q] \in {"reread", "write", "error"}
  <2> SUFFICES ASSUME NEW a \in doc.attachments \ files'
               PROVE  \E q \in Requests : /\ kind[q] = "detach" /\ target[q] = a
                                          /\ at'[q] \in {"reread", "write", "error"}
    OBVIOUS
  <2>1. CASE a = target[r]
    BY <2>1, <1>2, <1>3
  <2>2. CASE a # target[r]
    BY <2>2, <1>1, <1>2 DEF FullInv, FileInv
  <2> QED BY <2>1, <2>2
<1> QED
  BY <1>1, <1>2, <1>3, <1>4, <1>5 DEF FullInv, FileInv, Detaching, InCommand

-------------------------------------------------------------------------------
(* Files and the writes of the document                                    *)

\* An upload lists its file; a deletion unlists what it has unlinked, and nothing else,
\* since it compares versions.
LEMMA StoreAttachments ==
  ASSUME FullInv, NEW r \in Requests, Store(r),
         (at[r] = "commit" /\ kind[r] \in Updates) \/ (at[r] = "write" /\ local[r] = doc)
  PROVE  /\ doc'.attachments = IF kind[r] = "attach" THEN doc.attachments \cup {r}
                               ELSE IF kind[r] = "detach" THEN doc.attachments \ {target[r]}
                               ELSE doc.attachments
         /\ applied' = applied \cup {r}
  BY DEF Store, Written, Updates

\* What a request stores agrees with the files that its command has changed.
LEMMA StoreFiles ==
  ASSUME FullInv, NEW r \in Requests, Store(r),
         (at[r] = "commit" /\ kind[r] \in Updates) \/ (at[r] = "write" /\ local[r] = doc),
         NEW p \in {"audit", "activity", "clear", "error"}, Goto(r, p),
         UNCHANGED <<files, kind, target>>
  PROVE  FileInv'
<1>1. \A q \in Requests : at'[q] = IF q = r THEN p ELSE at[q]
  BY DEF Goto, FullInv, Inv, TypeOK
<1>2. applied' = applied \cup {r}
  BY StoreAttachments
<1>3. CASE kind[r] = "attach"
  <2>1. doc'.attachments = doc.attachments \cup {r} /\ r \in files
    BY <1>3, StoreAttachments DEF FullInv, FileInv, InCommand, Updates
  <2>2. \A a \in doc'.attachments \ files :
          \E q \in Requests : /\ kind[q] = "detach" /\ target[q] = a
                              /\ at'[q] \in {"reread", "write", "error"}
    BY <1>1, <1>3, <2>1 DEF FullInv, FileInv
  <2> QED
    BY <1>1, <1>2, <1>3, <2>1, <2>2 DEF FullInv, FileInv, Detaching, InCommand
<1>4. CASE kind[r] = "detach"
  <2>1. doc'.attachments = doc.attachments \ {target[r]} /\ target[r] \notin files
    BY <1>4, StoreAttachments DEF FullInv, FileInv, Detaching, Updates
  <2>2. \A a \in doc'.attachments \ files :
          \E q \in Requests : /\ kind[q] = "detach" /\ target[q] = a
                              /\ at'[q] \in {"reread", "write", "error"}
    BY <1>1, <2>1 DEF FullInv, FileInv
  <2> QED
    BY <1>1, <1>2, <1>4, <2>1, <2>2 DEF FullInv, FileInv, Detaching, InCommand
<1>5. CASE kind[r] \notin {"attach", "detach"}
  <2>1. doc'.attachments = doc.attachments
    BY <1>5, StoreAttachments
  <2>2. \A a \in doc'.attachments \ files :
          \E q \in Requests : /\ kind[q] = "detach" /\ target[q] = a
                              /\ at'[q] \in {"reread", "write", "error"}
    BY <1>1, <1>5, <2>1 DEF FullInv, FileInv
  <2> QED
    BY <1>1, <1>2, <1>5, <2>1, <2>2 DEF FullInv, FileInv, Detaching, InCommand
<1> QED BY <1>3, <1>4, <1>5

\* A transaction that commits stores an update, or nothing if it was aborted before.
LEMMA CommitFiles ==
  ASSUME FullInv, NEW r \in Requests, at[r] = "commit", CommitTransaction(r),
         NEW p \in {"clear", "error"}, Goto(r, p)
  PROVE  FileInv'
<1>1. kind[r] \in Updates /\ UNCHANGED <<files, kind, target>>
  BY DEF FullInv, Inv, KindInv, InUpdate, CommitTransaction, copyVars
<1>2. CASE holder = r
  <2>1. Store(r)
    BY <1>2 DEF CommitTransaction
  <2> QED BY <1>1, <2>1, StoreFiles
<1>3. CASE holder # r
  BY <1>1, <1>3, FilesFrame DEF CommitTransaction, Goto
<1> QED BY <1>2, <1>3

\* A write outside of a transaction stores, or refuses and leaves the file as it is.
LEMMA WriteFiles == ASSUME FullInv, NEW r \in Requests, Write(r) PROVE FileInv'
<1>1. at[r] = "write" /\ UNCHANGED <<files, kind, target>>
  BY DEF Write, copyVars
<1>2. CASE local[r].v = doc.v
  <2>1. local[r] = doc
    BY <1>1, <1>2 DEF FullInv, Inv, CopyInv, IsCopy
  <2> QED BY <1>1, <1>2, <2>1, StoreFiles DEF Write
<1>3. CASE local[r].v # doc.v
  BY <1>1, <1>3, FilesFrame DEF Write, Goto
<1> QED BY <1>2, <1>3

\* A write whose answer is lost has stored all the same.
LEMMA AnswerLostFiles == ASSUME FullInv, NEW r \in Requests, AnswerLost(r) PROVE FileInv'
<1>1. CASE at[r] = "commit" /\ CommitTransaction(r)
  BY <1>1, CommitFiles DEF AnswerLost
<1>2. CASE at[r] = "write" /\ local[r].v = doc.v /\ Store(r) /\ UNCHANGED <<kind, copyVars, files>>
  <2>1. local[r] = doc
    BY <1>2 DEF FullInv, Inv, CopyInv, IsCopy
  <2> QED BY <1>2, <2>1, StoreFiles DEF AnswerLost, copyVars
<1>3. CASE at[r] \in {"activity", "audit"} /\ UNCHANGED <<kind, copyVars, storeVars>>
  BY <1>3, FilesFrame DEF AnswerLost, Goto, copyVars, storeVars
<1> QED BY <1>1, <1>2, <1>3 DEF AnswerLost

\* A process that dies leaves files and attachments as they are; its requests have no success.
LEMMA CrashFiles == ASSUME FullInv, Crash PROVE FileInv'
<1>1. PICK S \in SUBSET {r \in Requests : at[r] \in Running} \ {{}} :
        at' = [r \in Requests |-> IF r \in S THEN "error" ELSE at[r]]
  BY DEF Crash
<1>2. UNCHANGED <<doc, files, applied, kind, target>>
  BY DEF Crash, copyVars
<1>3. \A q \in Requests : at'[q] = at[q] \/ at'[q] = "error"
  BY <1>1
<1>4. \A a \in doc.attachments \ files :
        \E q \in Requests : /\ kind[q] = "detach" /\ target[q] = a
                            /\ at'[q] \in {"reread", "write", "error"}
  BY <1>3 DEF FullInv, FileInv
<1> QED
  BY <1>2, <1>3, <1>4 DEF FullInv, FileInv, Detaching, InCommand

\* Every step keeps files and attachments in accord.
LEMMA FilesKept == FullInv /\ [Next]_vars => FileInv'
<1> SUFFICES ASSUME FullInv, [Next]_vars PROVE FileInv'
  OBVIOUS
<1>1. ASSUME NEW r \in Requests, Commit(r) PROVE FileInv'
  BY <1>1, CommitFiles DEF Commit
<1>2. CASE UNCHANGED vars
  BY <1>2 DEF vars, copyVars, storeVars, FullInv, FileInv, Detaching, InCommand
<1> QED
  BY <1>1, <1>2, QuietFiles, ArrivalFiles, AuthorizeFiles, UnlinkFiles, WriteFiles,
     AnswerLostFiles, CrashFiles
     DEF Next, Step

\* Types, copies, answers and files, for any number of requests and failures.
LEMMA FullInvariance == Spec => []FullInv
<1>1. FullInv /\ [Next]_vars => FullInv'
  BY NextInv, AnswersKept, FilesKept DEF FullInv
<1> QED BY <1>1, FullInit, PTL DEF Spec

\* Whatever overlaps, fails or is repeated: a success has changed the task and is logged,
\* unless a transaction was aborted, and a refusal has done neither.
THEOREM HonestAnswers == Spec => []AnswersHonest
<1>1. FullInv => AnswersHonest
  BY DEF FullInv, AnswerInv, AnswersHonest, Unwritten
<1> QED BY <1>1, FullInvariance, PTL

\* Whatever overlaps or fails: a listed attachment without a file is being deleted or was
\* when the deletion failed, and a file that is not listed is of an upload without success.
THEOREM AttachmentsAgree == Spec => []FilesAgree
<1>1. FullInv => FilesAgree
  <2> SUFFICES ASSUME FullInv, NEW a \in files \ doc.attachments
               PROVE  a \in Requests /\ at[a] # "ok"
    BY DEF FullInv, FileInv, FilesAgree
  <2>1. a \in Requests
    BY DEF FullInv, FileInv, Inv, TypeOK, Files
  <2> QED BY <2>1 DEF FullInv, FileInv
<1> QED BY <1>1, FullInvariance, PTL

-------------------------------------------------------------------------------
(* Completions                                                             *)

\* The requests that have audited a completion.
Audited == {r \in Requests : "completed" \in log[r]}
Counted == {r \in applied : "completed" \in log[r]}

\* The requests whose transaction was aborted after its save and that did not store
\* anything, but have audited a completion, or may still do so.
Aborted ==
  {r \in Requests : \/ at[r] = "save" /\ SavedBefore(r)
                    \/ at[r] = "commit" /\ holder # r
                    \/ "completed" \in log[r] /\ r \notin applied}

CompletionInv ==
  /\ \A r \in Requests : at[r] \in {"save", "commit"} => local[r].done = seen[r].done
  /\ completions = Cardinality(Counted)
  /\ Cardinality(Aborted) <= faults.abort

\* The sets are finite.
LEMMA CompletionSets ==
  ASSUME FullInv
  PROVE  /\ IsFiniteSet(Audited) /\ IsFiniteSet(Counted) /\ IsFiniteSet(Aborted)
         /\ Cardinality(Audited) \in Nat /\ Cardinality(Counted) \in Nat
         /\ Cardinality(Aborted) \in Nat
<1>1. Audited \in SUBSET Requests /\ Counted \in SUBSET Requests /\ Aborted \in SUBSET Requests
  BY DEF FullInv, Inv, TypeOK, Audited, Counted, Aborted
<1>2. IsFiniteSet(Requests)
  BY TaskAssumption
<1>3. IsFiniteSet(Audited) /\ IsFiniteSet(Counted) /\ IsFiniteSet(Aborted)
  BY <1>1, <1>2, FS_Subset
<1> QED BY <1>3, FS_CardinalityType

\* What a step does to the two sets and the two counts decides.
LEMMA CountsKept ==
  ASSUME FullInv, FullInv', CompletionInv, faults'.abort >= faults.abort,
         \A r \in Requests : at'[r] \in {"save", "commit"} => local'[r].done = seen'[r].done,
         \/ completions' = completions /\ Counted' = Counted
         \/ \E r : /\ r \notin Counted /\ Counted' = Counted \cup {r}
                   /\ completions' = completions + 1,
         \/ Aborted' \subseteq Aborted
         \/ \E r : Aborted' \subseteq Aborted \cup {r} /\ faults'.abort >= faults.abort + 1
  PROVE  CompletionInv'
<1>1. /\ IsFiniteSet(Counted) /\ IsFiniteSet(Aborted) /\ IsFiniteSet(Aborted')
      /\ Cardinality(Aborted) \in Nat /\ Cardinality(Aborted') \in Nat
  <2>1. IsFiniteSet(Requests) /\ Aborted' \in SUBSET Requests
    BY TaskAssumption DEF Aborted
  <2>2. IsFiniteSet(Aborted')
    BY <2>1, FS_Subset
  <2> QED BY <2>2, CompletionSets, FS_CardinalityType
<1>2. completions' = Cardinality(Counted')
  <2>1. ASSUME NEW r, r \notin Counted, Counted' = Counted \cup {r}
        PROVE  Cardinality(Counted') = Cardinality(Counted) + 1
    BY <1>1, <2>1, FS_AddElement
  <2> QED BY <2>1 DEF CompletionInv
<1>3. faults.abort \in Nat /\ faults'.abort \in Nat
  BY DEF FullInv, Inv, TypeOK, FaultKinds
<1>4. Cardinality(Aborted') <= faults'.abort
  <2>1. CASE Aborted' \subseteq Aborted
    <3>1. Cardinality(Aborted') <= Cardinality(Aborted)
      BY <1>1, <2>1, FS_Subset
    <3> QED BY <1>1, <1>3, <3>1 DEF CompletionInv
  <2>2. ASSUME NEW r, Aborted' \subseteq Aborted \cup {r}, faults'.abort >= faults.abort + 1
        PROVE  Cardinality(Aborted') <= faults'.abort
    <3>1. /\ IsFiniteSet(Aborted \cup {r})
          /\ Cardinality(Aborted \cup {r}) <= Cardinality(Aborted) + 1
          /\ Cardinality(Aborted \cup {r}) \in Nat
      <4>1. /\ IsFiniteSet(Aborted \cup {r})
            /\ Cardinality(Aborted \cup {r})
                 = IF r \in Aborted THEN Cardinality(Aborted) ELSE Cardinality(Aborted) + 1
        BY <1>1, FS_AddElement
      <4> QED BY <1>1, <4>1
    <3>2. Cardinality(Aborted') <= Cardinality(Aborted \cup {r})
      BY <2>2, <3>1, FS_Subset
    <3> QED BY <1>1, <1>3, <2>2, <3>1, <3>2 DEF CompletionInv
  <2> QED BY <2>1, <2>2
<1> QED BY <1>2, <1>4 DEF CompletionInv

\* A step that neither stores nor logs a completion, nor fails.
LEMMA QuietCompletions ==
  ASSUME FullInv, FullInv', CompletionInv, NEW r \in Requests,
         \/ View(r) \/ ReadForUpdate(r) \/ Save(r) \/ Arrive(r) \/ Authorize(r) \/ Unlink(r)
         \/ Reread(r) \/ ClearCache(r) \/ Forbid(r) \/ Activity(r) \/ Audit(r)
  PROVE  CompletionInv'
<1>1. UNCHANGED <<applied, completions, faults>>
  BY DEF View, ReadForUpdate, Save, Arrive, Authorize, Unlink, Reread, ClearCache, Forbid,
     Activity, Audit, storeVars
<1>2. \A q \in Requests : "completed" \in log'[q] <=> "completed" \in log[q]
  BY DEF View, ReadForUpdate, Save, Arrive, Authorize, Unlink, Reread, ClearCache, Forbid,
     Activity, Audit, storeVars, FullInv, Inv, TypeOK
<1>3. Counted' = Counted
  BY <1>1, <1>2 DEF Counted, FullInv, Inv, TypeOK
<1>4. \A q \in Requests \ {r} : at'[q] = at[q] /\ local'[q] = local[q] /\ seen'[q] = seen[q]
  BY DEF View, ReadForUpdate, Save, Arrive, Authorize, Unlink, Reread, ClearCache, Forbid,
     Activity, Audit, storeVars, copyVars, Goto, FullInv, Inv, TypeOK
<1>5. /\ at'[r] \in {"save", "commit"} => local'[r].done = seen'[r].done
      /\ Aborted' \subseteq Aborted
  <2>1. CASE ReadForUpdate(r)
    <3>1. /\ UNCHANGED <<holder, seen>> /\ at[r] = "update" /\ at'[r] \in {"save", "refused"}
          /\ at'[r] = "save" => local'[r] = doc /\ doc.v = seen[r].v
      BY <2>1 DEF ReadForUpdate, Goto, storeVars, FullInv, Inv, TypeOK
    <3>2. at'[r] = "save" => doc = seen[r]
      BY <3>1 DEF FullInv, Inv, CopyInv, InUpdate, IsCopy
    <3>3. seen[r].v \in Nat
      BY DEF FullInv, Inv, TypeOK, Document
    <3> QED BY <1>1, <1>2, <1>4, <3>1, <3>2, <3>3 DEF Aborted, SavedBefore
  <2>2. CASE Save(r)
    <3>1. /\ UNCHANGED seen /\ at[r] = "save" /\ at'[r] \in {"commit", "refused"}
          /\ at'[r] = "commit" => SavedBefore(r) \/ holder' = r
          /\ holder' # holder => holder = None
          /\ local'[r].done = local[r].done
      BY <2>2 DEF Save, Goto, FullInv, Inv, TypeOK, Document
    <3>2. \A q \in Requests : q # None
      BY TaskAssumption
    <3> QED BY <1>1, <1>2, <1>4, <3>1, <3>2 DEF Aborted, SavedBefore, CompletionInv
  <2>3. CASE ~ ReadForUpdate(r) /\ ~ Save(r)
    <3>1. UNCHANGED holder /\ at'[r] \notin {"save", "commit"}
      BY <2>3 DEF View, Arrive, Authorize, Unlink, Reread, ClearCache, Forbid, Activity, Audit,
         storeVars, Goto, FullInv, Inv, TypeOK
    <3> QED BY <1>1, <1>2, <1>4, <3>1 DEF Aborted, SavedBefore
  <2> QED BY <2>1, <2>2, <2>3
<1>6. \A q \in Requests : at'[q] \in {"save", "commit"} => local'[q].done = seen'[q].done
  BY <1>4, <1>5 DEF CompletionInv
<1>7. faults'.abort >= faults.abort
  BY <1>1 DEF FullInv, Inv, TypeOK, FaultKinds
<1> QED BY <1>1, <1>3, <1>5, <1>6, <1>7, CountsKept
\* What the transaction of r audits when it commits: the completion of the document, if
\* it stores, as it is when it stores.
LEMMA CommitCompletions ==
  ASSUME FullInv, FullInv', CompletionInv, NEW r \in Requests, at[r] = "commit",
         CommitTransaction(r), NEW p \in {"clear", "error"}, Goto(r, p),
         faults'.abort >= faults.abort
  PROVE  CompletionInv'
<1>1. UNCHANGED <<seen, local>> /\ log' = [log EXCEPT ![r] = TransactionLog(r)]
  BY DEF CommitTransaction, copyVars
<1>2. /\ \A q \in Requests \ {r} : log'[q] = log[q] /\ at'[q] = at[q]
      /\ at'[r] = p /\ ("completed" \in log'[r] <=> TaskCompleted(r))
  BY <1>1 DEF FullInv, Inv, TypeOK, Goto, TransactionLog
<1>3. log[r] = {} /\ r \notin applied
  BY DEF FullInv, AnswerInv, Unwritten
<1>4. \A q \in Requests : at'[q] \in {"save", "commit"} => local'[q].done = seen'[q].done
  BY <1>1, <1>2 DEF CompletionInv
<1>5. CASE holder = r
  <2>1. Store(r) /\ applied' = applied \cup {r} /\ holder' = None
    BY <1>5 DEF CommitTransaction, Store
  <2>2. doc = seen[r] /\ local[r].done = doc.done /\ kind[r] \in Updates
    BY <1>5, TaskAssumption
       DEF FullInv, Inv, HolderInv, CopyInv, KindInv, IsCopy, InUpdate, CompletionInv
  <2>3. Written(r).done = (kind[r] = "complete" \/ (doc.done /\ kind[r] # "reopen"))
    BY DEF Written
  <2>4. TaskCompleted(r) <=> ~ doc.done /\ Written(r).done
    BY <2>2, <2>3 DEF TaskCompleted
  <2>5. completions' = IF TaskCompleted(r) THEN completions + 1 ELSE completions
    BY <2>1, <2>4 DEF Store
  <2>6. Counted' = IF TaskCompleted(r) THEN Counted \cup {r} ELSE Counted
    BY <1>2, <1>3, <2>1 DEF Counted, FullInv, Inv, TypeOK
  <2>7. r \notin Counted
    BY <1>3 DEF Counted
  <2>8. Aborted' \subseteq Aborted
    BY <1>1, <1>2, <1>5, <2>1 DEF Aborted, SavedBefore
  <2> QED BY <1>4, <2>5, <2>6, <2>7, <2>8, CountsKept
<1>6. CASE holder # r
  <2>1. UNCHANGED <<applied, completions, holder>>
    BY <1>6 DEF CommitTransaction
  <2>2. Counted' = Counted
    BY <1>2, <1>3, <2>1 DEF Counted, FullInv, Inv, TypeOK
  <2>3. Aborted' \subseteq Aborted
    BY <1>1, <1>2, <1>6, <2>1 DEF Aborted, SavedBefore
  <2> QED BY <1>4, <2>1, <2>2, <2>3, CountsKept
<1> QED BY <1>5, <1>6

\* The other commands do not change the status.
LEMMA StoreCompletions ==
  ASSUME FullInv, FullInv', CompletionInv, NEW r \in Requests, at[r] = "write",
         NEW p \in {"audit", "activity", "error"}, Goto(r, p),
         \/ Store(r)
         \/ UNCHANGED <<applied, completions>>,
         UNCHANGED <<seen, local, log, holder>>, faults'.abort >= faults.abort
  PROVE  CompletionInv'
<1>1. log[r] = {} /\ kind[r] \in Kinds \ Updates
  BY DEF FullInv, AnswerInv, Unwritten, Inv, KindInv, InCommand
<1>2. /\ completions' = completions /\ applied' \subseteq applied \cup {r}
      /\ applied \subseteq applied'
  <2>1. CASE Store(r)
    <3>1. Written(r).done = doc.done
      BY <1>1 DEF Written, Updates, FullInv, Inv, TypeOK, Document
    <3> QED BY <2>1, <3>1 DEF Store
  <2>2. CASE UNCHANGED <<applied, completions>>
    BY <2>2
  <2> QED BY <2>1, <2>2
<1>3. Counted' = Counted
  BY <1>1, <1>2 DEF Counted
<1>4. \A q \in Requests : at'[q] = IF q = r THEN p ELSE at[q]
  BY DEF Goto, FullInv, Inv, TypeOK
<1>5. Aborted' \subseteq Aborted
  BY <1>1, <1>2, <1>4 DEF Aborted, SavedBefore
<1>6. \A q \in Requests : at'[q] \in {"save", "commit"} => local'[q].done = seen'[q].done
  BY <1>4 DEF CompletionInv
<1> QED BY <1>2, <1>3, <1>5, <1>6, CountsKept

\* An aborted transaction is counted, and what else fails leaves less to come.
LEMMA FailureCompletions ==
  ASSUME FullInv, FullInv', CompletionInv, NEW r \in Requests,
         Abort(r) \/ CallRejected(r) \/ AnswerLost(r)
  PROVE  CompletionInv'
<1>1. /\ faults'.abort >= faults.abort
      /\ Abort(r) => faults'.abort >= faults.abort + 1
  BY DEF Abort, CallRejected, AnswerLost, Fault, FullInv, Inv, TypeOK, FaultKinds
<1>2. CASE Abort(r) \/ CallRejected(r)
  <2>1. UNCHANGED <<seen, local, applied, completions, log>>
    BY <1>2 DEF Abort, CallRejected, copyVars
  <2>2. \A q \in Requests \ {r} : at'[q] = at[q] /\ (holder = q => holder' = q)
    BY <1>2 DEF Abort, CallRejected, Release, Goto, FullInv, Inv, TypeOK
  <2>3. \/ Abort(r) /\ at[r] = "commit" /\ at'[r] = "save"
        \/ at'[r] = "error"
    BY <1>2 DEF Abort, CallRejected, Goto, FullInv, Inv, TypeOK
  <2>4. Counted' = Counted
    BY <2>1 DEF Counted
  <2>5. /\ Aborted' \subseteq Aborted \cup {r}
        /\ at'[r] = "error" => Aborted' \subseteq Aborted
    BY <2>1, <2>2, <2>3 DEF Aborted, SavedBefore
  <2>6. \A q \in Requests : at'[q] \in {"save", "commit"} => local'[q].done = seen'[q].done
    BY <2>1, <2>2, <2>3 DEF CompletionInv
  <2> QED BY <1>1, <2>1, <2>3, <2>4, <2>5, <2>6, CountsKept
<1>3. CASE AnswerLost(r) /\ at[r] = "commit"
  BY <1>1, <1>3, CommitCompletions DEF AnswerLost
<1>4. CASE AnswerLost(r) /\ at[r] = "write"
  BY <1>1, <1>4, StoreCompletions DEF AnswerLost, copyVars
<1>5. CASE AnswerLost(r) /\ at[r] \in {"activity", "audit"}
  <2>1. /\ UNCHANGED <<seen, local, applied, completions, holder>>
        /\ log' = [log EXCEPT ![r] = @ \cup {at[r]}]
    BY <1>5 DEF AnswerLost, copyVars, storeVars
  <2>2. \A q \in Requests : /\ at'[q] = IF q = r THEN "error" ELSE at[q]
                            /\ "completed" \in log'[q] <=> "completed" \in log[q]
    BY <1>5, <2>1 DEF AnswerLost, Goto, FullInv, Inv, TypeOK
  <2>3. Counted' = Counted
    BY <2>1, <2>2 DEF Counted, FullInv, Inv, TypeOK
  <2>4. Aborted' \subseteq Aborted
    BY <2>1, <2>2 DEF Aborted, SavedBefore
  <2>5. \A q \in Requests : at'[q] \in {"save", "commit"} => local'[q].done = seen'[q].done
    BY <2>1, <2>2 DEF CompletionInv
  <2> QED BY <1>1, <2>1, <2>3, <2>4, <2>5, CountsKept
<1> QED BY <1>2, <1>3, <1>4, <1>5 DEF AnswerLost

\* A process that dies logs nothing and stores nothing.
LEMMA CrashCompletions == ASSUME FullInv, FullInv', CompletionInv, Crash PROVE CompletionInv'
<1>1. PICK S \in SUBSET {r \in Requests : at[r] \in Running} \ {{}} :
        /\ at' = [r \in Requests |-> IF r \in S THEN "error" ELSE at[r]]
        /\ holder' = IF holder \in S THEN None ELSE holder
  BY DEF Crash
<1>2. /\ UNCHANGED <<seen, local, applied, completions, log>>
      /\ faults'.abort >= faults.abort
  BY DEF Crash, Fault, copyVars, FullInv, Inv, TypeOK, FaultKinds
<1>3. Counted' = Counted
  BY <1>2 DEF Counted
<1>4. Aborted' \subseteq Aborted
  BY <1>1, <1>2 DEF Aborted, SavedBefore
<1>5. \A q \in Requests : at'[q] \in {"save", "commit"} => local'[q].done = seen'[q].done
  BY <1>1, <1>2 DEF CompletionInv
<1> QED BY <1>2, <1>3, <1>4, <1>5, CountsKept

\* Every step keeps the counts.
LEMMA CompletionsKept == FullInv /\ FullInv' /\ CompletionInv /\ [Next]_vars => CompletionInv'
<1> SUFFICES ASSUME FullInv, FullInv', CompletionInv, [Next]_vars PROVE CompletionInv'
  OBVIOUS
<1>1. faults.abort \in Nat
  BY DEF FullInv, Inv, TypeOK, FaultKinds
<1>2. ASSUME NEW r \in Requests, Commit(r) PROVE CompletionInv'
  BY <1>1, <1>2, CommitCompletions DEF Commit
<1>3. ASSUME NEW r \in Requests, Write(r) PROVE CompletionInv'
  BY <1>1, <1>3, StoreCompletions DEF Write, copyVars
<1>4. CASE UNCHANGED vars
  BY <1>4 DEF vars, copyVars, storeVars, CompletionInv, Counted, Aborted, SavedBefore
<1> QED
  BY <1>2, <1>3, <1>4, QuietCompletions, FailureCompletions, CrashCompletions DEF Next, Step

\* A new task is not completed, and nothing is logged.
LEMMA CompletionInit == Init => CompletionInv
<1> SUFFICES ASSUME Init PROVE CompletionInv
  OBVIOUS
<1>1. Counted = {} /\ Aborted = {}
  BY DEF Init, Counted, Aborted
<1>2. Cardinality(Counted) = 0 /\ Cardinality(Aborted) = 0
  BY <1>1, FS_EmptySet
<1> QED BY <1>2 DEF Init, CompletionInv, FaultKinds

\* Every change of the status to Done is audited exactly once, and each aborted
\* transaction adds at most one completion to the audit log that did not happen.
THEOREM CompletionsAudited == Spec => []CompletionsLogged
<1>1. FullInv /\ CompletionInv => CompletionsLogged
  <2> SUFFICES ASSUME FullInv, CompletionInv
               PROVE  /\ completions <= Cardinality(Audited)
                      /\ Cardinality(Audited) <= completions + faults.abort
    BY DEF CompletionsLogged, Audited
  <2>1. Counted \subseteq Audited /\ Audited \subseteq Counted \cup Aborted
    BY DEF Counted, Audited, Aborted, FullInv, Inv, TypeOK
  <2>2. Cardinality(Counted) <= Cardinality(Audited)
    BY <2>1, CompletionSets, FS_Subset
  <2>3. /\ IsFiniteSet(Counted \cup Aborted)
        /\ Cardinality(Counted \cup Aborted)
             = Cardinality(Counted) + Cardinality(Aborted) - Cardinality(Counted \cap Aborted)
    BY CompletionSets, FS_Union
  <2>4. Cardinality(Counted \cap Aborted) \in Nat
    <3>1. IsFiniteSet(Counted \cap Aborted)
      BY CompletionSets, FS_Subset
    <3> QED BY <3>1, FS_CardinalityType
  <2>5. Cardinality(Audited) <= Cardinality(Counted \cup Aborted)
    BY <2>1, <2>3, FS_Subset
  <2>6. faults.abort \in Nat
    BY DEF FullInv, Inv, TypeOK, FaultKinds
  <2> QED BY <2>2, <2>3, <2>4, <2>5, <2>6, CompletionSets DEF CompletionInv
<1>2. (FullInv /\ CompletionInv) /\ [Next]_vars => (FullInv /\ CompletionInv)'
  BY CompletionsKept, NextInv, AnswersKept, FilesKept DEF FullInv
<1> QED BY <1>1, <1>2, FullInit, CompletionInit, PTL DEF Spec
===============================================================================
