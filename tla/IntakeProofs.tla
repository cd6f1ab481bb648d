----------------------------- MODULE IntakeProofs -----------------------------
(***************************************************************************)
(* Proofs about what an application is made from, for any number of files, *)
(* shelves, slots, sections, students and requests in flight: its files,   *)
(* documents and submission; the call it answers; the students' profiles   *)
(* and the eligibility signals computed from them.  The three parts are    *)
(* about three specifications and rest on one another nowhere.             *)
(***************************************************************************)
EXTENDS Documents, StudentProfiles, Calls, FiniteSetTheorems, TLAPS

-----------------------------------------------------------------------------
(***************************************************************************)
(* Sets of numbered documents                                              *)
(***************************************************************************)

\* The documents are numbered from 1 to n, without repetition.
Numbered(documents, n) ==
    /\ n \in Nat
    /\ Versions(documents) = 1..n
    /\ \A x, y \in documents : x.version = y.version => x = y

\* Then there are n of them: their version is a bijection to 1..n.
LEMMA NumberedSize ==
    ASSUME NEW documents, NEW n, Numbered(documents, n)
    PROVE  Cardinality(documents) = n
<1> DEFINE f == [v \in 1..n |-> CHOOSE x \in documents : x.version = v]
<1>1. \A v \in 1..n : \E x \in documents : x.version = v
  BY DEF Numbered, Versions
<1>2. \A v \in 1..n : f[v] \in documents /\ f[v].version = v
  BY <1>1
<1>3. \A x \in documents : x.version \in 1..n /\ f[x.version] = x
  BY <1>2 DEF Numbered, Versions
<1> HIDE DEF f
<1>4. f \in [1..n -> documents]
  BY <1>2 DEF f
<1>5. f \in Injection(1..n, documents)
  BY <1>2, <1>4 DEF Injection, IsInjective
<1>6. f \in Surjection(1..n, documents)
  BY <1>3, <1>4 DEF Surjection
<1>7. ExistsBijection(1..n, documents)
  BY <1>5, <1>6 DEF ExistsBijection, Bijection
<1>8. n \in Nat /\ IsFiniteSet(1..n) /\ Cardinality(1..n) = n
  BY FS_Interval DEF Numbered
<1> QED
  BY <1>7, <1>8, FS_Bijection

\* The next number is one more.
LEMMA NextNumber ==
    ASSUME NEW documents, NEW n, Numbered(documents, n)
    PROVE  NextVersion(documents) = n + 1
<1> DEFINE Next1(m) ==
      m \notin Versions(documents) /\ \A v \in Versions(documents) : v < m
<1>1. Cardinality(documents) = n /\ n \in Nat /\ Versions(documents) = 1..n
  BY NumberedSize DEF Numbered
<1>2. n + 1 \in 1..(n + 1) /\ Next1(n + 1)
  BY <1>1
<1>3. \A m \in 1..(n + 1) : Next1(m) => m = n + 1
  BY <1>1
<1> HIDE DEF Next1
<1>4. (CHOOSE m \in 1..(n + 1) : Next1(m)) = n + 1
  BY <1>2, <1>3
<1> QED
  BY <1>1, <1>4 DEF NextVersion, Next1

\* A document with the next number keeps them numbered.
LEMMA Appended ==
    ASSUME NEW documents, NEW n, Numbered(documents, n), NEW d, d.version = n + 1
    PROVE  Numbered(documents \cup {d}, n + 1)
<1>1. Versions(documents \cup {d}) = 1..(n + 1)
  <2>1. Versions(documents \cup {d}) = Versions(documents) \cup {n + 1}
    BY DEF Versions
  <2>2. Versions(documents) = 1..n /\ n \in Nat
    BY DEF Numbered
  <2>3. (1..n) \cup {n + 1} = 1..(n + 1)
    BY <2>2
  <2> QED
    BY <2>1, <2>2, <2>3, Zenon
<1>2. \A x \in documents : x.version # n + 1
  BY DEF Numbered, Versions
<1> QED
  BY <1>1, <1>2 DEF Numbered

\* So does the replacement of the active document of a slot.
LEMMA ReplacedIsNumbered ==
    ASSUME NEW documents, NEW n, Numbered(documents, n), NEW f \in Files,
           documents \subseteq [file : Files, version : Nat, active : BOOLEAN]
    PROVE  /\ Numbered(Replaced(documents, f), n + 1)
           /\ Replaced(documents, f) \subseteq
                 [file : Files, version : Nat, active : BOOLEAN]
           /\ \A x \in Replaced(documents, f) : x.active <=> x.version = n + 1
           /\ \A x \in Replaced(documents, f) :
                 x.file = f \/ \E d \in documents : x.file = d.file
<1> DEFINE old == {[d EXCEPT !.active = FALSE] : d \in documents}
           new == [file |-> f, version |-> n + 1, active |-> TRUE]
<1>1. Replaced(documents, f) = old \cup {new} /\ n \in Nat
  BY NextNumber DEF Replaced, Numbered
<1>2. \A x \in old : \E d \in documents :
         /\ x = [file |-> d.file, version |-> d.version, active |-> FALSE]
         /\ d.version \in 1..n
  BY DEF Numbered, Versions
<1>3. \A d \in documents :
         /\ [d EXCEPT !.active = FALSE].version = d.version
         /\ [d EXCEPT !.active = FALSE] \in old
  OBVIOUS
<1>4. Numbered(old, n)
  <2>1. Versions(old) = Versions(documents)
    <3>1. \A x \in old : \E d \in documents : x.version = d.version
      BY <1>2
    <3>2. \A d \in documents : \E x \in old : x.version = d.version
      BY <1>3
    <3> HIDE DEF old
    <3> QED
      BY <3>1, <3>2 DEF Versions
  <2>2. ASSUME NEW x \in old, NEW y \in old, x.version = y.version PROVE x = y
    <3>1. PICK d \in documents :
             x = [file |-> d.file, version |-> d.version, active |-> FALSE]
      BY <1>2
    <3>2. PICK e \in documents :
             y = [file |-> e.file, version |-> e.version, active |-> FALSE]
      BY <1>2
    <3>3. d.version = e.version
      BY <2>2, <3>1, <3>2
    <3>4. d = e
      BY <3>3 DEF Numbered
    <3> QED
      BY <3>1, <3>2, <3>4
  <2> QED
    BY <2>1, <2>2 DEF Numbered
<1>5. \A x \in old : x.version \in 1..n /\ x.active = FALSE
                     /\ \E d \in documents : x.file = d.file
  BY <1>2
<1>6. old \subseteq [file : Files, version : Nat, active : BOOLEAN]
  BY <1>2
<1>7. new \in [file : Files, version : Nat, active : BOOLEAN]
      /\ new.version = n + 1 /\ new.active = TRUE /\ new.file = f
  BY <1>1
<1> HIDE DEF old, new
<1>8. Numbered(old \cup {new}, n + 1)
  BY <1>4, <1>7, Appended
<1> QED
  BY <1>1, <1>5, <1>6, <1>7, <1>8

-----------------------------------------------------------------------------
(***************************************************************************)
(* The inductive invariant                                                 *)
(***************************************************************************)
ShelvesAreNumbered == \A s \in Shelves : \E n : Numbered(shelf[s], n)

\* The newest document of a slot is active; a slot holds uploaded files.
SlotsAreNumbered ==
    \A d \in Slots :
        /\ \E n : /\ Numbered(slot[d], n)
                  /\ \A x \in slot[d] : x.active <=> x.version = n
        /\ \A x \in slot[d] : upload[x.file] = "UPLOADED"

UploadsAreStored == \A f \in Files : upload[f] = "UPLOADED" => stored[f]

\* What a request carries is still true when it writes: the documents it saw
\* are still there, nobody else creates its file, and what it counted stays.
InFlight(r) ==
    LET q == request[r] IN
    /\ q.doing \in {"number", "insert"} =>
          /\ q.place \in Shelves /\ q.file \in Files
          /\ q.place \in Owned =>
                /\ upload[q.file] = "NONE"
                /\ \A p \in Requests \ {r} : request[p].file # q.file
    /\ q.doing = "insert" =>
          q.seen \subseteq shelf[q.place] /\ \E n : Numbered(q.seen, n)
    /\ q.doing = "attach" =>
          q.place \in Slots /\ q.file \in Files /\ upload[q.file] = "UPLOADED"
    /\ q.doing = "section" => q.place \in Keys
    /\ q.doing = "submit" =>
          /\ \A k \in Keys : history[k] # {}
          /\ q.seen \subseteq Slots
          /\ \A d \in q.seen : ActiveIn(d) # {}

RequestsAreInFlight == \A r \in Requests : InFlight(r)

SectionsAreOnRecord == \A k \in Keys : section[k].active \in history[k] \cup {0}

SubmissionCounts ==
    status = "SUBMITTED" => /\ \A k \in Keys : history[k] # {}
                            /\ \A d \in counted : ActiveIn(d) # {}

IInv ==
    /\ TypeOK
    /\ ShelvesAreNumbered
    /\ SlotsAreNumbered
    /\ UploadsAreStored
    /\ RequestsAreInFlight
    /\ SectionsAreOnRecord
    /\ SubmissionCounts

USE OwnedAreShelves, NoneIsNoFile DEF Step, Idle, Starts, Ends

LEMMA NothingIsNumbered == Numbered({}, 0)
  BY DEF Numbered, Versions

\* No file, no document, no request.
LEMMA InitHolds == Init => IInv
<1> SUFFICES ASSUME Init PROVE IInv
  OBVIOUS
<1> USE DEF Init
<1>1. TypeOK
  BY DEF TypeOK
<1>2. ShelvesAreNumbered /\ SlotsAreNumbered
  BY NothingIsNumbered DEF ShelvesAreNumbered, SlotsAreNumbered
<1>3. UploadsAreStored /\ RequestsAreInFlight
  BY DEF UploadsAreStored, RequestsAreInFlight, InFlight
<1>4. SectionsAreOnRecord /\ SubmissionCounts
  BY DEF SectionsAreOnRecord, SubmissionCounts
<1> QED
  BY <1>1, <1>2, <1>3, <1>4 DEF IInv

-----------------------------------------------------------------------------
\* No step stores a value of another type.
LEMMA TypeStep == ASSUME IInv, [Next]_vars PROVE TypeOK'
<1> USE DEF IInv, TypeOK, fileVars, applicationVars
<1>1. ASSUME NEW f \in Files, FileNext(f) PROVE TypeOK'
  <2>1. ASSUME RequestUpload(f) PROVE TypeOK'
    BY <2>1 DEF RequestUpload
  <2>2. ASSUME PutObject(f) PROVE TypeOK'
    BY <2>2 DEF PutObject
  <2>3. ASSUME UrlExpires(f) PROVE TypeOK'
    BY <2>3 DEF UrlExpires
  <2>4. ASSUME CompleteUpload(f) \/ CompleteOwnedUpload(f) PROVE TypeOK'
    BY <2>4 DEF CompleteUpload, CompleteOwnedUpload
  <2> QED
    BY <1>1, <2>1, <2>2, <2>3, <2>4, Zenon DEF FileNext
<1>2. ASSUME NEW r \in Requests, Starting(r) PROVE TypeOK'
  <2>1. ASSUME NEW s \in Shelves, NEW f \in Files, CreateDocument(r, s, f)
        PROVE  TypeOK'
    BY <2>1 DEF CreateDocument
  <2>2. ASSUME NEW s \in Shelves, NEW f \in Files, CreateOwnedDocument(r, s, f)
        PROVE  TypeOK'
    BY <2>2 DEF CreateOwnedDocument
  <2>3. ASSUME NEW d \in Slots, NEW f \in Files, AttachReads(r, d, f) PROVE TypeOK'
    BY <2>3 DEF AttachReads
  <2>4. ASSUME NEW k \in Keys, SectionReads(r, k) PROVE TypeOK'
    BY <2>4 DEF SectionReads
  <2>5. ASSUME SubmitReads(r) PROVE TypeOK'
    BY <2>5 DEF SubmitReads
  <2> QED
    BY <1>2, <2>1, <2>2, <2>3, <2>4, <2>5, Zenon DEF Starting
<1>3. ASSUME NEW r \in Requests, Continuing(r) PROVE TypeOK'
  <2>1. ASSUME NumberReads(r) PROVE TypeOK'
    <3>1. request[r].place \in Shelves
      BY <2>1 DEF NumberReads, RequestsAreInFlight, InFlight
    <3>2. shelf[request[r].place] \in SUBSET [file : Files, version : Nat]
      BY <3>1
    <3>3. request' = [request EXCEPT ![r] = [request[r] EXCEPT !.doing = "insert",
                                                   !.seen = shelf[request[r].place]]]
      BY <2>1 DEF NumberReads
    <3> QED
      BY <2>1, <3>2, <3>3 DEF NumberReads
  <2>2. ASSUME NumberInserts(r) PROVE TypeOK'
    <3> DEFINE s == request[r].place
               f == request[r].file
               n == NextVersion(request[r].seen)
    <3>1. s \in Shelves /\ f \in Files
      BY <2>2 DEF NumberInserts, RequestsAreInFlight, InFlight
    <3>2. n \in Nat
      <4>1. PICK m : Numbered(request[r].seen, m)
        BY <2>2 DEF NumberInserts, RequestsAreInFlight, InFlight
      <4>2. m \in Nat
        BY <4>1 DEF Numbered
      <4>3. n = m + 1
        BY <4>1, NextNumber
      <4> QED
        BY <4>2, <4>3
    <3>3. shelf' = [shelf EXCEPT ![s] = @ \cup {[file |-> f, version |-> n]}]
      BY <2>2 DEF NumberInserts
    <3> HIDE DEF n
    <3>4. shelf' \in [Shelves -> SUBSET [file : Files, version : Nat]]
      BY <3>1, <3>2, <3>3
    <3> QED
      BY <2>2, <3>1, <3>4 DEF NumberInserts
  <2>3. ASSUME NumberTaken(r) PROVE TypeOK'
    <3>1. CASE RetriesLeft(r)
      <4>1. request' = [request EXCEPT ![r] = [request[r] EXCEPT !.doing = "number",
                                          !.seen = {}, !.tries = request[r].tries + 1]]
        BY <2>3, <3>1 DEF NumberTaken
      <4> QED
        BY <2>3, <4>1 DEF NumberTaken
    <3>2. CASE ~RetriesLeft(r)
      <4>1. request' = [request EXCEPT ![r] = Idle]
        BY <2>3, <3>2 DEF NumberTaken
      <4> QED
        BY <2>3, <4>1 DEF NumberTaken
    <3> QED
      BY <3>1, <3>2
  <2>4. ASSUME AttachWrites(r) PROVE TypeOK'
    <3> DEFINE d == request[r].place
    <3>1. d \in Slots /\ request[r].file \in Files
      BY <2>4 DEF AttachWrites, RequestsAreInFlight, InFlight
    <3>2. Replaced(slot[d], request[r].file) \subseteq
             [file : Files, version : Nat, active : BOOLEAN]
      BY <3>1, ReplacedIsNumbered DEF SlotsAreNumbered
    <3> QED
      BY <2>4, <3>1, <3>2 DEF AttachWrites
  <2>5. ASSUME SectionWrites(r) PROVE TypeOK'
    BY <2>5 DEF SectionWrites, RequestsAreInFlight, InFlight
  <2>6. ASSUME SubmitWrites(r) PROVE TypeOK'
    BY <2>6 DEF SubmitWrites, RequestsAreInFlight, InFlight
  <2>7. ASSUME Aborts(r) PROVE TypeOK'
    BY <2>7 DEF Aborts
  <2> QED
    BY <1>3, <2>1, <2>2, <2>3, <2>4, <2>5, <2>6, <2>7, Zenon DEF Continuing
<1>4. ASSUME NEW k \in Keys, NEW n \in 0..MaxVersion, SetActiveVersion(k, n)
      PROVE  TypeOK'
  BY <1>4 DEF SetActiveVersion
<1>5. ASSUME NEW needed \in SUBSET Slots, RequirementsChange(needed)
      PROVE  TypeOK'
  BY <1>5 DEF RequirementsChange
<1>6. ASSUME UNCHANGED vars PROVE TypeOK'
  BY <1>6 DEF vars
<1> QED
  BY <1>1, <1>2, <1>3, <1>4, <1>5, <1>6, Zenon DEF Next

\* A number that is still free is the next one: the documents seen are all there
\* are, whatever other transactions did meanwhile.
LEMMA ShelvesStep == ASSUME IInv, [Next]_vars PROVE ShelvesAreNumbered'
<1> USE DEF IInv, ShelvesAreNumbered, fileVars, applicationVars
<1>1. ASSUME NEW f \in Files, FileNext(f) PROVE ShelvesAreNumbered'
  <2>1. ASSUME RequestUpload(f) PROVE ShelvesAreNumbered'
    BY <2>1 DEF RequestUpload
  <2>2. ASSUME PutObject(f) PROVE ShelvesAreNumbered'
    BY <2>2 DEF PutObject
  <2>3. ASSUME UrlExpires(f) PROVE ShelvesAreNumbered'
    BY <2>3 DEF UrlExpires
  <2>4. ASSUME CompleteUpload(f) \/ CompleteOwnedUpload(f) PROVE ShelvesAreNumbered'
    BY <2>4 DEF CompleteUpload, CompleteOwnedUpload
  <2> QED
    BY <1>1, <2>1, <2>2, <2>3, <2>4, Zenon DEF FileNext
<1>2. ASSUME NEW r \in Requests, Starting(r) PROVE ShelvesAreNumbered'
  <2>1. ASSUME NEW s \in Shelves, NEW f \in Files, CreateDocument(r, s, f)
        PROVE  ShelvesAreNumbered'
    BY <2>1 DEF CreateDocument
  <2>2. ASSUME NEW s \in Shelves, NEW f \in Files, CreateOwnedDocument(r, s, f)
        PROVE  ShelvesAreNumbered'
    BY <2>2 DEF CreateOwnedDocument
  <2>3. ASSUME NEW d \in Slots, NEW f \in Files, AttachReads(r, d, f)
        PROVE  ShelvesAreNumbered'
    BY <2>3 DEF AttachReads
  <2>4. ASSUME NEW k \in Keys, SectionReads(r, k) PROVE ShelvesAreNumbered'
    BY <2>4 DEF SectionReads
  <2>5. ASSUME SubmitReads(r) PROVE ShelvesAreNumbered'
    BY <2>5 DEF SubmitReads
  <2> QED
    BY <1>2, <2>1, <2>2, <2>3, <2>4, <2>5, Zenon DEF Starting
<1>3. ASSUME NEW r \in Requests, Continuing(r) PROVE ShelvesAreNumbered'
  <2>1. ASSUME NumberReads(r) PROVE ShelvesAreNumbered'
    BY <2>1 DEF NumberReads
  <2>2. ASSUME NumberInserts(r) PROVE ShelvesAreNumbered'
    <3> DEFINE s == request[r].place
               q == request[r]
               n == NextVersion(q.seen)
               d == [file |-> q.file, version |-> n]
    <3>1. s \in Shelves /\ q.seen \subseteq shelf[s]
      BY <2>2 DEF NumberInserts, RequestsAreInFlight, InFlight
    <3>2. PICK m : Numbered(q.seen, m)
      BY <2>2 DEF NumberInserts, RequestsAreInFlight, InFlight
    <3>3. PICK l : Numbered(shelf[s], l)
      BY <3>1
    <3>4. n = m + 1 /\ m \in Nat /\ l \in Nat
      BY <3>2, <3>3, NextNumber DEF Numbered
    <3>5. 1..m \subseteq 1..l /\ m + 1 \notin 1..l
      <4>1. Versions(q.seen) \subseteq Versions(shelf[s])
        BY <3>1 DEF Versions
      <4> QED
        BY <2>2, <3>2, <3>3, <3>4, <4>1 DEF NumberInserts, Numbered
    <3>6. m = l
      BY <3>4, <3>5
    <3>7. Numbered(shelf[s] \cup {d}, l + 1)
      BY <3>3, <3>4, <3>6, Appended
    <3>8. shelf' = [shelf EXCEPT ![s] = @ \cup {d}]
      BY <2>2 DEF NumberInserts
    <3> HIDE DEF d
    <3> QED
      BY <3>1, <3>7, <3>8 DEF TypeOK
  <2>3. ASSUME NumberTaken(r) PROVE ShelvesAreNumbered'
    BY <2>3 DEF NumberTaken
  <2>4. ASSUME AttachWrites(r) PROVE ShelvesAreNumbered'
    BY <2>4 DEF AttachWrites
  <2>5. ASSUME SectionWrites(r) PROVE ShelvesAreNumbered'
    BY <2>5 DEF SectionWrites
  <2>6. ASSUME SubmitWrites(r) PROVE ShelvesAreNumbered'
    BY <2>6 DEF SubmitWrites
  <2>7. ASSUME Aborts(r) PROVE ShelvesAreNumbered'
    BY <2>7 DEF Aborts
  <2> QED
    BY <1>3, <2>1, <2>2, <2>3, <2>4, <2>5, <2>6, <2>7, Zenon DEF Continuing
<1>4. ASSUME NEW k \in Keys, NEW n \in 0..MaxVersion, SetActiveVersion(k, n)
      PROVE  ShelvesAreNumbered'
  BY <1>4 DEF SetActiveVersion
<1>5. ASSUME NEW needed \in SUBSET Slots, RequirementsChange(needed)
      PROVE  ShelvesAreNumbered'
  BY <1>5 DEF RequirementsChange
<1>6. ASSUME UNCHANGED vars PROVE ShelvesAreNumbered'
  BY <1>6 DEF vars
<1> QED
  BY <1>1, <1>2, <1>3, <1>4, <1>5, <1>6, Zenon DEF Next

\* A transaction attaches to the slot it read; a file that is attached stays.
LEMMA SlotsStep == ASSUME IInv, [Next]_vars PROVE SlotsAreNumbered'
<1> USE DEF IInv, SlotsAreNumbered, fileVars, applicationVars
<1>1. ASSUME NEW f \in Files, FileNext(f) PROVE SlotsAreNumbered'
  <2>1. ASSUME RequestUpload(f) PROVE SlotsAreNumbered'
    <3>1. \A g \in Files : upload[g] = "UPLOADED" => upload'[g] = "UPLOADED"
      BY <2>1 DEF RequestUpload, TypeOK, Untouched
    <3>2. slot' = slot
      BY <2>1 DEF RequestUpload
    <3> QED
      BY <3>1, <3>2 DEF TypeOK
  <2>2. ASSUME PutObject(f) PROVE SlotsAreNumbered'
    BY <2>2 DEF PutObject
  <2>3. ASSUME UrlExpires(f) PROVE SlotsAreNumbered'
    <3>1. \A g \in Files : upload[g] = "UPLOADED" => upload'[g] = "UPLOADED"
      BY <2>3 DEF UrlExpires, TypeOK
    <3>2. slot' = slot
      BY <2>3 DEF UrlExpires
    <3> QED
      BY <3>1, <3>2 DEF TypeOK
  <2>4. ASSUME CompleteUpload(f) \/ CompleteOwnedUpload(f) PROVE SlotsAreNumbered'
    <3>1. \A g \in Files : upload[g] = "UPLOADED" => upload'[g] = "UPLOADED"
      BY <2>4 DEF CompleteUpload, CompleteOwnedUpload, TypeOK
    <3>2. slot' = slot
      BY <2>4 DEF CompleteUpload, CompleteOwnedUpload
    <3> QED
      BY <3>1, <3>2 DEF TypeOK
  <2> QED
    BY <1>1, <2>1, <2>2, <2>3, <2>4, Zenon DEF FileNext
<1>2. ASSUME NEW r \in Requests, Starting(r) PROVE SlotsAreNumbered'
  <2>1. ASSUME NEW s \in Shelves, NEW f \in Files, CreateDocument(r, s, f)
        PROVE  SlotsAreNumbered'
    <3>1. \A g \in Files : upload[g] = "UPLOADED" => upload'[g] = "UPLOADED"
      BY <2>1 DEF CreateDocument, TypeOK, Untouched
    <3>2. slot' = slot
      BY <2>1 DEF CreateDocument
    <3> QED
      BY <3>1, <3>2 DEF TypeOK
  <2>2. ASSUME NEW s \in Shelves, NEW f \in Files, CreateOwnedDocument(r, s, f)
        PROVE  SlotsAreNumbered'
    BY <2>2 DEF CreateOwnedDocument
  <2>3. ASSUME NEW d \in Slots, NEW f \in Files, AttachReads(r, d, f)
        PROVE  SlotsAreNumbered'
    BY <2>3 DEF AttachReads
  <2>4. ASSUME NEW k \in Keys, SectionReads(r, k) PROVE SlotsAreNumbered'
    BY <2>4 DEF SectionReads
  <2>5. ASSUME SubmitReads(r) PROVE SlotsAreNumbered'
    BY <2>5 DEF SubmitReads
  <2> QED
    BY <1>2, <2>1, <2>2, <2>3, <2>4, <2>5, Zenon DEF Starting
<1>3. ASSUME NEW r \in Requests, Continuing(r) PROVE SlotsAreNumbered'
  <2>1. ASSUME NumberReads(r) PROVE SlotsAreNumbered'
    BY <2>1 DEF NumberReads
  <2>2. ASSUME NumberInserts(r) PROVE SlotsAreNumbered'
    <3>1. \A f \in Files : upload[f] = "UPLOADED" => upload'[f] = "UPLOADED"
      BY <2>2 DEF NumberInserts, TypeOK, RequestsAreInFlight, InFlight
    <3>2. slot' = slot
      BY <2>2 DEF NumberInserts
    <3> QED
      BY <3>1, <3>2 DEF TypeOK
  <2>3. ASSUME NumberTaken(r) PROVE SlotsAreNumbered'
    BY <2>3 DEF NumberTaken
  <2>4. ASSUME AttachWrites(r) PROVE SlotsAreNumbered'
    <3> DEFINE d == request[r].place
               f == request[r].file
    <3>1. d \in Slots /\ f \in Files /\ upload[f] = "UPLOADED"
      BY <2>4 DEF AttachWrites, RequestsAreInFlight, InFlight
    <3>2. PICK n : Numbered(slot[d], n)
      BY <3>1
    <3>3. /\ Numbered(Replaced(slot[d], f), n + 1)
          /\ \A x \in Replaced(slot[d], f) : x.active <=> x.version = n + 1
          /\ \A x \in Replaced(slot[d], f) : x.file = f \/ \E y \in slot[d] : x.file = y.file
      BY <3>1, <3>2, ReplacedIsNumbered DEF TypeOK
    <3>4. slot' = [slot EXCEPT ![d] = Replaced(@, f)] /\ upload' = upload
      BY <2>4 DEF AttachWrites
    <3>5. slot'[d] = Replaced(slot[d], f) /\ \A e \in Slots \ {d} : slot'[e] = slot[e]
      BY <3>1, <3>4 DEF TypeOK
    <3>6. \A x \in slot'[d] : upload'[x.file] = "UPLOADED"
      BY <3>1, <3>3, <3>4, <3>5
    <3> QED
      BY <3>3, <3>4, <3>5, <3>6
  <2>5. ASSUME SectionWrites(r) PROVE SlotsAreNumbered'
    BY <2>5 DEF SectionWrites
  <2>6. ASSUME SubmitWrites(r) PROVE SlotsAreNumbered'
    BY <2>6 DEF SubmitWrites
  <2>7. ASSUME Aborts(r) PROVE SlotsAreNumbered'
    BY <2>7 DEF Aborts
  <2> QED
    BY <1>3, <2>1, <2>2, <2>3, <2>4, <2>5, <2>6, <2>7, Zenon DEF Continuing
<1>4. ASSUME NEW k \in Keys, NEW n \in 0..MaxVersion, SetActiveVersion(k, n)
      PROVE  SlotsAreNumbered'
  BY <1>4 DEF SetActiveVersion
<1>5. ASSUME NEW needed \in SUBSET Slots, RequirementsChange(needed)
      PROVE  SlotsAreNumbered'
  BY <1>5 DEF RequirementsChange
<1>6. ASSUME UNCHANGED vars PROVE SlotsAreNumbered'
  BY <1>6 DEF vars
<1> QED
  BY <1>1, <1>2, <1>3, <1>4, <1>5, <1>6, Zenon DEF Next

\* What requests rely on is only added to, and a file of theirs is left alone.
LEMMA RequestsStep == ASSUME IInv, [Next]_vars PROVE RequestsAreInFlight'
<1> USE DEF IInv, TypeOK, RequestsAreInFlight, InFlight, ActiveIn, fileVars,
            applicationVars
<1>1. ASSUME NEW f \in Files, FileNext(f) PROVE RequestsAreInFlight'
  <2>1. ASSUME RequestUpload(f) PROVE RequestsAreInFlight'
    BY <2>1 DEF RequestUpload, Untouched
  <2>2. ASSUME PutObject(f) PROVE RequestsAreInFlight'
    BY <2>2 DEF PutObject
  <2>3. ASSUME UrlExpires(f) PROVE RequestsAreInFlight'
    BY <2>3 DEF UrlExpires
  <2>4. ASSUME CompleteUpload(f) \/ CompleteOwnedUpload(f) PROVE RequestsAreInFlight'
    BY <2>4 DEF CompleteUpload, CompleteOwnedUpload
  <2> QED
    BY <1>1, <2>1, <2>2, <2>3, <2>4, Zenon DEF FileNext
<1>2. ASSUME NEW r \in Requests, Starting(r) PROVE RequestsAreInFlight'
  <2>1. ASSUME NEW s \in Shelves, NEW f \in Files, CreateDocument(r, s, f)
        PROVE  RequestsAreInFlight'
    BY <2>1 DEF CreateDocument, Untouched
  <2>2. ASSUME NEW s \in Shelves, NEW f \in Files, CreateOwnedDocument(r, s, f)
        PROVE  RequestsAreInFlight'
    BY <2>2 DEF CreateOwnedDocument, Untouched
  <2>3. ASSUME NEW d \in Slots, NEW f \in Files, AttachReads(r, d, f)
        PROVE  RequestsAreInFlight'
    BY <2>3 DEF AttachReads, Attachable
  <2>4. ASSUME NEW k \in Keys, SectionReads(r, k) PROVE RequestsAreInFlight'
    BY <2>4 DEF SectionReads
  <2>5. ASSUME SubmitReads(r) PROVE RequestsAreInFlight'
    BY <2>5 DEF SubmitReads, Complete, SectionsAreOnRecord
  <2> QED
    BY <1>2, <2>1, <2>2, <2>3, <2>4, <2>5, Zenon DEF Starting
<1>3. ASSUME NEW r \in Requests, Continuing(r) PROVE RequestsAreInFlight'
  <2>1. ASSUME NumberReads(r) PROVE RequestsAreInFlight'
    BY <2>1 DEF NumberReads, ShelvesAreNumbered
  <2>2. ASSUME NumberInserts(r) PROVE RequestsAreInFlight'
    BY <2>2 DEF NumberInserts
  <2>3. ASSUME NumberTaken(r) PROVE RequestsAreInFlight'
    <3>1. /\ \/ request' = [request EXCEPT ![r] = Idle]
             \/ request' = [request EXCEPT ![r] = [request[r] EXCEPT !.doing = "number",
                                            !.seen = {}, !.tries = request[r].tries + 1]]
          /\ UNCHANGED <<fileVars, shelf, applicationVars>>
          /\ request[r].doing = "insert"
      BY <2>3 DEF NumberTaken
    <3>2. CASE request' = [request EXCEPT ![r] = Idle]
      BY <3>1, <3>2
    <3>3. CASE request' = [request EXCEPT ![r] = [request[r] EXCEPT !.doing = "number",
                                            !.seen = {}, !.tries = request[r].tries + 1]]
      BY <3>1, <3>3
    <3> QED
      BY <3>1, <3>2, <3>3
  <2>4. ASSUME AttachWrites(r) PROVE RequestsAreInFlight'
    <3> DEFINE d == request[r].place
               f == request[r].file
               x == [file |-> f, version |-> NextVersion(slot[d]), active |-> TRUE]
    <3>1. d \in Slots
      BY <2>4 DEF AttachWrites, RequestsAreInFlight, InFlight
    <3>2. x \in Replaced(slot[d], f) /\ x.active
      BY DEF Replaced
    <3>3. slot' = [slot EXCEPT ![d] = Replaced(slot[d], f)]
      BY <2>4 DEF AttachWrites
    <3> HIDE DEF x
    <3>4. \E y \in slot'[d] : y.active
      BY <3>1, <3>2, <3>3
    <3>5. \A e \in Slots : ActiveIn(e) # {} => \E y \in slot'[e] : y.active
      BY <3>1, <3>3, <3>4
    <3> QED
      BY <2>4, <3>4, <3>5 DEF AttachWrites
  <2>5. ASSUME SectionWrites(r) PROVE RequestsAreInFlight'
    BY <2>5 DEF SectionWrites
  <2>6. ASSUME SubmitWrites(r) PROVE RequestsAreInFlight'
    BY <2>6 DEF SubmitWrites
  <2>7. ASSUME Aborts(r) PROVE RequestsAreInFlight'
    BY <2>7 DEF Aborts
  <2> QED
    BY <1>3, <2>1, <2>2, <2>3, <2>4, <2>5, <2>6, <2>7, Zenon DEF Continuing
<1>4. ASSUME NEW k \in Keys, NEW n \in 0..MaxVersion, SetActiveVersion(k, n)
      PROVE  RequestsAreInFlight'
  BY <1>4 DEF SetActiveVersion
<1>5. ASSUME NEW needed \in SUBSET Slots, RequirementsChange(needed)
      PROVE  RequestsAreInFlight'
  BY <1>5 DEF RequirementsChange
<1>6. ASSUME UNCHANGED vars PROVE RequestsAreInFlight'
  BY <1>6 DEF vars
<1> QED
  BY <1>1, <1>2, <1>3, <1>4, <1>5, <1>6, Zenon DEF Next

\* An application is submitted with what was counted, and nothing of it is lost.
LEMMA SubmissionStep ==
    ASSUME IInv, [Next]_vars
    PROVE  UploadsAreStored' /\ SectionsAreOnRecord' /\ SubmissionCounts'
<1> DEFINE Goal == UploadsAreStored' /\ SectionsAreOnRecord' /\ SubmissionCounts'
<1> USE DEF IInv, TypeOK, UploadsAreStored, SectionsAreOnRecord, SubmissionCounts,
            ActiveIn, fileVars, applicationVars
<1>1. ASSUME NEW f \in Files, FileNext(f) PROVE Goal
  <2>1. ASSUME RequestUpload(f) PROVE Goal
    BY <2>1 DEF RequestUpload
  <2>2. ASSUME PutObject(f) PROVE Goal
    BY <2>2 DEF PutObject
  <2>3. ASSUME UrlExpires(f) PROVE Goal
    BY <2>3 DEF UrlExpires
  <2>4. ASSUME CompleteUpload(f) \/ CompleteOwnedUpload(f) PROVE Goal
    BY <2>4 DEF CompleteUpload, CompleteOwnedUpload
  <2> QED
    BY <1>1, <2>1, <2>2, <2>3, <2>4, Zenon DEF FileNext
<1>2. ASSUME NEW r \in Requests, Starting(r) PROVE Goal
  <2>1. ASSUME NEW s \in Shelves, NEW f \in Files, CreateDocument(r, s, f) PROVE Goal
    BY <2>1 DEF CreateDocument
  <2>2. ASSUME NEW s \in Shelves, NEW f \in Files, CreateOwnedDocument(r, s, f)
        PROVE  Goal
    BY <2>2 DEF CreateOwnedDocument
  <2>3. ASSUME NEW d \in Slots, NEW f \in Files, AttachReads(r, d, f) PROVE Goal
    BY <2>3 DEF AttachReads
  <2>4. ASSUME NEW k \in Keys, SectionReads(r, k) PROVE Goal
    BY <2>4 DEF SectionReads
  <2>5. ASSUME SubmitReads(r) PROVE Goal
    BY <2>5 DEF SubmitReads
  <2> QED
    BY <1>2, <2>1, <2>2, <2>3, <2>4, <2>5, Zenon DEF Starting
<1>3. ASSUME NEW r \in Requests, Continuing(r) PROVE Goal
  <2>1. ASSUME NumberReads(r) PROVE Goal
    BY <2>1 DEF NumberReads
  <2>2. ASSUME NumberInserts(r) PROVE Goal
    BY <2>2 DEF NumberInserts, RequestsAreInFlight, InFlight
  <2>3. ASSUME NumberTaken(r) PROVE Goal
    BY <2>3 DEF NumberTaken
  <2>4. ASSUME AttachWrites(r) PROVE Goal
    <3> DEFINE d == request[r].place
               f == request[r].file
               x == [file |-> f, version |-> NextVersion(slot[d]), active |-> TRUE]
    <3>1. d \in Slots
      BY <2>4 DEF AttachWrites, RequestsAreInFlight, InFlight
    <3>2. x \in Replaced(slot[d], f) /\ x.active
      BY DEF Replaced
    <3>3. slot' = [slot EXCEPT ![d] = Replaced(slot[d], f)]
      BY <2>4 DEF AttachWrites
    <3> HIDE DEF x
    <3>4. \E y \in slot'[d] : y.active
      BY <3>1, <3>2, <3>3
    <3>5. \A e \in Slots : ActiveIn(e) # {} => \E y \in slot'[e] : y.active
      BY <3>1, <3>3, <3>4
    <3> QED
      BY <2>4, <3>4, <3>5 DEF AttachWrites
  <2>5. ASSUME SectionWrites(r) PROVE Goal
    BY <2>5 DEF SectionWrites, RequestsAreInFlight, InFlight
  <2>6. ASSUME SubmitWrites(r) PROVE Goal
    BY <2>6 DEF SubmitWrites, RequestsAreInFlight, InFlight
  <2>7. ASSUME Aborts(r) PROVE Goal
    BY <2>7 DEF Aborts
  <2> QED
    BY <1>3, <2>1, <2>2, <2>3, <2>4, <2>5, <2>6, <2>7, Zenon DEF Continuing
<1>4. ASSUME NEW k \in Keys, NEW n \in 0..MaxVersion, SetActiveVersion(k, n)
      PROVE  Goal
  BY <1>4 DEF SetActiveVersion
<1>5. ASSUME NEW needed \in SUBSET Slots, RequirementsChange(needed)
      PROVE  Goal
  BY <1>5 DEF RequirementsChange
<1>6. ASSUME UNCHANGED vars PROVE Goal
  BY <1>6 DEF vars
<1> QED
  BY <1>1, <1>2, <1>3, <1>4, <1>5, <1>6, Zenon DEF Next

\* The inductive invariant.
LEMMA IInvHolds == Spec => []IInv
<1>1. IInv /\ [Next]_vars => IInv'
  BY TypeStep, ShelvesStep, SlotsStep, RequestsStep, SubmissionStep, Zenon DEF IInv
<1> QED
  BY InitHolds, <1>1, PTL DEF Spec

\* The columns keep their types.
THEOREM TypesHold == Spec => []TypeOK
<1>1. IInv => TypeOK
  BY DEF IInv
<1> QED
  BY IInvHolds, <1>1, PTL

\* A submitted application has its sections and the documents counted for it.
THEOREM SubmissionsAreComplete == Spec => []SubmittedIsComplete
<1>1. IInv => SubmittedIsComplete
  BY DEF IInv, TypeOK, SubmittedIsComplete, SubmissionCounts, SectionsAreOnRecord,
         SlotsAreNumbered, UploadsAreStored, ActiveIn
<1> QED
  BY IInvHolds, <1>1, PTL

\* Of the documents of a slot the newest is active and no other.
THEOREM NewestStaysActive == Spec => []NewestIsActive
<1>1. IInv => NewestIsActive
  <2>1. ASSUME IInv, NEW d \in Slots
        PROVE  /\ Versions(slot[d]) = 1..Cardinality(slot[d])
               /\ \A x \in slot[d] : x.active <=> x.version = Cardinality(slot[d])
    <3>1. PICK n : /\ Numbered(slot[d], n)
                   /\ \A x \in slot[d] : x.active <=> x.version = n
      BY <2>1 DEF IInv, SlotsAreNumbered
    <3>2. Cardinality(slot[d]) = n
      BY <3>1, NumberedSize
    <3> QED
      BY <3>1, <3>2 DEF Numbered
  <2> QED
    BY <2>1 DEF NewestIsActive
<1> QED
  BY IInvHolds, <1>1, PTL

\* The documents of a shelf are numbered without gaps and without repetition.
THEOREM NumbersHaveNoGaps == Spec => []NumberedInOrder
<1>1. IInv => NumberedInOrder
  <2>1. ASSUME IInv, NEW s \in Shelves
        PROVE  Versions(shelf[s]) = 1..Cardinality(shelf[s])
    <3>1. PICK n : Numbered(shelf[s], n)
      BY <2>1 DEF IInv, ShelvesAreNumbered
    <3>2. Cardinality(shelf[s]) = n
      BY <3>1, NumberedSize
    <3> QED
      BY <3>1, <3>2 DEF Numbered
  <2> QED
    BY <2>1 DEF NumberedInOrder
<1> QED
  BY IInvHolds, <1>1, PTL

-----------------------------------------------------------------------------
(***************************************************************************)
(* The call                                                                *)
(***************************************************************************)
Call == [status : CallStatus, type : ProgramType, opens : Dates \cup {Unset},
         closes : Dates \cup {Unset}, documents : SUBSET DocumentTypes]

\* What an update means to write: the documents only when they may change.
Update == [status : CallStatus, type : ProgramType, opens : Dates \cup {Unset},
           closes : Dates \cup {Unset}, documents : {Unset} \cup SUBSET DocumentTypes]

\* The call c after the update "next" is written over it.
Updated(c, next) ==
    [status |-> c.status, type |-> next.type, opens |-> next.opens, closes |-> next.closes,
     documents |-> IF next.documents = Unset THEN c.documents ELSE next.documents]

\* What publishing asks for, of a call c.
Sound(c) ==
    /\ c.status = "OPEN" => Openable(c)
    /\ c.type = "PROGRAM_B" => c.documents = {}

\* What a handler decided on the call it read, and what it has to be sound if
\* it is to write over that very call.
HandlerIsEntitled(h) ==
    /\ h.doing \in Writing
    /\ h.read \in Call
    /\ h.doing = "update" => /\ h.next \in Update
                             /\ Ordered(h.next.opens, h.next.closes)
                             /\ Sound(h.read) => Sound(Updated(h.read, h.next))
    /\ h.doing = "OPEN" => Openable(h.read)

CallInv ==
    /\ CallTypeOK
    /\ handler = [r \in Handlers |-> handler[r]]
    /\ \A r \in Handlers : handler[r] # AtRest => HandlerIsEntitled(handler[r])
    /\ CallIsSound

USE UnsetIsNoValue DEF CallStatus, ProgramType, Dates, Writing, AtRest

\* A draft as createCall leaves it is sound.
LEMMA CallInitSound == CallInit => CallInv
<1> SUFFICES ASSUME CallInit PROVE CallInv
  OBVIOUS
<1>1. CallTypeOK /\ CallIsSound
  BY DEF CallInit, CallTypeOK, CallIsSound
<1>2. handler = [r \in Handlers |-> handler[r]] /\ \A r \in Handlers : handler[r] = AtRest
  BY DEF CallInit
<1> QED
  BY <1>1, <1>2 DEF CallInv

\* What updateCall lets through is sound where the call it read is.
LEMMA UpdateIsSound ==
    ASSUME CallInv, NEW r \in Handlers, NEW type \in ProgramType,
           NEW opens \in Dates \cup {Unset}, NEW closes \in Dates \cup {Unset},
           NEW documents \in {Unset} \cup SUBSET DocumentTypes,
           UpdateReads(r, type, opens, closes, documents)
    PROVE  \E written : /\ Takes(r, "update", written)
                        /\ HandlerIsEntitled([doing |-> "update", next |-> written, read |-> call])
<1> DEFINE next == Merged(type, opens, closes, documents)
           docs == IF documents # Unset \/ type # call.type THEN next.documents ELSE Unset
           written == [next EXCEPT !.documents = docs]
<1>0. call \in Call
  BY DEF CallInv, CallTypeOK, Call
<1>1. /\ Takes(r, "update", written)
      /\ Ordered(opens, closes)
      /\ call.status = "OPEN" => Openable(next)
  BY DEF UpdateReads
<1>2. /\ next \in Call
      /\ next.type = type /\ next.opens = opens /\ next.closes = closes
      /\ next.status = call.status
      /\ next.documents = IF type = "PROGRAM_B" THEN {}
                          ELSE IF documents = Unset THEN call.documents ELSE documents
  BY <1>0 DEF Call, Merged
<1> HIDE DEF next
<1>3. docs \in {Unset} \cup SUBSET DocumentTypes
  <2>1. next.documents \in SUBSET DocumentTypes
    BY <1>2 DEF Call
  <2> QED
    BY <2>1
<1> HIDE DEF docs
<1>4. /\ written \in Update
      /\ written.type = type /\ written.opens = opens /\ written.closes = closes
      /\ written.documents = docs
  BY <1>2, <1>3 DEF Call, Update
<1> HIDE DEF written
<1>5. ASSUME Sound(call) PROVE Sound(Updated(call, written))
  <2>1. Updated(call, written).documents = next.documents
    BY <1>2, <1>4, <1>5 DEF Updated, Sound, Call, docs
  <2> QED
    BY <1>1, <1>2, <1>4, <2>1 DEF Updated, Sound, Openable
<1>6. HandlerIsEntitled([doing |-> "update", next |-> written, read |-> call])
  BY <1>0, <1>1, <1>4, <1>5 DEF HandlerIsEntitled
<1> QED
  BY <1>1, <1>6

\* A handler that has read the call is entitled to what it will write.
LEMMA TakesKeeps ==
    ASSUME CallInv, NEW r \in Handlers, NEW doing, NEW next, Takes(r, doing, next),
           HandlerIsEntitled([doing |-> doing, next |-> next, read |-> call])
    PROVE  CallInv'
<1>1. /\ handler' = [q \in Handlers |-> handler'[q]]
      /\ \A q \in Handlers : handler'[q] =
            IF q = r THEN [doing |-> doing, next |-> next, read |-> call] ELSE handler[q]
  BY DEF Takes, CallInv
<1> QED
  BY <1>1 DEF Takes, CallInv, CallTypeOK, CallIsSound, HandlerIsEntitled

\* A handler that wrote over the call it had read leaves it sound.
LEMMA WritesKeeps ==
    ASSUME CallInv, NEW r \in Handlers, handler[r] # AtRest, Writes(r), call' \in Call,
           Ordered(call'.opens, call'.closes),
           handler[r].read = call => (Sound(call) => Sound(call'))
    PROVE  CallInv'
<1>1. /\ handler' = [q \in Handlers |-> handler'[q]]
      /\ \A q \in Handlers : handler'[q] = IF q = r THEN AtRest ELSE handler[q]
  BY DEF Writes, CallInv
<1>2. CallTypeOK'
  BY <1>1 DEF Writes, CallInv, CallTypeOK, Call
<1>3. CallIsSound'
  BY DEF Writes, CallInv, CallTypeOK, CallIsSound, Sound
<1> QED
  BY <1>1, <1>2, <1>3 DEF CallInv

\* Every handler keeps the call sound, and in order whatever it writes over.
LEMMA CallStepSound == ASSUME CallInv, [CallNext]_callVars PROVE CallInv'
<1>0. call \in Call
  BY DEF CallInv, CallTypeOK, Call
<1>1. ASSUME NEW r \in Handlers, NEW type \in ProgramType,
             NEW opens \in Dates \cup {Unset}, NEW closes \in Dates \cup {Unset},
             NEW documents \in {Unset} \cup SUBSET DocumentTypes,
             UpdateReads(r, type, opens, closes, documents)
      PROVE  CallInv'
  BY <1>1, UpdateIsSound, TakesKeeps
<1>2. ASSUME NEW r \in Handlers, OpenReads(r) \/ CloseReads(r) \/ ArchiveReads(r)
      PROVE  CallInv'
  <2>1. ASSUME NEW doing \in {"OPEN", "CLOSED", "ARCHIVED"}, Takes(r, doing, Unset),
               doing = "OPEN" => Openable(call)
        PROVE  CallInv'
    BY <1>0, <2>1, TakesKeeps DEF HandlerIsEntitled
  <2> QED
    BY <1>2, <2>1 DEF OpenReads, CloseReads, ArchiveReads
<1>3. ASSUME NEW r \in Handlers, UpdateWrites(r) PROVE CallInv'
  <2>1. HandlerIsEntitled(handler[r]) /\ handler[r].next \in Update
    BY <1>3 DEF UpdateWrites, CallInv, HandlerIsEntitled
  <2>2. call' = Updated(call, handler[r].next)
    BY <1>0, <1>3, <2>1 DEF UpdateWrites, Updated, Call, Update
  <2>3. call' \in Call
    <3> DEFINE docs == Updated(call, handler[r].next).documents
    <3>1. call.documents \in SUBSET DocumentTypes
      BY <1>0 DEF Call
    <3>2. handler[r].next.documents \in {Unset} \cup SUBSET DocumentTypes
      BY <2>1, Zenon DEF Update
    <3>3. docs \in SUBSET DocumentTypes
      BY <3>1, <3>2 DEF Updated
    <3> HIDE DEF docs
    <3> QED
      BY <1>0, <2>1, <2>2, <3>3 DEF Updated, Call, Update
  <2>4. Ordered(call'.opens, call'.closes)
    BY <1>3, <2>1, <2>2 DEF UpdateWrites, Updated, HandlerIsEntitled
  <2> QED
    BY <1>3, <2>1, <2>2, <2>3, <2>4, WritesKeeps DEF UpdateWrites, HandlerIsEntitled
<1>4. ASSUME NEW r \in Handlers, StatusWrites(r) PROVE CallInv'
  <2>1. HandlerIsEntitled(handler[r])
    BY <1>4 DEF StatusWrites, CallInv
  <2>2. call' \in Call /\ call'.opens = call.opens /\ call'.closes = call.closes
        /\ call'.type = call.type /\ call'.documents = call.documents
        /\ call'.status = handler[r].doing
    BY <1>0, <1>4 DEF StatusWrites, Call
  <2>3. handler[r].read = call => (Sound(call) => Sound(call'))
    BY <1>4, <2>1, <2>2 DEF StatusWrites, HandlerIsEntitled, Sound, Openable
  <2> QED
    BY <1>4, <2>2, <2>3, WritesKeeps DEF StatusWrites, CallInv, CallIsSound
<1>5. ASSUME UNCHANGED callVars PROVE CallInv'
  BY <1>5 DEF callVars, CallInv, CallTypeOK, CallIsSound
<1> QED
  BY <1>1, <1>2, <1>3, <1>4, <1>5 DEF CallNext, Reading

\* Whoever changes a call at the same time, its window is in order, and as long
\* as no handler wrote over another's change it has all that publishing asks for.
THEOREM CallStaysSound == CallSpec => []CallIsSound
<1>1. CallInv => CallIsSound
  BY DEF CallInv
<1> QED
  BY <1>1, CallInitSound, CallStepSound, PTL DEF CallSpec

\* The columns of the call keep their types.
THEOREM CallTypes == CallSpec => []CallTypeOK
<1>1. CallInv => CallTypeOK
  BY DEF CallInv
<1> QED
  BY <1>1, CallInitSound, CallStepSound, PTL DEF CallSpec

-----------------------------------------------------------------------------
(***************************************************************************)
(* Student profiles                                                        *)
(***************************************************************************)
CodeSet == {Codes[i] : i \in 1..5}
Paths == Universities \X Faculties \X Specializations
NodesOf(path) == {path[i] : i \in 1..3}

\* Signals by their code, of some of the codes.
IsResults(f) == f = [c \in DOMAIN f |-> f[c]] /\ DOMAIN f \subseteq CodeSet

\* A computation of signals, whoever asked for it.
IsComputation(r) ==
    /\ r.doing \in {"computed", "recording"}
    /\ \/ /\ r.by \in {"reader", "student", "submit", "accept"}
          /\ r = [doing |-> r.doing, by |-> r.by, of |-> r.of, results |-> r.results]
          /\ r.by = "accept" => r.of \in Students
       \/ /\ r.by = "remove" /\ r.doing = "recording"
          /\ r = [doing |-> r.doing, by |-> r.by, of |-> r.of, seen |-> r.seen,
                  results |-> r.results]
          /\ r.of \in Students \ {Leader}
    /\ IsResults(r.results)
    /\ r.doing = "recording" /\ r.by \in {"reader", "student"} => DOMAIN r.results # {}

\* What a submission may be in the middle of.
IsSubmission(r) ==
    \/ r \in {Unsent, Done}
    \/ r \in [doing : {"academic"}, of : Students, path : Paths, checked : SUBSET Nodes]
    \/ r \in [doing : {"upserting"}, of : Students, path : Paths,
              found : {<<>>} \cup {<<d>> : d \in Submissions \cup {Null}}]
    \/ r \in [doing : {"upserted"}, of : Students]
    \/ r \in [doing : {"professional", "replacing"}, of : Students, projects : BOOLEAN]
    \/ r \in [doing : {"replaced"}, of : Students, projects : BOOLEAN,
              skillsGone : SUBSET Sources, projectsGone : SUBSET Sources]
    \/ IsComputation(r)

ProfilesTyped ==
    /\ ProfilesTypeOK
    /\ submission = [m \in Submissions |-> submission[m]]
    /\ \A m \in Submissions : IsSubmission(submission[m])
    /\ signals = <<>> \/ IsResults(signals)

\* n has been seen to be there, where the path has it.
Stood(path, n) ==
    /\ row[n] # "FREE"
    /\ n = path[2] => parent[n] = path[1] \/ n \in moved
    /\ n = path[3] => parent[n] = path[2] \/ n \in moved

\* A submission has seen the rows that it checked.
HasSeen(r) ==
    /\ r.doing = "academic" =>
          /\ r.checked \subseteq NodesOf(r.path)
          /\ \A n \in r.checked : Stood(r.path, n)
    /\ r.doing = "upserting" => \A n \in NodesOf(r.path) : Stood(r.path, n)

\* Whoever replaces professional information holds the profile alone, and has
\* deleted the rows that are there.
HoldsProfile(r) == r.doing \in {"replacing", "replaced"}

ReplacesAlone(m, r) ==
    /\ HoldsProfile(r) =>
          /\ HasProfile(r.of)
          /\ \A k \in Submissions \ {m} :
                ~(HoldsProfile(submission[k]) /\ submission[k].of = r.of)
    /\ r.doing = "replaced" =>
          /\ r.skillsGone = skills[r.of]
          /\ r.projects => r.projectsGone = projects[r.of]

ChecksStood == \A m \in Submissions : HasSeen(submission[m])
ReplacementsAreAlone == \A m \in Submissions : ReplacesAlone(m, submission[m])

SafeInv ==
    /\ ProfilesTyped
    /\ ChecksStood
    /\ ReplacementsAreAlone
    /\ PathsHoldTogether
    /\ ProfessionalIsOfOnePiece

\* The team whose signals a computation will have stored.
TeamOf(r) ==
    CASE r.by = "accept" -> members \cup {r.of}
      [] r.by = "remove" -> members \ {r.of}
      [] OTHER -> members

\* What is left to store completes what is stored to the verdicts of today.
OnCourse(r) ==
    /\ r.doing = "computed" => r.results = Verdicts(TeamOf(r))
    /\ r.doing = "recording" =>
          \A c \in CodeSet :
             IF c \in DOMAIN r.results THEN r.results[c] = Against(c, TeamOf(r))
             ELSE c \in DOMAIN signals /\ signals[c] = Against(c, TeamOf(r))

ComputationsAreOnCourse ==
    /\ quiet = "settled" =>
          /\ \A m \in Submissions : ~Computing(m)
          /\ signals = <<>> \/ signals = Verdicts(members)
    /\ quiet = "alone" =>
          \A m \in Submissions : Computing(m) =>
             /\ OnCourse(submission[m])
             /\ \A k \in Submissions \ {m} : ~Computing(k)

USE LeaderIsStudent, NullIsNoSubmission, NullIsNoProfile, AuthorsAreStudents, AnswersAreTyped,
    SeedIsNoSubmission
    DEF Unsent, Done, HasProfile, Computing, Sources

-----------------------------------------------------------------------------
\* What the doing of a submission says of its other fields.
LEMMA SubmissionFields ==
    ASSUME NEW r, IsSubmission(r)
    PROVE  /\ r.doing = "academic" =>
                r \in [doing : {"academic"}, of : Students, path : Paths, checked : SUBSET Nodes]
           /\ r.doing = "upserting" =>
                r \in [doing : {"upserting"}, of : Students, path : Paths,
                       found : {<<>>} \cup {<<d>> : d \in Submissions \cup {Null}}]
           /\ r.doing = "upserted" => r \in [doing : {"upserted"}, of : Students]
           /\ r.doing \in {"professional", "replacing"} =>
                r \in [doing : {"professional", "replacing"}, of : Students, projects : BOOLEAN]
           /\ r.doing = "replaced" =>
                r \in [doing : {"replaced"}, of : Students, projects : BOOLEAN,
                       skillsGone : SUBSET Sources, projectsGone : SUBSET Sources]
           /\ r.doing \in {"computed", "recording"} => IsComputation(r)
<1>1. r \in {Unsent, Done} => r.doing \in {"idle", "done"}
  OBVIOUS
<1>2. r \in [doing : {"academic"}, of : Students, path : Paths, checked : SUBSET Nodes]
      => r.doing = "academic"
  OBVIOUS
<1>3. r \in [doing : {"upserting"}, of : Students, path : Paths,
             found : {<<>>} \cup {<<d>> : d \in Submissions \cup {Null}}]
      => r.doing = "upserting"
  OBVIOUS
<1>4. r \in [doing : {"upserted"}, of : Students] => r.doing = "upserted"
  OBVIOUS
<1>5. r \in [doing : {"professional", "replacing"}, of : Students, projects : BOOLEAN]
      => r.doing \in {"professional", "replacing"}
  OBVIOUS
<1>6. r \in [doing : {"replaced"}, of : Students, projects : BOOLEAN,
             skillsGone : SUBSET Sources, projectsGone : SUBSET Sources]
      => r.doing = "replaced"
  OBVIOUS
<1>7. IsComputation(r) => r.doing \in {"computed", "recording"}
  BY DEF IsComputation
<1> QED
  BY <1>1, <1>2, <1>3, <1>4, <1>5, <1>6, <1>7 DEF IsSubmission

\* One submission goes on, the others stay where they are.
GoesOn(m, e) ==
    /\ submission' = [k \in Submissions |-> submission'[k]]
    /\ submission'[m] = e
    /\ \A k \in Submissions \ {m} : submission'[k] = submission[k]

LEMMA SubmissionMoves ==
    ASSUME ProfilesTyped, NEW m \in Submissions, NEW e,
           submission' = [submission EXCEPT ![m] = e]
    PROVE  GoesOn(m, e)
  BY DEF ProfilesTyped, GoesOn

LEMMA SubmissionsTyped ==
    ASSUME ProfilesTyped, NEW m \in Submissions, NEW e, GoesOn(m, e), IsSubmission(e)
    PROVE  /\ submission' = [k \in Submissions |-> submission'[k]]
           /\ \A k \in Submissions : IsSubmission(submission'[k])
  BY DEF ProfilesTyped, GoesOn

\* Verdicts are signals of all the codes.
LEMMA VerdictsAreResults ==
    ASSUME NEW team
    PROVE  /\ IsResults(Verdicts(team)) /\ DOMAIN Verdicts(team) = CodeSet
           /\ \A c \in CodeSet : Verdicts(team)[c] = Against(c, team)
  BY DEF IsResults, Verdicts, CodeSet

LEMMA DifferingIsResults ==
    ASSUME NEW f, IsResults(f)
    PROVE  /\ IsResults(Differing(f))
           /\ DOMAIN Differing(f) = {c \in DOMAIN f : Differs(f, c)}
           /\ \A c \in DOMAIN Differing(f) : Differing(f)[c] = f[c]
           /\ Differing(f) # <<>> => DOMAIN Differing(f) # {}
  BY DEF IsResults, Differing

\* The rows that are upserted are there, the others as they were.
LEMMA UpsertedRows ==
    ASSUME NEW f
    PROVE  /\ DOMAIN Upserted(f) = DOMAIN f \cup DOMAIN signals
           /\ \A c \in DOMAIN Upserted(f) :
                 Upserted(f)[c] = IF c \in DOMAIN f THEN f[c] ELSE signals[c]
           /\ Upserted(f) = [c \in DOMAIN Upserted(f) |-> Upserted(f)[c]]
  BY DEF Upserted

LEMMA SignalsHaveCodes ==
    ASSUME ProfilesTyped PROVE DOMAIN signals \subseteq CodeSet
  BY VerdictsAreResults DEF ProfilesTyped, ProfilesTypeOK

LEMMA UpsertedIsResults ==
    ASSUME ProfilesTyped, NEW f, DOMAIN f \subseteq CodeSet
    PROVE  IsResults(Upserted(f))
<1>1. DOMAIN Upserted(f) \subseteq CodeSet
  BY UpsertedRows, SignalsHaveCodes
<1> QED
  BY <1>1, UpsertedRows DEF IsResults

\* The nodes of a path.
LEMMA PathNodes ==
    ASSUME NEW path \in Paths
    PROVE  /\ path[1] \in Universities /\ path[2] \in Faculties /\ path[3] \in Specializations
           /\ NodesOf(path) = {path[1], path[2], path[3]}
           /\ NodesOf(path) \subseteq Nodes
  BY DEF Paths, NodesOf, Nodes

\* One of the codes that are left comes first.
LEMMA FirstLeft ==
    ASSUME NEW left \in SUBSET CodeSet, left # {}
    PROVE  Codes[CHOOSE i \in 1..5 : Codes[i] \in left
                                     /\ \A j \in 1..(i - 1) : Codes[j] \notin left] \in left
<1>1. \E i \in 1..5 : Codes[i] \in left /\ \A j \in 1..(i - 1) : Codes[j] \notin left
  BY DEF CodeSet, Codes
<1> QED
  BY <1>1

-----------------------------------------------------------------------------
\* Profiles of the seed name a path that holds together, and one source.
LEMMA SeededProfiles ==
    ASSUME NEW students \in SUBSET Students, ProfilesAreSeeded(students)
    PROVE  /\ profile \in [Students -> Profile \cup {Null}]
           /\ skills \in [Students -> SUBSET Sources]
           /\ projects \in [Students -> SUBSET Sources]
           /\ \A p \in Students : HasProfile(p) =>
                 /\ p \in students
                 /\ profile[p].path \in Paths
                 /\ parent[profile[p].path[2]] = profile[p].path[1]
                 /\ parent[profile[p].path[3]] = profile[p].path[2]
           /\ ProfessionalIsOfOnePiece
<1>1. PICK path \in [students -> Paths] :
         /\ \A p \in students : /\ parent[path[p][2]] = path[p][1]
                                /\ parent[path[p][3]] = path[p][2]
         /\ profile = [p \in Students |->
                          IF p \in students
                          THEN [path |-> path[p], declared |-> Null, evidence |-> FALSE,
                                transferred |-> 0, average |-> Null, professional |-> Seed]
                          ELSE Null]
  BY DEF ProfilesAreSeeded, Paths
<1>2. /\ skills = [p \in Students |-> IF p \in students THEN {Seed} ELSE {}]
      /\ projects = skills
  BY DEF ProfilesAreSeeded
<1>3. ASSUME NEW p \in students
      PROVE  /\ profile[p] \in Profile
             /\ profile[p].path = path[p] /\ profile[p].professional = Seed
  BY <1>1 DEF Profile, Paths
<1>4. \A p \in Students \ students : profile[p] = Null
  BY <1>1
<1>5. profile \in [Students -> Profile \cup {Null}]
  BY <1>1, <1>3, <1>4
<1>6. Cardinality({}) = 0 /\ Cardinality({Seed}) = 1 /\ {Seed} \ {Null} = {Seed}
  BY FS_EmptySet, FS_Singleton
<1>7. ProfessionalIsOfOnePiece
  <2>1. ASSUME NEW p \in Students
        PROVE  /\ skills[p] = IF HasProfile(p) THEN {profile[p].professional} \ {Null} ELSE {}
               /\ Cardinality(projects[p]) <= 1
    <3>1. CASE p \in students
      BY <1>2, <1>3, <1>6, <3>1
    <3>2. CASE p \notin students
      BY <1>2, <1>4, <1>6, <3>2
    <3> QED
      BY <3>1, <3>2
  <2> QED
    BY <2>1 DEF ProfessionalIsOfOnePiece
<1> QED
  BY <1>1, <1>2, <1>3, <1>4, <1>5, <1>7

\* The structure grows from nothing, or is there, and some profiles in it.
LEMMA SafeInit == ProfilesInit => SafeInv
<1> SUFFICES ASSUME ProfilesInit PROVE SafeInv
  OBVIOUS
<1>1. row \in [Nodes -> RowState]
      /\ parent \in [Faculties \cup Specializations -> Universities \cup Faculties \cup {Null}]
  BY DEF ProfilesInit, StructureIsEmpty, StructureIsBuilt, RowState
<1>2. /\ application \in {"NONE", "DRAFT"}
      /\ Leader \in members /\ members \subseteq Students
      /\ limits \in Limits \cup {Default}
      /\ quiet = "settled" /\ signals = <<>>
  BY DEF ProfilesInit, SignalsInit
<1>3. DOMAIN signals \subseteq DOMAIN Verdicts(members)
  BY <1>2
<1>4. PICK students \in SUBSET Students :
         ProfilesAreSeeded(students) /\ (students = {} \/ StructureIsBuilt)
  BY <1>2, SeededAreStudents DEF ProfilesInit
<1>5. submission = [m \in Submissions |-> submission[m]]
      /\ \A m \in Submissions : submission[m] = Unsent
  BY DEF ProfilesInit
<1>6. \A m \in Submissions : IsSubmission(submission[m])
  BY <1>5 DEF IsSubmission
<1>7. ProfilesTyped
  BY <1>1, <1>2, <1>3, <1>4, <1>5, <1>6, SeededProfiles
     DEF ProfilesTyped, ProfilesTypeOK, ProfilesInit, Active
<1>8. ChecksStood /\ ReplacementsAreAlone
  BY <1>5 DEF ChecksStood, ReplacementsAreAlone, HasSeen, ReplacesAlone, HoldsProfile
<1>9. PathsHoldTogether
  <2>1. ASSUME NEW p \in Students, HasProfile(p)
        PROVE  /\ \A i \in 1..3 : Exists(profile[p].path[i])
               /\ parent[profile[p].path[2]] = profile[p].path[1]
               /\ parent[profile[p].path[3]] = profile[p].path[2]
    <3>1. /\ p \in students /\ profile[p].path \in Paths
          /\ parent[profile[p].path[2]] = profile[p].path[1]
          /\ parent[profile[p].path[3]] = profile[p].path[2]
      BY <1>4, <2>1, SeededProfiles
    <3>2. \A n \in Nodes : Exists(n)
      BY <1>4, <3>1 DEF StructureIsBuilt, Exists
    <3> QED
      BY <3>1, <3>2, PathNodes DEF Nodes
  <2> QED
    BY <2>1 DEF PathsHoldTogether
<1>10. ProfessionalIsOfOnePiece
  BY <1>4, SeededProfiles
<1> QED
  BY <1>7, <1>8, <1>9, <1>10 DEF SafeInv

\* What an administrator's step leaves of the structure: a row that was there
\* is not made again, a parent is only changed by moving, and no row that a
\* profile names goes.
StructureMoves ==
    /\ row' \in [Nodes -> RowState]
    /\ parent' \in [Faculties \cup Specializations -> Universities \cup Faculties \cup {Null}]
    /\ moved \subseteq moved' /\ moved' \subseteq Faculties \cup Specializations
    /\ \A n \in Nodes : row[n] # "FREE" => row'[n] # "FREE"
    /\ \A n \in Faculties \cup Specializations :
          row[n] # "FREE" => parent'[n] = parent[n] \/ n \in moved'
    /\ \A p \in Students : HasProfile(p) =>
          \A i \in 1..3 : profile[p].path[i] \in Nodes /\ Exists(profile[p].path[i])
                          => Exists(profile[p].path[i])'
    /\ UNCHANGED <<profileVars, submission, signalVars>>

LEMMA AdminMovesStructure == ASSUME ProfilesTyped, AdminNext PROVE StructureMoves
<1> USE DEF ProfilesTyped, ProfilesTypeOK, StructureMoves, Exists, RowState, profileVars
<1>0. Universities \subseteq Nodes /\ Faculties \subseteq Nodes /\ Specializations \subseteq Nodes
  BY DEF Nodes
<1>1. ASSUME NEW u \in Universities, NEW active \in {"ACTIVE", "INACTIVE"},
             CreateUniversity(u, active)
      PROVE  StructureMoves
  BY <1>0, <1>1 DEF CreateUniversity
<1>2. ASSUME NEW n \in Faculties \cup Specializations, NEW above \in Universities \cup Faculties,
             NEW active \in {"ACTIVE", "INACTIVE"}, CreateBelow(n, above, active)
      PROVE  StructureMoves
  BY <1>0, <1>2 DEF CreateBelow
<1>3. ASSUME NEW n \in Nodes, NEW active \in {"ACTIVE", "INACTIVE"}, SetActive(n, active)
      PROVE  StructureMoves
  BY <1>3 DEF SetActive
<1>4. ASSUME NEW n \in Faculties \cup Specializations, NEW above \in Universities \cup Faculties,
             Move(n, above)
      PROVE  StructureMoves
  BY <1>0, <1>4 DEF Move
<1>5. ASSUME NEW n \in Nodes, Delete(n) PROVE StructureMoves
  <2>1. row' \in [Nodes -> RowState] /\ \A k \in Nodes : row[k] # "FREE" => row'[k] # "FREE"
    BY <1>5 DEF Delete
  <2>2. ASSUME NEW p \in Students, HasProfile(p), NEW i \in 1..3,
               profile[p].path[i] \in Nodes, Exists(profile[p].path[i])
        PROVE  Exists(profile[p].path[i])'
    <3>1. profile[p].path[i] \notin Subtree(n)
      BY <1>5, <2>2 DEF Delete, Unreferenced, NamedBy
    <3> QED
      BY <1>5, <2>2, <3>1 DEF Delete
  <2> QED
    BY <1>5, <2>1, <2>2 DEF Delete
<1> QED
  BY <1>1, <1>2, <1>3, <1>4, <1>5 DEF AdminNext

-----------------------------------------------------------------------------
\* What a step of a computation does to anything but the verdicts.
ComputationMoves ==
    /\ UNCHANGED profile
    /\ \/ UNCHANGED submission
       \/ \E m \in Submissions : \E e :
             GoesOn(m, e) /\ IsSubmission(e) /\ e.doing \in {"computed", "recording", "done"}
    /\ application' \in {"NONE", "CLOSED"} \cup Active
    /\ Leader \in members' /\ members' \subseteq Students
    /\ limits' \in Limits \cup {Default}
    /\ quiet' \in {"settled", "alone", "disturbed"}
    /\ signals' = signals \/ IsResults(signals')

\* A computation begins.
LEMMA BeginsTyped ==
    ASSUME ProfilesTyped, NEW m \in Submissions, NEW e,
           submission' = [submission EXCEPT ![m] = e], IsComputation(e), Begins(m),
           UNCHANGED <<profile, teamVars, signals>>
    PROVE  ComputationMoves
<1>1. GoesOn(m, e)
  BY SubmissionMoves
<1>2. IsSubmission(e) /\ e.doing \in {"computed", "recording"}
  BY DEF IsSubmission, IsComputation
<1>3. quiet' \in {"settled", "alone", "disturbed"}
  BY DEF Begins
<1> QED
  BY <1>1, <1>2, <1>3 DEF ComputationMoves, teamVars, ProfilesTyped, ProfilesTypeOK

LEMMA FinishesTyped ==
    ASSUME ProfilesTyped, NEW m \in Submissions, Finishes(m)
    PROVE  /\ GoesOn(m, Done) /\ IsSubmission(Done)
           /\ Done.doing \in {"computed", "recording", "done"}
           /\ quiet' \in {"settled", "alone", "disturbed"}
<1>1. GoesOn(m, Done)
  BY SubmissionMoves DEF Finishes
<1> QED
  BY <1>1 DEF Finishes, IsSubmission, ProfilesTyped, ProfilesTypeOK

LEMMA ComputationsTyped == ASSUME ProfilesTyped, SignalsNext PROVE ComputationMoves
<1> USE DEF teamVars
<1>0. /\ application \in {"NONE", "CLOSED"} \cup Active
      /\ Leader \in members /\ members \subseteq Students
      /\ limits \in Limits \cup {Default}
      /\ quiet \in {"settled", "alone", "disturbed"}
  BY DEF ProfilesTyped, ProfilesTypeOK
<1>1. CASE CloseApplication
  BY <1>0, <1>1 DEF CloseApplication, ComputationMoves
<1>2. ASSUME NEW l \in Limits, UpdateLimits(l) PROVE ComputationMoves
  BY <1>0, <1>2 DEF UpdateLimits, ComputationMoves
<1>3. ASSUME NEW m \in Submissions, GetEligibilitySignals(m) PROVE ComputationMoves
  <2> DEFINE e == [doing |-> "computed", by |-> "reader", of |-> Null,
                    results |-> Verdicts(members)]
  <2>1. IsComputation(e)
    BY VerdictsAreResults DEF IsComputation
  <2>2. submission' = [submission EXCEPT ![m] = e] /\ Begins(m)
    BY <1>3 DEF GetEligibilitySignals
  <2> HIDE DEF e
  <2> QED
    BY <1>3, <2>1, <2>2, BeginsTyped DEF GetEligibilitySignals
<1>4. ASSUME NEW m \in Submissions, RecomputeForStudent(m) PROVE ComputationMoves
  <2>1. CASE application \in Active /\ submission[m].of \in members
      <3> DEFINE e == [doing |-> "computed", by |-> "student", of |-> Null,
                    results |-> Verdicts(members)]
    <3>1. IsComputation(e)
      BY VerdictsAreResults DEF IsComputation
    <3>2. submission' = [submission EXCEPT ![m] = e] /\ Begins(m)
      BY <1>4, <2>1 DEF RecomputeForStudent
    <3> HIDE DEF e
    <3> QED
      BY <1>4, <2>1, <3>1, <3>2, BeginsTyped DEF RecomputeForStudent
  <2>2. CASE ~(application \in Active /\ submission[m].of \in members)
    <3>1. GoesOn(m, Done) /\ IsSubmission(Done)
      BY <1>4, <2>2, SubmissionMoves DEF RecomputeForStudent, IsSubmission
    <3> QED
      BY <1>0, <1>4, <2>2, <3>1 DEF RecomputeForStudent, ComputationMoves
  <2> QED
    BY <2>1, <2>2
<1>5. ASSUME NEW m \in Submissions, SubmitComputes(m) PROVE ComputationMoves
  <2> DEFINE e == [doing |-> "computed", by |-> "submit", of |-> Null,
                    results |-> Verdicts(members)]
  <2>1. IsComputation(e)
    BY VerdictsAreResults DEF IsComputation
  <2>2. submission' = [submission EXCEPT ![m] = e] /\ Begins(m)
    BY <1>5 DEF SubmitComputes
  <2> HIDE DEF e
  <2> QED
    BY <1>5, <2>1, <2>2, BeginsTyped DEF SubmitComputes
<1>6. ASSUME NEW m \in Submissions, NEW p \in Students, AcceptComputes(m, p)
      PROVE  ComputationMoves
  <2> DEFINE e == [doing |-> "computed", by |-> "accept", of |-> p,
                    results |-> Verdicts(members \cup {p})]
  <2>1. IsComputation(e)
    BY VerdictsAreResults DEF IsComputation
  <2>2. submission' = [submission EXCEPT ![m] = e] /\ Begins(m)
    BY <1>6 DEF AcceptComputes
  <2> HIDE DEF e
  <2> QED
    BY <1>6, <2>1, <2>2, BeginsTyped DEF AcceptComputes
<1>7. ASSUME NEW m \in Submissions, NEW p \in Students, RemovalReads(m, p)
      PROVE  ComputationMoves
  <2> DEFINE e == [doing |-> "recording", by |-> "remove", of |-> p, seen |-> signals,
                    results |-> Differing(Verdicts(members \ {p}))]
  <2>1. IsComputation(e)
    BY <1>7, VerdictsAreResults, DifferingIsResults DEF RemovalReads, IsComputation
  <2>2. submission' = [submission EXCEPT ![m] = e] /\ Begins(m)
    BY <1>7 DEF RemovalReads
  <2> HIDE DEF e
  <2> QED
    BY <1>7, <2>1, <2>2, BeginsTyped DEF RemovalReads
<1>8. ASSUME NEW m \in Submissions, ReadsSignals(m) PROVE ComputationMoves
  <2>1. CASE Finishes(m)
    BY <1>0, <1>8, <2>1, FinishesTyped DEF ReadsSignals, ComputationMoves
  <2>2. CASE ~Finishes(m)
    <3> DEFINE r == submission[m]
               e == [doing |-> "recording", by |-> r.by, of |-> r.of,
                     results |-> Differing(r.results)]
    <3>1. IsComputation(r) /\ r.doing = "computed"
      BY <1>8, SubmissionFields DEF ReadsSignals, ProfilesTyped
    <3>2. /\ IsResults(Differing(r.results))
          /\ r.by \in {"reader", "student"} => DOMAIN Differing(r.results) # {}
      BY <1>8, <2>2, <3>1, DifferingIsResults DEF IsComputation, ReadsSignals
    <3> HIDE DEF r
    <3>3. IsComputation(e)
      BY <3>1, <3>2 DEF IsComputation
    <3>4. submission' = [submission EXCEPT ![m] = e] /\ UNCHANGED quiet
      BY <1>8, <2>2 DEF ReadsSignals, r
    <3>5. GoesOn(m, e) /\ IsSubmission(e) /\ e.doing = "recording"
      <4>1. e.doing = "recording"
        OBVIOUS
      <4> HIDE DEF e
      <4> QED
        BY <3>3, <3>4, <4>1, SubmissionMoves DEF IsSubmission
    <3> HIDE DEF e
    <3> QED
      BY <1>0, <1>8, <3>4, <3>5 DEF ReadsSignals, ComputationMoves
  <2> QED
    BY <2>1, <2>2
<1>9. ASSUME NEW m \in Submissions, UpsertSignal(m) PROVE ComputationMoves
  <2> DEFINE r == submission[m]
             left == DOMAIN r.results
             c == Codes[CHOOSE i \in 1..5 : Codes[i] \in left
                                            /\ \A j \in 1..(i - 1) : Codes[j] \notin left]
  <2>1. IsComputation(r) /\ r.doing = "recording" /\ r.by \in {"reader", "student"}
    BY <1>9, SubmissionFields DEF UpsertSignal, ProfilesTyped
  <2>2. left \in SUBSET CodeSet /\ left # {}
    BY <2>1 DEF IsComputation, IsResults
  <2>3. c \in left
    BY <2>2, FirstLeft
  <2>4. signals' = Upserted([d \in {c} |-> r.results[d]])
    BY <1>9 DEF UpsertSignal
  <2>5. IF left = {c}
        THEN Finishes(m)
        ELSE /\ submission' = [submission EXCEPT ![m] =
                   [doing |-> "recording", by |-> r.by, of |-> r.of,
                    results |-> [d \in left \ {c} |-> r.results[d]]]]
             /\ UNCHANGED quiet
    BY <1>9 DEF UpsertSignal
  <2>6. UNCHANGED <<profile, teamVars>>
    BY <1>9 DEF UpsertSignal
  <2> HIDE DEF c
  <2>7. IsResults(signals')
    BY <2>2, <2>3, <2>4, UpsertedIsResults
  <2>8. CASE left = {c}
    BY <1>0, <2>5, <2>6, <2>7, <2>8, FinishesTyped DEF ComputationMoves
  <2>9. CASE left # {c}
    <3> DEFINE e == [doing |-> "recording", by |-> r.by, of |-> r.of,
                     results |-> [d \in left \ {c} |-> r.results[d]]]
    <3>1. submission' = [submission EXCEPT ![m] = e]
      BY <2>5, <2>9
    <3>2. IsSubmission(e) /\ e.doing = "recording"
      <4>1. IsResults(e.results) /\ DOMAIN e.results # {}
        BY <2>2, <2>3, <2>9 DEF IsResults
      <4> QED
        BY <2>1, <4>1 DEF IsSubmission, IsComputation
    <3> HIDE DEF e
    <3>3. GoesOn(m, e)
      BY <3>1, SubmissionMoves
    <3> QED
      BY <1>0, <2>5, <2>6, <2>7, <2>9, <3>2, <3>3 DEF ComputationMoves
  <2> QED
    BY <2>8, <2>9
<1>10. ASSUME NEW m \in Submissions, CommitSignals(m) PROVE ComputationMoves
  <2>1. IsComputation(submission[m])
    BY <1>10, SubmissionFields DEF CommitSignals, ProfilesTyped
  <2>2. IsResults(signals')
    BY <1>10, <2>1, UpsertedIsResults DEF CommitSignals, IsComputation, IsResults
  <2>3. application' \in {"NONE", "CLOSED"} \cup Active
    BY <1>0, <1>10 DEF CommitSignals, Active
  <2>4. Leader \in members' /\ members' \subseteq Students
    BY <1>0, <1>10, <2>1 DEF CommitSignals, IsComputation
  <2> QED
    BY <1>0, <1>10, <2>2, <2>3, <2>4, FinishesTyped DEF CommitSignals, ComputationMoves
<1> QED
  BY <1>1, <1>2, <1>3, <1>4, <1>5, <1>6, <1>7, <1>8, <1>9, <1>10 DEF SignalsNext

-----------------------------------------------------------------------------
\* The types of the columns no student or administrator writes.
LEMMA TypedAgain ==
    ASSUME SafeInv, row' \in [Nodes -> RowState],
           parent' \in [Faculties \cup Specializations -> Universities \cup Faculties \cup {Null}],
           moved' \subseteq Faculties \cup Specializations,
           profile' \in [Students -> Profile \cup {Null}],
           skills' \in [Students -> SUBSET Sources],
           projects' \in [Students -> SUBSET Sources],
           submission' = [m \in Submissions |-> submission'[m]],
           \A m \in Submissions : IsSubmission(submission'[m]),
           UNCHANGED <<teamVars, signals>>, quiet' \in {"settled", "alone", "disturbed"}
    PROVE  ProfilesTyped'
<1>1. (DOMAIN signals \subseteq DOMAIN Verdicts(members))'
  BY DEF SafeInv, ProfilesTyped, ProfilesTypeOK, Verdicts
<1>2. /\ application' \in {"NONE", "CLOSED"} \cup Active
      /\ Leader \in members' /\ members' \subseteq Students
      /\ limits' \in Limits \cup {Default}
      /\ signals' = <<>> \/ IsResults(signals')
  BY DEF SafeInv, ProfilesTyped, ProfilesTypeOK, teamVars
<1> QED
  BY <1>1, <1>2 DEF ProfilesTyped, ProfilesTypeOK

\* A step of a submission that only reads is safe when what it has read is.
LEMMA ReadingIsSafe ==
    ASSUME SafeInv, NEW m \in Submissions, NEW e, GoesOn(m, e), IsSubmission(e),
           HasSeen(e), ReplacesAlone(m, e),
           UNCHANGED <<structureVars, profileVars, teamVars, signals>>,
           quiet' \in {"settled", "alone", "disturbed"}
    PROVE  SafeInv'
<1> USE DEF structureVars, profileVars
<1>1. /\ submission' = [k \in Submissions |-> submission'[k]]
      /\ \A k \in Submissions : IsSubmission(submission'[k])
  BY SubmissionsTyped DEF SafeInv
<1>2. ProfilesTyped'
  BY <1>1, TypedAgain DEF SafeInv, ProfilesTyped, ProfilesTypeOK
<1>3. ChecksStood'
  BY DEF SafeInv, ChecksStood, HasSeen, Stood, GoesOn
<1>4. ReplacementsAreAlone'
  BY DEF SafeInv, ReplacementsAreAlone, ReplacesAlone, HoldsProfile, GoesOn
<1>5. PathsHoldTogether'
  BY DEF SafeInv, PathsHoldTogether, Exists
<1>6. ProfessionalIsOfOnePiece'
  BY DEF SafeInv, ProfessionalIsOfOnePiece
<1> QED
  BY <1>2, <1>3, <1>4, <1>5, <1>6 DEF SafeInv

\* An administrator's step is safe.
LEMMA AdminIsSafe == ASSUME SafeInv, AdminNext PROVE SafeInv'
<1>1. StructureMoves
  BY AdminMovesStructure DEF SafeInv
<1> USE DEF profileVars
<1>2. ProfilesTyped'
  BY <1>1, TypedAgain DEF SafeInv, ProfilesTyped, ProfilesTypeOK, StructureMoves, signalVars, teamVars
<1>3. ASSUME NEW k \in Submissions PROVE HasSeen(submission[k])'
  <2>1. ASSUME NEW path \in Paths, NEW n \in NodesOf(path), Stood(path, n)
        PROVE  Stood(path, n)'
    BY <1>1, <2>1, PathNodes DEF Stood, StructureMoves
  <2>2. submission'[k] = submission[k] /\ IsSubmission(submission[k]) /\ HasSeen(submission[k])
    BY <1>1 DEF StructureMoves, SafeInv, ProfilesTyped, ChecksStood
  <2>3. CASE submission[k].doing = "academic"
    <3>1. submission[k].path \in Paths /\ submission[k].checked \subseteq NodesOf(submission[k].path)
      BY <2>2, <2>3, SubmissionFields DEF HasSeen
    <3> QED
      BY <2>1, <2>2, <2>3, <3>1 DEF HasSeen
  <2>4. CASE submission[k].doing = "upserting"
    <3>1. submission[k].path \in Paths
      BY <2>2, <2>4, SubmissionFields
    <3> QED
      BY <2>1, <2>2, <2>4, <3>1 DEF HasSeen
  <2> QED
    BY <2>2, <2>3, <2>4 DEF HasSeen
<1>4. ReplacementsAreAlone'
  BY <1>1 DEF SafeInv, ReplacementsAreAlone, ReplacesAlone, HoldsProfile, StructureMoves
<1>5. ASSUME NEW p \in Students, HasProfile(p)'
      PROVE  LET path == profile'[p].path IN
             /\ \A i \in 1..3 : row'[path[i]] \in {"ACTIVE", "INACTIVE"}
             /\ parent'[path[2]] = path[1] \/ path[2] \in moved'
             /\ parent'[path[3]] = path[2] \/ path[3] \in moved'
  <2> DEFINE path == profile[p].path
  <2>1. HasProfile(p) /\ profile'[p].path = path
    BY <1>1, <1>5 DEF StructureMoves
  <2>2. path \in Paths
    BY <2>1 DEF SafeInv, ProfilesTyped, ProfilesTypeOK, Profile, Paths
  <2>3. /\ \A i \in 1..3 : Exists(path[i])
        /\ parent[path[2]] = path[1] \/ path[2] \in moved
        /\ parent[path[3]] = path[2] \/ path[3] \in moved
    BY <2>1 DEF SafeInv, PathsHoldTogether
  <2>4. path[1] \in Nodes /\ path[2] \in Nodes /\ path[3] \in Nodes
        /\ path[2] \in Faculties /\ path[3] \in Specializations
    BY <2>2, PathNodes
  <2>5. \A i \in 1..3 : profile[p].path[i] \in Nodes
    BY <2>2, PathNodes DEF NodesOf
  <2>6. \A i \in 1..3 : Exists(profile[p].path[i])'
    BY <1>1, <2>1, <2>3, <2>5 DEF StructureMoves
  <2>7. row[path[2]] # "FREE" /\ row[path[3]] # "FREE"
    BY <2>3 DEF Exists
  <2>8. /\ parent'[path[2]] = path[1] \/ path[2] \in moved'
        /\ parent'[path[3]] = path[2] \/ path[3] \in moved'
    BY <1>1, <2>3, <2>4, <2>7 DEF StructureMoves
  <2>9. \A i \in 1..3 : row'[path[i]] \in {"ACTIVE", "INACTIVE"}
    BY <2>1, <2>6 DEF Exists
  <2> HIDE DEF path
  <2> QED
    BY <2>1, <2>8, <2>9
<1>6. ProfessionalIsOfOnePiece'
  BY <1>1 DEF SafeInv, ProfessionalIsOfOnePiece, StructureMoves
<1>7. ChecksStood'
  BY <1>3 DEF ChecksStood
<1>8. PathsHoldTogether'
  BY <1>5 DEF PathsHoldTogether, Exists
<1> QED
  BY <1>2, <1>4, <1>6, <1>7, <1>8 DEF SafeInv

\* The steps of a submission that read: its start, its checks, the declaration
\* that it finds, the profile that it locks and the rows that it deletes.
LEMMA ReadsAreSafe ==
    ASSUME SafeInv, NEW m \in Submissions,
           \/ \E p \in Authors, u \in Universities, f \in Faculties, s \in Specializations :
                 AcademicStarts(m, p, u, f, s)
           \/ \E n \in Nodes : Checks(m, n)
           \/ FindsDeclaration(m)
           \/ \E p \in Authors, withProjects \in BOOLEAN : ProfessionalStarts(m, p, withProjects)
           \/ UpdatesProfile(m)
           \/ DeletesRows(m)
           \/ Abandons(m)
    PROVE  SafeInv'
<1> DEFINE r == submission[m]
<1>0. /\ ProfilesTyped
      /\ IsSubmission(r) /\ HasSeen(r) /\ ReplacesAlone(m, r)
      /\ quiet \in {"settled", "alone", "disturbed"}
  BY DEF SafeInv, ProfilesTyped, ProfilesTypeOK, ChecksStood, ReplacementsAreAlone
<1>r. ASSUME NEW e, submission' = [submission EXCEPT ![m] = e], IsSubmission(e), HasSeen(e),
             ReplacesAlone(m, e), UNCHANGED <<structureVars, profileVars, signalVars>>
      PROVE  SafeInv'
  <2>1. GoesOn(m, e)
    BY <1>0, <1>r, SubmissionMoves
  <2>2. UNCHANGED <<teamVars, signals>> /\ quiet' = quiet
    BY <1>r DEF signalVars, teamVars
  <2> QED
    BY <1>0, <1>r, <2>1, <2>2, ReadingIsSafe
<1> USE DEF HasSeen, ReplacesAlone, HoldsProfile
<1>1. ASSUME NEW p \in Authors, NEW u \in Universities, NEW f \in Faculties,
             NEW s \in Specializations, AcademicStarts(m, p, u, f, s)
      PROVE  SafeInv'
  <2> DEFINE e == [doing |-> "academic", of |-> p, path |-> <<u, f, s>>, checked |-> {}]
  <2>1. IsSubmission(e) /\ HasSeen(e) /\ ReplacesAlone(m, e)
    BY DEF IsSubmission, Paths
  <2>2. submission' = [submission EXCEPT ![m] = e]
    BY <1>1 DEF AcademicStarts
  <2> HIDE DEF e
  <2> QED
    BY <1>1, <1>r, <2>1, <2>2 DEF AcademicStarts
<1>2. ASSUME NEW n \in Nodes, Checks(m, n) PROVE SafeInv'
  <2> DEFINE e == [doing |-> "academic", of |-> r.of, path |-> r.path,
                   checked |-> r.checked \cup {n}]
  <2>1. /\ r \in [doing : {"academic"}, of : Students, path : Paths, checked : SUBSET Nodes]
        /\ r.path \in Paths
    BY <1>0, <1>2, SubmissionFields DEF Checks
  <2>2. n \in NodesOf(r.path) /\ Stood(r.path, n)
    BY <1>2 DEF Checks, NodesOf, FindsValid, Stood
  <2>3. IsSubmission(e) /\ HasSeen(e) /\ ReplacesAlone(m, e)
    BY <1>0, <2>1, <2>2 DEF IsSubmission
  <2>4. submission' = [submission EXCEPT ![m] = e]
    BY <1>2 DEF Checks
  <2> HIDE DEF e
  <2> QED
    BY <1>2, <1>r, <2>3, <2>4 DEF Checks
<1>3. CASE FindsDeclaration(m)
  <2> DEFINE e == [doing |-> "upserting", of |-> r.of, path |-> r.path,
                   found |-> IF HasProfile(r.of) THEN <<profile[r.of].declared>> ELSE <<>>]
  <2>1. /\ r \in [doing : {"academic"}, of : Students, path : Paths, checked : SUBSET Nodes]
        /\ r.path \in Paths /\ r.of \in Students
    BY <1>0, <1>3, SubmissionFields DEF FindsDeclaration
  <2>2. e.found \in {<<>>} \cup {<<d>> : d \in Submissions \cup {Null}}
    BY <1>0, <2>1 DEF ProfilesTyped, ProfilesTypeOK, Profile
  <2>3. \A n \in NodesOf(r.path) : Stood(r.path, n)
    BY <1>0, <1>3 DEF FindsDeclaration, NodesOf
  <2>4. IsSubmission(e) /\ HasSeen(e) /\ ReplacesAlone(m, e)
    BY <2>1, <2>2, <2>3 DEF IsSubmission
  <2>5. submission' = [submission EXCEPT ![m] = e]
    BY <1>3 DEF FindsDeclaration
  <2> HIDE DEF e
  <2> QED
    BY <1>3, <1>r, <2>4, <2>5 DEF FindsDeclaration
<1>4. ASSUME NEW p \in Authors, NEW withProjects \in BOOLEAN,
             ProfessionalStarts(m, p, withProjects)
      PROVE  SafeInv'
  <2> DEFINE e == [doing |-> "professional", of |-> p, projects |-> withProjects]
  <2>1. IsSubmission(e) /\ HasSeen(e) /\ ReplacesAlone(m, e)
    BY DEF IsSubmission
  <2>2. submission' = [submission EXCEPT ![m] = e]
    BY <1>4 DEF ProfessionalStarts
  <2> HIDE DEF e
  <2> QED
    BY <1>4, <1>r, <2>1, <2>2 DEF ProfessionalStarts
<1>5. CASE UpdatesProfile(m)
  <2> DEFINE e == [doing |-> "replacing", of |-> r.of, projects |-> r.projects]
  <2>1. r \in [doing : {"professional", "replacing"}, of : Students, projects : BOOLEAN]
    BY <1>0, <1>5, SubmissionFields DEF UpdatesProfile
  <2>2. IsSubmission(e) /\ HasSeen(e)
    BY <2>1 DEF IsSubmission
  <2>3. ReplacesAlone(m, e)
    BY <1>5 DEF UpdatesProfile, Unlocked
  <2>4. submission' = [submission EXCEPT ![m] = e]
    BY <1>5 DEF UpdatesProfile
  <2> HIDE DEF e
  <2> QED
    BY <1>5, <1>r, <2>2, <2>3, <2>4 DEF UpdatesProfile
<1>6. CASE DeletesRows(m)
  <2> DEFINE e == [doing |-> "replaced", of |-> r.of, projects |-> r.projects,
                   skillsGone |-> skills[r.of],
                   projectsGone |-> IF r.projects THEN projects[r.of] ELSE {}]
  <2>1. r \in [doing : {"professional", "replacing"}, of : Students, projects : BOOLEAN]
    BY <1>0, <1>6, SubmissionFields DEF DeletesRows
  <2>2. skills[r.of] \subseteq Sources /\ projects[r.of] \subseteq Sources
    BY <1>0, <2>1 DEF ProfilesTyped, ProfilesTypeOK
  <2>3. IsSubmission(e) /\ HasSeen(e)
    BY <2>1, <2>2 DEF IsSubmission
  <2>4. ReplacesAlone(m, e)
    BY <1>0, <1>6 DEF DeletesRows
  <2>5. submission' = [submission EXCEPT ![m] = e]
    BY <1>6 DEF DeletesRows
  <2> HIDE DEF e
  <2> QED
    BY <1>6, <1>r, <2>3, <2>4, <2>5 DEF DeletesRows
<1>7. CASE Abandons(m)
  <2>1. GoesOn(m, Done) /\ IsSubmission(Done) /\ HasSeen(Done) /\ ReplacesAlone(m, Done)
    BY <1>0, <1>7, SubmissionMoves DEF Abandons, IsSubmission
  <2>2. quiet' \in {"settled", "alone", "disturbed"}
    BY <1>0, <1>7 DEF Abandons
  <2> QED
    BY <1>7, <2>1, <2>2, ReadingIsSafe DEF Abandons
<1> QED
  BY <1>1, <1>2, <1>3, <1>4, <1>5, <1>6, <1>7

\* What an upsert leaves: the path it checked, and of an older profile the
\* professional information and the declaration, unless it found none.
LEMMA UpsertLeaves ==
    ASSUME SafeInv, NEW m \in Submissions, NEW answer \in Answers,
           UpsertAcademicInformation(m, answer)
    PROVE  LET p == submission[m].of IN
           /\ p \in Students /\ submission[m].path \in Paths
           /\ profile' \in [Students -> Profile \cup {Null}]
           /\ \A q \in Students : q # p => profile'[q] = profile[q]
           /\ profile'[p] # Null
           /\ profile'[p].path = submission[m].path
           /\ profile'[p].declared = IF HasProfile(p) /\ ~DatesWhen(submission[m].found)
                                     THEN profile[p].declared ELSE m
           /\ profile'[p].professional = IF HasProfile(p) THEN profile[p].professional ELSE Null
<1> DEFINE r == submission[m]
           p == r.of
           old == profile[p]
           first == [path |-> r.path, declared |-> m, professional |-> Null,
                     evidence |-> answer.evidence,
                     transferred |-> answer.transferred, average |-> answer.average]
           later == [path |-> r.path, professional |-> old.professional,
                     declared |-> IF DatesWhen(r.found) THEN m ELSE old.declared,
                     evidence |-> answer.evidence \/ old.evidence,
                     transferred |-> answer.transferred,
                     average |-> Given(answer.average, old.average)]
           new == IF old = Null THEN first ELSE later
<1>1. r \in [doing : {"upserting"}, of : Students, path : Paths,
             found : {<<>>} \cup {<<d>> : d \in Submissions \cup {Null}}]
  BY SubmissionFields DEF UpsertAcademicInformation, SafeInv, ProfilesTyped
<1>2. profile' = [profile EXCEPT ![p] = new]
  BY DEF UpsertAcademicInformation
<1>3. answer \in [evidence : BOOLEAN, transferred : Nat, average : Nat \cup {Null}]
  OBVIOUS
<1>4. /\ profile \in [Students -> Profile \cup {Null}]
      /\ old # Null => old \in Profile
  BY <1>1 DEF SafeInv, ProfilesTyped, ProfilesTypeOK
<1>6. first \in Profile
  BY <1>1, <1>3 DEF Profile, Paths
<1>7. ASSUME old # Null
      PROVE  /\ later \in Profile
             /\ later.path = r.path
             /\ later.declared = IF DatesWhen(r.found) THEN m ELSE old.declared
             /\ later.professional = old.professional
  BY <1>1, <1>3, <1>4, <1>7 DEF Profile, Paths, Given
<1>8. /\ new \in Profile
      /\ new.path = r.path
      /\ new.declared = IF HasProfile(p) /\ ~DatesWhen(r.found) THEN old.declared ELSE m
      /\ new.professional = IF HasProfile(p) THEN old.professional ELSE Null
  <2> HIDE DEF later
  <2> QED
    BY <1>6, <1>7
<1> HIDE DEF new
<1>9. p \in Students /\ r.path \in Paths /\ new # Null
  BY <1>1, <1>8
<1> QED
  BY <1>2, <1>4, <1>8, <1>9

\* An upsert stores a path whose rows were seen and exist.
LEMMA UpsertIsSafe ==
    ASSUME SafeInv, NEW m \in Submissions, NEW answer \in Answers,
           UpsertAcademicInformation(m, answer)
    PROVE  SafeInv'
<1> DEFINE r == submission[m]
           p == r.of
           path == r.path
           e == [doing |-> "upserted", of |-> p]
<1>1. /\ p \in Students /\ path \in Paths
      /\ profile' \in [Students -> Profile \cup {Null}]
      /\ \A q \in Students : q # p => profile'[q] = profile[q]
      /\ profile'[p] # Null
      /\ profile'[p].path = path
      /\ profile'[p].professional = IF HasProfile(p) THEN profile[p].professional ELSE Null
  BY UpsertLeaves
<1>2. /\ UNCHANGED <<row, parent, moved, skills, projects, teamVars, signals>>
      /\ quiet' = "disturbed"
      /\ \A i \in 1..3 : Exists(path[i])
      /\ Unlocked(p)
      /\ submission' = [submission EXCEPT ![m] = e]
      /\ r.doing = "upserting"
  BY DEF UpsertAcademicInformation, structureVars
<1>3. GoesOn(m, e)
  BY <1>2, SubmissionMoves DEF SafeInv
<1>4. IsSubmission(e)
  BY <1>1 DEF IsSubmission
<1> HIDE DEF e
<1>5. ProfilesTyped'
  <2>1. /\ submission' = [k \in Submissions |-> submission'[k]]
        /\ \A k \in Submissions : IsSubmission(submission'[k])
    BY <1>3, <1>4, SubmissionsTyped DEF SafeInv
  <2> QED
    BY <1>1, <1>2, <2>1, TypedAgain DEF SafeInv, ProfilesTyped, ProfilesTypeOK
<1>6. ChecksStood'
  BY <1>2, <1>3 DEF SafeInv, ChecksStood, HasSeen, Stood, GoesOn, e
<1>7. ReplacementsAreAlone'
  <2>1. ASSUME NEW k \in Submissions PROVE ReplacesAlone(k, submission[k])'
    <3>1. CASE k = m
      BY <1>3, <3>1 DEF ReplacesAlone, HoldsProfile, GoesOn, e
    <3>2. CASE k # m
      <4>1. submission'[k] = submission[k] /\ ReplacesAlone(k, submission[k])
        BY <1>3, <3>2 DEF GoesOn, SafeInv, ReplacementsAreAlone
      <4>2. \A j \in Submissions : HoldsProfile(submission'[j]) => submission'[j] = submission[j]
        BY <1>3 DEF GoesOn, HoldsProfile, e
      <4>3. HoldsProfile(submission[k]) => submission[k].of \in Students
        BY SubmissionFields DEF HoldsProfile, SafeInv, ProfilesTyped
      <4> HIDE DEF p, path
      <4> QED
        BY <1>1, <1>2, <4>1, <4>2, <4>3 DEF ReplacesAlone, HoldsProfile
    <3> QED
      BY <3>1, <3>2
  <2> QED
    BY <2>1 DEF ReplacementsAreAlone
<1>8. PathsHoldTogether'
  <2>1. \A n \in NodesOf(path) : Stood(path, n)
    BY <1>2 DEF SafeInv, ChecksStood, HasSeen
  <2>2. /\ parent[path[2]] = path[1] \/ path[2] \in moved
        /\ parent[path[3]] = path[2] \/ path[3] \in moved
    BY <1>1, <2>1, PathNodes DEF Stood
  <2> HIDE DEF path, p
  <2> QED
    BY <1>1, <1>2, <2>2 DEF SafeInv, PathsHoldTogether, Exists
<1>9. ProfessionalIsOfOnePiece'
  <2> HIDE DEF path, p
  <2> QED
    BY <1>1, <1>2 DEF SafeInv, ProfessionalIsOfOnePiece
<1> QED
  BY <1>5, <1>6, <1>7, <1>8, <1>9 DEF SafeInv

\* Who replaces deletes all the rows there are, and leaves his own.
LEMMA ReplaceIsSafe ==
    ASSUME SafeInv, NEW m \in Submissions, ReplaceProfessionalSkills(m)
    PROVE  SafeInv'
<1> DEFINE r == submission[m]
           p == r.of
<1>1. /\ r \in [doing : {"replaced"}, of : Students, projects : BOOLEAN,
               skillsGone : SUBSET Sources, projectsGone : SUBSET Sources]
      /\ ReplacesAlone(m, r) /\ r.doing = "replaced"
  BY SubmissionFields
     DEF ReplaceProfessionalSkills, SafeInv, ProfilesTyped, ReplacementsAreAlone
<1>2. /\ p \in Students /\ HasProfile(p)
      /\ r.skillsGone = skills[p] /\ (r.projects => r.projectsGone = projects[p])
      /\ r.projects \in BOOLEAN
      /\ \A k \in Submissions \ {m} : ~(HoldsProfile(submission[k]) /\ submission[k].of = p)
  BY <1>1 DEF ReplacesAlone, HoldsProfile
<1>3. /\ UNCHANGED <<row, parent, moved, application, members, limits, signals, quiet>>
      /\ profile' = [profile EXCEPT ![p].professional = m]
      /\ skills' = [skills EXCEPT ![p] = (skills[p] \ r.skillsGone) \cup {m}]
      /\ projects' = [projects EXCEPT ![p] =
                         IF r.projects THEN (projects[p] \ r.projectsGone) \cup {m} ELSE projects[p]]
      /\ submission' = [submission EXCEPT ![m] = Done]
  BY DEF ReplaceProfessionalSkills, structureVars, signalVars
<1> HIDE DEF p, r
<1>4. /\ profile' \in [Students -> Profile \cup {Null}]
      /\ \A q \in Students : q # p => profile'[q] = profile[q]
      /\ profile'[p] # Null
      /\ profile'[p].path = profile[p].path
      /\ profile'[p].declared = profile[p].declared
      /\ profile'[p].professional = m
  <2>1. profile \in [Students -> Profile \cup {Null}] /\ profile[p] \in Profile
    BY <1>2 DEF SafeInv, ProfilesTyped, ProfilesTypeOK
  <2> QED
    BY <1>2, <1>3, <2>1 DEF Profile
<1>5. /\ skills' \in [Students -> SUBSET Sources]
      /\ projects' \in [Students -> SUBSET Sources]
      /\ skills'[p] = {m}
      /\ projects'[p] = {m} \/ projects'[p] = projects[p]
      /\ \A q \in Students : q # p => skills'[q] = skills[q] /\ projects'[q] = projects[q]
  BY <1>2, <1>3 DEF SafeInv, ProfilesTyped, ProfilesTypeOK
<1>6. GoesOn(m, Done) /\ IsSubmission(Done)
  BY <1>3, SubmissionMoves DEF SafeInv, IsSubmission
<1>7. ProfilesTyped'
  <2>1. /\ submission' = [k \in Submissions |-> submission'[k]]
        /\ \A k \in Submissions : IsSubmission(submission'[k])
    BY <1>6, SubmissionsTyped DEF SafeInv
  <2> QED
    BY <1>3, <1>4, <1>5, <2>1, TypedAgain DEF SafeInv, ProfilesTyped, ProfilesTypeOK, teamVars
<1>8. ChecksStood'
  BY <1>3, <1>6 DEF SafeInv, ChecksStood, HasSeen, Stood, GoesOn
<1>9. ReplacementsAreAlone'
  <2>1. ASSUME NEW k \in Submissions PROVE ReplacesAlone(k, submission[k])'
    <3>1. CASE k = m
      BY <1>6, <3>1 DEF ReplacesAlone, HoldsProfile, GoesOn
    <3>2. CASE k # m
      <4>1. submission'[k] = submission[k] /\ ReplacesAlone(k, submission[k])
        BY <1>6, <3>2 DEF GoesOn, SafeInv, ReplacementsAreAlone
      <4>2. \A j \in Submissions : HoldsProfile(submission'[j]) => submission'[j] = submission[j]
        BY <1>6 DEF GoesOn, HoldsProfile
      <4>3. HoldsProfile(submission[k]) => submission[k].of # p /\ submission[k].of \in Students
        BY <1>2, <3>2, SubmissionFields DEF HoldsProfile, SafeInv, ProfilesTyped
      <4> QED
        BY <1>4, <1>5, <4>1, <4>2, <4>3 DEF ReplacesAlone, HoldsProfile
    <3> QED
      BY <3>1, <3>2
  <2> QED
    BY <2>1 DEF ReplacementsAreAlone
<1>10. PathsHoldTogether'
  BY <1>2, <1>3, <1>4 DEF SafeInv, PathsHoldTogether, Exists
<1>11. ProfessionalIsOfOnePiece'
  <2>1. Cardinality({m}) = 1 /\ {m} \ {Null} = {m}
    BY FS_Singleton
  <2>2. \A q \in Students : skills'[q] = IF profile'[q] # Null
                                         THEN {profile'[q].professional} \ {Null} ELSE {}
    <3>1. {profile'[p].professional} \ {Null} = {m}
      BY <1>4, <2>1
    <3> QED
      BY <1>4, <1>5, <3>1 DEF SafeInv, ProfessionalIsOfOnePiece
  <2>3. ASSUME NEW q \in Students PROVE Cardinality(projects'[q]) <= 1
    <3>1. projects'[q] = {m} \/ projects'[q] = projects[q]
      BY <1>5
    <3>2. Cardinality(projects[q]) <= 1
      BY DEF SafeInv, ProfessionalIsOfOnePiece
    <3>3. CASE projects'[q] = {m}
      BY <2>1, <3>3
    <3> QED
      BY <3>1, <3>2, <3>3
  <2> QED
    BY <2>2, <2>3 DEF ProfessionalIsOfOnePiece
<1> QED
  BY <1>7, <1>8, <1>9, <1>10, <1>11 DEF SafeInv

\* Computations touch neither the profiles nor who holds one.
LEMMA ComputationIsSafe ==
    ASSUME SafeInv, SignalsNext, UNCHANGED <<structureVars, skills, projects>>
    PROVE  SafeInv'
<1> USE DEF structureVars
<1>1. ComputationMoves
  BY ComputationsTyped DEF SafeInv
<1>2. /\ submission' = [k \in Submissions |-> submission'[k]]
      /\ \A k \in Submissions : IsSubmission(submission'[k])
      /\ \A k \in Submissions : submission'[k] = submission[k]
                                \/ submission'[k].doing \in {"computed", "recording", "done"}
  <2>1. CASE UNCHANGED submission
    BY <2>1 DEF SafeInv, ProfilesTyped
  <2>2. ASSUME NEW m \in Submissions, NEW e, GoesOn(m, e), IsSubmission(e),
               e.doing \in {"computed", "recording", "done"}
        PROVE  /\ submission' = [k \in Submissions |-> submission'[k]]
               /\ \A k \in Submissions : IsSubmission(submission'[k])
               /\ \A k \in Submissions \ {m} : submission'[k] = submission[k]
               /\ submission'[m].doing \in {"computed", "recording", "done"}
    BY <2>2, SubmissionsTyped DEF SafeInv, GoesOn
  <2> QED
    BY <1>1, <2>1, <2>2 DEF ComputationMoves
<1>3. ProfilesTyped'
  <2>1. (DOMAIN signals \subseteq DOMAIN Verdicts(members))' /\ (signals = <<>> \/ IsResults(signals))'
    <3>1. DOMAIN signals \subseteq CodeSet /\ (signals = <<>> \/ IsResults(signals))
      BY SignalsHaveCodes DEF SafeInv, ProfilesTyped
    <3>2. DOMAIN signals' \subseteq CodeSet
      BY <1>1, <3>1 DEF ComputationMoves, IsResults
    <3> QED
      BY <1>1, <3>1, <3>2 DEF ComputationMoves, IsResults, Verdicts, CodeSet
  <2> QED
    BY <1>1, <1>2, <2>1 DEF ComputationMoves, SafeInv, ProfilesTyped, ProfilesTypeOK
<1>4. ChecksStood'
  BY <1>2 DEF SafeInv, ChecksStood, HasSeen, Stood
<1>5. ReplacementsAreAlone'
  BY <1>1, <1>2 DEF ComputationMoves, SafeInv, ReplacementsAreAlone, ReplacesAlone, HoldsProfile
<1>6. PathsHoldTogether' /\ ProfessionalIsOfOnePiece'
  BY <1>1 DEF ComputationMoves, SafeInv, PathsHoldTogether, Exists, ProfessionalIsOfOnePiece
<1> QED
  BY <1>3, <1>4, <1>5, <1>6 DEF SafeInv

LEMMA SafeStep == ASSUME SafeInv, [ProfilesNext]_studentVars PROVE SafeInv'
<1>1. CASE AdminNext
  BY <1>1, AdminIsSafe
<1>2. ASSUME NEW m \in Submissions, StudentNext(m) PROVE SafeInv'
  <2>1. ASSUME NEW answer \in Answers, UpsertAcademicInformation(m, answer) PROVE SafeInv'
    BY <2>1, UpsertIsSafe
  <2>2. CASE ReplaceProfessionalSkills(m)
    BY <2>2, ReplaceIsSafe
  <2> QED
    BY <1>2, <2>1, <2>2, ReadsAreSafe DEF StudentNext
<1>3. CASE SignalsNext /\ UNCHANGED <<structureVars, skills, projects>>
  BY <1>3, ComputationIsSafe
<1>4. CASE UNCHANGED studentVars
  <2> USE DEF studentVars, structureVars, profileVars, signalVars
  <2>1. ProfilesTyped'
    BY <1>4 DEF SafeInv, ProfilesTyped, ProfilesTypeOK, Verdicts
  <2>2. ChecksStood' /\ ReplacementsAreAlone'
    BY <1>4 DEF SafeInv, ChecksStood, HasSeen, Stood, ReplacementsAreAlone, ReplacesAlone,
                HoldsProfile
  <2>3. PathsHoldTogether' /\ ProfessionalIsOfOnePiece'
    BY <1>4 DEF SafeInv, PathsHoldTogether, Exists, ProfessionalIsOfOnePiece
  <2> QED
    BY <2>1, <2>2, <2>3 DEF SafeInv
<1> QED
  BY <1>1, <1>2, <1>3, <1>4 DEF ProfilesNext

LEMMA SafeInvHolds == ProfilesSpec => []SafeInv
  BY SafeInit, SafeStep, PTL DEF ProfilesSpec

\* The columns keep their types.
THEOREM ProfilesKeepTypes == ProfilesSpec => []ProfilesTypeOK
<1>1. SafeInv => ProfilesTypeOK
  BY DEF SafeInv, ProfilesTyped
<1> QED
  BY <1>1, SafeInvHolds, PTL

\* Whatever becomes of the structure between the checks and the upsert, a
\* profile's path exists and hangs together but for later moves.
THEOREM PathsHold == ProfilesSpec => []PathsHoldTogether
<1>1. SafeInv => PathsHoldTogether
  BY DEF SafeInv
<1> QED
  BY <1>1, SafeInvHolds, PTL

\* However submissions overlap, the professional information of a profile is
\* that of one of them.
THEOREM ProfessionalIsWhole == ProfilesSpec => []ProfessionalIsOfOnePiece
<1>1. SafeInv => ProfessionalIsOfOnePiece
  BY DEF SafeInv
<1> QED
  BY <1>1, SafeInvHolds, PTL

\* A submission that did not find the profile undated never will have: it found
\* a date, or nobody had a profile and the one who creates it dates it.
FindingsHold ==
    \A m \in Submissions :
        submission[m].doing = "upserting" =>
            submission[m].found = <<Null>> \/ ~Undated(submission[m].of)

Upserts(m) == \E answer \in Answers : UpsertAcademicInformation(m, answer)

\* Only an upsert touches the profiles' dates.
LEMMA DatesRest ==
    ASSUME SafeInv, [ProfilesNext]_studentVars, \A m \in Submissions : ~Upserts(m)
    PROVE  \A p \in Students :
              /\ HasProfile(p)' <=> HasProfile(p)
              /\ HasProfile(p) => profile'[p].declared = profile[p].declared
<1>1. CASE AdminNext
  BY <1>1, AdminMovesStructure DEF SafeInv, StructureMoves, profileVars
<1>2. ASSUME NEW m \in Submissions, ReplaceProfessionalSkills(m)
      PROVE  \A p \in Students :
                /\ HasProfile(p)' <=> HasProfile(p)
                /\ HasProfile(p) => profile'[p].declared = profile[p].declared
  <2>1. /\ profile \in [Students -> Profile \cup {Null}]
        /\ profile' = [profile EXCEPT ![submission[m].of].professional = m]
    BY <1>2 DEF ReplaceProfessionalSkills, SafeInv, ProfilesTyped, ProfilesTypeOK
  <2>2. submission[m].of \in Students /\ HasProfile(submission[m].of)
    BY <1>2, SubmissionFields
       DEF ReplaceProfessionalSkills, SafeInv, ProfilesTyped, ReplacementsAreAlone,
           ReplacesAlone, HoldsProfile
  <2>3. PICK p \in Students : p = submission[m].of
    BY <2>2
  <2>4. profile[p] \in Profile /\ profile'[p] = [profile[p] EXCEPT !.professional = m]
    BY <2>1, <2>2, <2>3
  <2>5. profile'[p] \in Profile /\ profile'[p].declared = profile[p].declared
    BY <2>4 DEF Profile
  <2> QED
    BY <2>1, <2>2, <2>3, <2>5
<1>3. CASE UNCHANGED profile
  BY <1>3
<1>4. ASSUME NEW m \in Submissions, StudentNext(m)
      PROVE  ReplaceProfessionalSkills(m) \/ UNCHANGED profile
  BY <1>4 DEF StudentNext, Upserts, AcademicStarts, Checks, FindsDeclaration,
              ProfessionalStarts, UpdatesProfile, DeletesRows, Abandons, profileVars
<1>5. CASE SignalsNext
  BY <1>5, ComputationsTyped DEF SafeInv, ComputationMoves
<1>6. CASE UNCHANGED studentVars
  BY <1>6 DEF studentVars, profileVars
<1> QED
  BY <1>1, <1>2, <1>3, <1>4, <1>5, <1>6 DEF ProfilesNext

\* Whoever is about to upsert was so before, or has just read the profile; and
\* whoever has upserted did it in this step.
LEMMA UpsertsComeFromReads ==
    ASSUME SafeInv, [ProfilesNext]_studentVars, NEW k \in Submissions
    PROVE  /\ submission'[k].doing = "upserting" =>
                 submission'[k] = submission[k] \/ FindsDeclaration(k)
           /\ submission[k].doing = "upserting" /\ submission'[k].doing = "upserted" =>
                 Upserts(k)
<1> DEFINE Goes == /\ submission'[k].doing = "upserting" =>
                        submission'[k] = submission[k] \/ FindsDeclaration(k)
                   /\ submission[k].doing = "upserting" /\ submission'[k].doing = "upserted" =>
                        Upserts(k)
<1>1. CASE submission'[k] = submission[k]
  BY <1>1
<1>2. CASE submission'[k].doing \notin {"upserting", "upserted"}
  BY <1>2
<1>3. ASSUME NEW m \in Submissions, StudentNext(m) PROVE Goes
  <2>1. ASSUME NEW e, submission' = [submission EXCEPT ![m] = e],
               e.doing \notin {"upserting", "upserted"}
        PROVE  Goes
    BY <1>1, <1>2, <2>1, SubmissionMoves DEF SafeInv, GoesOn
  <2>2. ASSUME NEW e, submission' = [submission EXCEPT ![m] = e],
               FindsDeclaration(m) \/ Upserts(m)
        PROVE  Goes
    <3>1. CASE k # m
      BY <1>1, <2>2, <3>1, SubmissionMoves DEF SafeInv, GoesOn
    <3>2. CASE k = m /\ FindsDeclaration(m)
      BY <3>2 DEF FindsDeclaration
    <3>3. CASE k = m /\ Upserts(m)
      <4>1. submission' = [submission EXCEPT ![m] = [doing |-> "upserted", of |-> submission[m].of]]
        BY <3>3 DEF Upserts, UpsertAcademicInformation
      <4>2. submission'[m].doing = "upserted"
        BY <4>1, SubmissionMoves DEF SafeInv, GoesOn
      <4> QED
        BY <3>3, <4>2
    <3> QED
      BY <2>2, <3>1, <3>2, <3>3
  <2>3. CASE FindsDeclaration(m)
    BY <2>2, <2>3 DEF FindsDeclaration
  <2>4. CASE Upserts(m)
    BY <2>2, <2>4 DEF Upserts, UpsertAcademicInformation
  <2> HIDE DEF Goes
  <2>5. ASSUME NEW p \in Authors, NEW u \in Universities, NEW f \in Faculties,
               NEW s \in Specializations, AcademicStarts(m, p, u, f, s)
        PROVE  Goes
    BY <2>1, <2>5 DEF AcademicStarts
  <2>6. ASSUME NEW n \in Nodes, Checks(m, n) PROVE Goes
    BY <2>1, <2>6 DEF Checks
  <2>7. ASSUME NEW p \in Authors, NEW withProjects \in BOOLEAN,
               ProfessionalStarts(m, p, withProjects)
        PROVE  Goes
    BY <2>1, <2>7 DEF ProfessionalStarts
  <2>8. CASE UpdatesProfile(m)
    BY <2>1, <2>8 DEF UpdatesProfile
  <2>9. CASE DeletesRows(m)
    BY <2>1, <2>9 DEF DeletesRows
  <2>10. CASE ReplaceProfessionalSkills(m)
    BY <2>1, <2>10 DEF ReplaceProfessionalSkills
  <2>11. CASE Abandons(m)
    BY <2>1, <2>11 DEF Abandons
  <2> QED
    BY <1>3, <2>3, <2>4, <2>5, <2>6, <2>7, <2>8, <2>9, <2>10, <2>11 DEF StudentNext, Upserts
<1>4. CASE SignalsNext
  BY <1>1, <1>2, <1>4, ComputationsTyped DEF SafeInv, ComputationMoves, GoesOn
<1>5. CASE AdminNext
  <2>1. UNCHANGED submission
    BY <1>5 DEF AdminNext, CreateUniversity, CreateBelow, SetActive, Move, Delete
  <2> QED
    BY <1>1, <2>1
<1>6. CASE UNCHANGED studentVars
  BY <1>1, <1>6 DEF studentVars
<1> QED
  BY <1>3, <1>4, <1>5, <1>6 DEF ProfilesNext

\* What a submission finds that reads the profile.
LEMMA FindingsAre ==
    ASSUME SafeInv, NEW m \in Submissions, FindsDeclaration(m)
    PROVE  /\ submission'[m].found = <<Null>> <=> Undated(submission'[m].of)
           /\ \A k \in Submissions : ~Upserts(k)
<1>1. submission'[m] = [doing |-> "upserting", of |-> submission[m].of,
                        path |-> submission[m].path,
                        found |-> IF HasProfile(submission[m].of)
                                  THEN <<profile[submission[m].of].declared>> ELSE <<>>]
  BY SubmissionMoves DEF FindsDeclaration, SafeInv, GoesOn
<1>2. ASSUME NEW k \in Submissions, Upserts(k) PROVE FALSE
  <2>1. PICK e : /\ e.doing = "upserted" /\ submission[k].doing = "upserting"
                 /\ submission' = [submission EXCEPT ![k] = e]
    BY <1>2 DEF Upserts, UpsertAcademicInformation
  <2>2. submission'[k].doing = "upserted" /\ (k # m => submission'[m] = submission[m])
    BY <2>1, SubmissionMoves DEF SafeInv, GoesOn
  <2> QED
    BY <1>1, <2>1, <2>2 DEF FindsDeclaration
<1> QED
  BY <1>1, <1>2 DEF Undated

\* A step without an upsert: dates and those without stay, and whoever comes to
\* find one undated found it so.
LEMMA RestingDates ==
    ASSUME SafeInv, FindingsHold, [ProfilesNext]_studentVars,
           \A m \in Submissions : ~Upserts(m)
    PROVE  (\A p \in Students : KeepsDate(p)) /\ FindingsHold'
<1>1. \A p \in Students : Undated(p)' <=> Undated(p)
  BY DatesRest DEF Undated
<1>2. ASSUME NEW p \in Students, ~Undated(p) PROVE FoundUndated(p)' \subseteq FoundUndated(p)
  <2>1. ASSUME NEW k \in Submissions, submission'[k].doing = "upserting",
               submission'[k].of = p, submission'[k].found = <<Null>>
        PROVE  submission'[k] = submission[k]
    BY <1>2, <2>1, UpsertsComeFromReads, FindingsAre
  <2> QED
    BY <2>1 DEF FoundUndated
<1>3. ASSUME NEW p \in Students PROVE KeepsDate(p)
  BY <1>1, <1>2, <1>3, DatesRest, UpsertsComeFromReads DEF KeepsDate
<1>4. ASSUME NEW m \in Submissions, submission'[m].doing = "upserting"
      PROVE  submission'[m].found = <<Null>> \/ ~Undated(submission[m].of)'
  <2>1. PICK p : p = submission'[m].of
    OBVIOUS
  <2>2. submission'[m].found = <<Null>> \/ ~Undated(p)
    BY <1>4, <2>1, UpsertsComeFromReads, FindingsAre DEF FindingsHold
  <2>3. p \in Students
    BY <1>4, <2>1, SafeStep, SubmissionFields DEF SafeInv, ProfilesTyped
  <2>4. ~Undated(p) => ~Undated(p)'
    BY <1>1, <2>3
  <2> QED
    BY <2>1, <2>2, <2>4 DEF Undated
<1> QED
  BY <1>3, <1>4 DEF FindingsHold

\* An upsert dates the profile when it found it undated, or there is none.
LEMMA UpsertDates ==
    ASSUME SafeInv, FindingsHold, NEW m \in Submissions, NEW answer \in Answers,
           UpsertAcademicInformation(m, answer)
    PROVE  (\A p \in Students : KeepsDate(p)) /\ FindingsHold'
<1>1. PICK p : p = submission[m].of
  OBVIOUS
<1>2. /\ p \in Students
      /\ \A q \in Students : q # p => profile'[q] = profile[q]
      /\ profile'[p] # Null
      /\ profile'[p].declared = IF HasProfile(p) /\ ~DatesWhen(submission[m].found)
                                THEN profile[p].declared ELSE m
  BY <1>1, UpsertLeaves
<1>3. submission[m].doing = "upserting" /\ m # Null
  BY DEF UpsertAcademicInformation
<1>4. GoesOn(m, [doing |-> "upserted", of |-> p])
  BY <1>1, SubmissionMoves DEF UpsertAcademicInformation, SafeInv
<1>5. ~Undated(p)'
  BY <1>1, <1>2, <1>3 DEF FindingsHold, Undated, DatesWhen
<1>6. \A q \in Students : ~Undated(q) => ~Undated(q)'
  BY <1>2, <1>5 DEF Undated
<1>7. \A q \in Students : FoundUndated(q)' \subseteq FoundUndated(q) \ {m}
  BY <1>4 DEF GoesOn, FoundUndated
<1>8. DatesWhen(submission[m].found) => m \in FoundUndated(p)
  BY <1>1, <1>3 DEF FoundUndated, DatesWhen
<1>9. ASSUME NEW q \in Students PROVE KeepsDate(q)
  <2>1. HasProfile(q) => HasProfile(q)'
    BY <1>2
  <2>2. ASSUME NEW k \in Submissions, submission[k].doing = "upserting",
               submission[k].of = q, submission'[k].doing = "upserted"
        PROVE  ~Undated(q)'
    <3>1. k = m
      BY <1>4, <2>2 DEF GoesOn
    <3> QED
      BY <1>1, <1>5, <2>2, <3>1
  <2>3. HasProfile(q) => \/ profile'[q].declared = profile[q].declared
                         \/ profile'[q].declared = m /\ m \in FoundUndated(q) \ FoundUndated(q)'
    BY <1>2, <1>7, <1>8
  <2>4. ~Undated(q) => ~Undated(q)' /\ FoundUndated(q)' \subseteq FoundUndated(q)
    BY <1>6, <1>7
  <2> QED
    BY <2>1, <2>2, <2>3, <2>4 DEF KeepsDate
<1>10. ASSUME NEW k \in Submissions, submission'[k].doing = "upserting"
       PROVE  submission'[k].found = <<Null>> \/ ~Undated(submission[k].of)'
  <2>1. k # m /\ submission'[k] = submission[k] /\ submission[k].doing = "upserting"
    BY <1>4, <1>10 DEF GoesOn
  <2>2. PICK q : q = submission[k].of /\ q \in Students
    BY <2>1, SubmissionFields DEF SafeInv, ProfilesTyped
  <2>3. submission[k].found = <<Null>> \/ ~Undated(q)'
    BY <1>6, <2>1, <2>2 DEF FindingsHold
  <2> QED
    BY <2>1, <2>2, <2>3 DEF Undated
<1> QED
  BY <1>9, <1>10 DEF FindingsHold

\* The date a profile is created with is final.  A profile of the seed is dated
\* with the first academic information, and dated again by nobody but those
\* who had found it undated.
THEOREM DeclarationKeepsItsDate == ProfilesSpec => DeclarationStands
<1>1. ProfilesInit => FindingsHold
  BY DEF ProfilesInit, FindingsHold
<1>2. SafeInv /\ FindingsHold /\ [ProfilesNext]_studentVars
      => (\A p \in Students : KeepsDate(p)) /\ FindingsHold'
  <2>1. ASSUME NEW m \in Submissions, Upserts(m), SafeInv, FindingsHold
        PROVE  (\A p \in Students : KeepsDate(p)) /\ FindingsHold'
    BY <2>1, UpsertDates DEF Upserts
  <2> QED
    BY <2>1, RestingDates
<1>3. SafeInv /\ FindingsHold /\ [ProfilesNext]_studentVars
      => [\A p \in Students : KeepsDate(p)]_studentVars /\ FindingsHold'
  BY <1>2
<1> QED
  BY <1>1, <1>3, SafeInvHolds, PTL DEF ProfilesSpec, DeclarationStands

-----------------------------------------------------------------------------
(***************************************************************************)
(* The signals of an application                                           *)
(***************************************************************************)
\* The inductive invariant: a computation around which nothing has changed is
\* the only one and on course.
HealInv == SafeInv /\ ComputationsAreOnCourse

\* Signals of all the codes that say what the verdicts say are the verdicts.
LEMMA VerdictsAre ==
    ASSUME NEW f, IsResults(f), NEW team,
           \A c \in CodeSet : c \in DOMAIN f /\ f[c] = Against(c, team)
    PROVE  f = Verdicts(team)
<1>1. DOMAIN f = CodeSet /\ f = [c \in DOMAIN f |-> f[c]]
  BY DEF IsResults
<1>2. f = [c \in CodeSet |-> Against(c, team)]
  BY <1>1
<1> QED
  BY <1>2 DEF Verdicts, CodeSet

\* What differs from the stored signals completes them.
LEMMA DifferingCompletes ==
    ASSUME NEW team, NEW c \in CodeSet
    PROVE  LET f == Differing(Verdicts(team)) IN
           IF c \in DOMAIN f THEN f[c] = Against(c, team)
           ELSE c \in DOMAIN signals /\ signals[c] = Against(c, team)
<1>1. c \in DOMAIN Verdicts(team) /\ Verdicts(team)[c] = Against(c, team)
      /\ IsResults(Verdicts(team))
  BY VerdictsAreResults
<1> QED
  BY <1>1, DifferingIsResults DEF Differs

\* The team of a computation consists of students.
LEMMA TeamsAreStudents ==
    ASSUME SafeInv, NEW m \in Submissions, Computing(m)
    PROVE  TeamOf(submission[m]) \subseteq Students
<1>1. members \subseteq Students /\ IsComputation(submission[m])
  BY SubmissionFields DEF SafeInv, ProfilesTyped, ProfilesTypeOK
<1> QED
  BY <1>1 DEF TeamOf, IsComputation

\* Whoever disturbs the computations has nothing to keep.
LEMMA DisturbedHeals == ASSUME SafeInv', quiet' = "disturbed" PROVE HealInv'
  BY DEF HealInv, ComputationsAreOnCourse

\* A step that changes nothing a computation reads or writes.
LEMMA AsideHeals ==
    ASSUME HealInv, SafeInv', UNCHANGED <<members, signals, quiet>>,
           \A c \in CodeSet : \A team \in SUBSET Students :
              Against(c, team)' = Against(c, team),
           \A k \in Submissions :
              submission'[k].doing \in {"computed", "recording"} => submission'[k] = submission[k]
    PROVE  HealInv'
<1>1. \A team \in SUBSET Students : Verdicts(team)' = Verdicts(team)
  BY DEF Verdicts, CodeSet
<1>2. \A k \in Submissions : Computing(k)' => Computing(k) /\ submission'[k] = submission[k]
  OBVIOUS
<1>3. ASSUME NEW k \in Submissions, Computing(k)', quiet = "alone" PROVE OnCourse(submission[k])'
  <2> DEFINE r == submission[k]
  <2>1. Computing(k) /\ submission'[k] = r /\ OnCourse(r)
    BY <1>2, <1>3 DEF HealInv, ComputationsAreOnCourse
  <2>2. TeamOf(r) \in SUBSET Students
    BY <2>1, TeamsAreStudents DEF HealInv
  <2>3. TeamOf(submission[k])' = TeamOf(r)
    BY <2>1 DEF TeamOf
  <2>4. Verdicts(TeamOf(submission[k]))' = Verdicts(TeamOf(r))
    BY <1>1, <2>2, <2>3 DEF Verdicts, CodeSet
  <2>5. \A c \in CodeSet : Against(c, TeamOf(submission[k]))' = Against(c, TeamOf(r))
    BY <2>2, <2>3
  <2> QED
    BY <2>1, <2>4, <2>5 DEF OnCourse
<1>4. members \in SUBSET Students
  BY DEF HealInv, SafeInv, ProfilesTyped, ProfilesTypeOK
<1>5. Verdicts(members)' = Verdicts(members)
  BY <1>1, <1>4
<1> QED
  BY <1>2, <1>3, <1>5 DEF HealInv, ComputationsAreOnCourse

\* The verdicts are made of the profiles and the call's rules.
LEMMA FactsStand ==
    ASSUME UNCHANGED <<profile, limits>>
    PROVE  \A team : /\ \A c \in CodeSet : Against(c, team)' = Against(c, team)
                     /\ Verdicts(team)' = Verdicts(team)
  BY DEF Against, Limit, Verdicts, CodeSet

\* A computation is on course as long as what it reads and writes stays.
LEMMA StaysOnCourse ==
    ASSUME NEW e, OnCourse(e), UNCHANGED <<profile, limits, members, signals>>
    PROVE  OnCourse(e)'
<1>1. PICK team : team = TeamOf(e)
  OBVIOUS
<1>2. TeamOf(e)' = team
  BY <1>1 DEF TeamOf
<1>3. (\A c \in CodeSet : Against(c, team)' = Against(c, team)) /\ Verdicts(team)' = Verdicts(team)
  BY FactsStand
<1>4. e.doing = "computed" => e.results = Verdicts(team)'
  BY <1>1, <1>3 DEF OnCourse
<1>5. e.doing = "recording" =>
         \A c \in CodeSet :
            IF c \in DOMAIN e.results THEN e.results[c] = Against(c, team)'
            ELSE c \in DOMAIN signals' /\ signals'[c] = Against(c, team)'
  BY <1>1, <1>3 DEF OnCourse
<1> QED
  BY <1>2, <1>4, <1>5 DEF OnCourse, Verdicts

\* There are no signals before the first computation.
LEMMA HealInit == ProfilesInit => HealInv
<1> SUFFICES ASSUME ProfilesInit PROVE HealInv
  OBVIOUS
<1>1. signals = <<>> /\ quiet = "settled" /\ \A m \in Submissions : submission[m] = Unsent
  BY DEF ProfilesInit, SignalsInit
<1> QED
  BY <1>1, SafeInit DEF HealInv, ComputationsAreOnCourse

\* A computation that begins alone begins on course.
LEMMA BeginsHeals ==
    ASSUME HealInv, SafeInv', NEW m \in Submissions, NEW e, OnCourse(e), Begins(m),
           GoesOn(m, e), UNCHANGED <<profile, teamVars, signals>>
    PROVE  HealInv'
<1>1. CASE \E k \in Submissions \ {m} : Computing(k)
  BY <1>1, DisturbedHeals DEF Begins
<1>2. CASE ~ \E k \in Submissions \ {m} : Computing(k)
  <2>1. quiet' = "alone" /\ \A k \in Submissions \ {m} : ~Computing(k)'
    BY <1>2 DEF Begins, GoesOn
  <2>2. OnCourse(e)'
    BY StaysOnCourse DEF teamVars
  <2>3. OnCourse(submission[m])'
    BY <2>2 DEF GoesOn, OnCourse, TeamOf
  <2> QED
    BY <2>1, <2>3 DEF HealInv, ComputationsAreOnCourse
<1> QED
  BY <1>1, <1>2

\* One that goes on stays on course.
LEMMA ContinuesHeals ==
    ASSUME HealInv, SafeInv', NEW m \in Submissions, NEW e, Computing(m), UNCHANGED quiet,
           GoesOn(m, e),
           quiet = "alone" => OnCourse(e)'
    PROVE  HealInv'
<1>1. quiet # "settled"
  BY DEF HealInv, ComputationsAreOnCourse
<1>2. ASSUME quiet = "alone"
      PROVE  OnCourse(submission[m])' /\ \A k \in Submissions \ {m} : ~Computing(k)'
  BY <1>2 DEF GoesOn, OnCourse, TeamOf, HealInv, ComputationsAreOnCourse
<1> QED
  BY <1>1, <1>2 DEF HealInv, ComputationsAreOnCourse

\* One that finishes alone leaves the verdicts of the moment.
LEMMA FinishesHeals ==
    ASSUME HealInv, SafeInv', NEW m \in Submissions, Computing(m), Finishes(m),
           quiet = "alone" => signals' = Verdicts(members)'
    PROVE  HealInv'
<1>1. GoesOn(m, Done)
  BY SubmissionMoves DEF HealInv, SafeInv, Finishes
<1>2. quiet \in {"alone", "disturbed"}
  BY DEF HealInv, ComputationsAreOnCourse, SafeInv, ProfilesTyped, ProfilesTypeOK
<1>3. CASE quiet = "disturbed"
  BY <1>3, DisturbedHeals DEF Finishes
<1>4. CASE quiet = "alone"
  <2>1. \A k \in Submissions : ~Computing(k)'
    BY <1>1, <1>4 DEF GoesOn, HealInv, ComputationsAreOnCourse
  <2> QED
    BY <1>4, <2>1 DEF Finishes, HealInv, ComputationsAreOnCourse
<1> QED
  BY <1>2, <1>3, <1>4

\* What a computation is, and what being alone says of it.
LEMMA ComputationIs ==
    ASSUME HealInv, NEW m \in Submissions, Computing(m)
    PROVE  /\ IsComputation(submission[m])
           /\ IsResults(submission[m].results)
           /\ quiet = "alone" => OnCourse(submission[m])
           /\ signals = <<>> \/ IsResults(signals)
  BY SubmissionFields
     DEF HealInv, SafeInv, ProfilesTyped, ComputationsAreOnCourse, IsComputation

\* Reading the stored signals leaves what remains to record.
LEMMA ReadsSignalsHeals ==
    ASSUME HealInv, SafeInv', NEW m \in Submissions, ReadsSignals(m)
    PROVE  HealInv'
<1> DEFINE r == submission[m]
           left == Differing(r.results)
<1>1. /\ r.doing = "computed" /\ Computing(m) /\ IsResults(r.results)
      /\ UNCHANGED <<profile, application, members, limits, signals>>
      /\ signals = <<>> \/ IsResults(signals)
  BY ComputationIs DEF ReadsSignals, teamVars
<1>2. ASSUME quiet = "alone", NEW c \in CodeSet
      PROVE  /\ r.results = Verdicts(TeamOf(r))
             /\ IF c \in DOMAIN left THEN left[c] = Against(c, TeamOf(r))
                ELSE c \in DOMAIN signals /\ signals[c] = Against(c, TeamOf(r))
  <2>1. r.results = Verdicts(TeamOf(r))
    BY <1>1, <1>2, ComputationIs DEF OnCourse
  <2> HIDE DEF r
  <2> QED
    BY <2>1, DifferingCompletes
<1>3. CASE r.by \in {"reader", "student"} /\ left = <<>>
  <2>1. Finishes(m)
    BY <1>3 DEF ReadsSignals
  <2>2. ASSUME quiet = "alone" PROVE signals = Verdicts(members)
    <3>1. TeamOf(r) = members
      BY <1>3 DEF TeamOf
    <3>2. DOMAIN left = {}
      BY <1>3
    <3>3. \A c \in CodeSet : c \in DOMAIN signals /\ signals[c] = Against(c, members)
      BY <1>2, <2>2, <3>1, <3>2
    <3>4. "TEAM_SIZE_MIN" \in CodeSet
      BY DEF CodeSet, Codes
    <3>5. IsResults(signals)
      BY <1>1, <3>3, <3>4
    <3> QED
      BY <3>3, <3>5, VerdictsAre
  <2>3. Verdicts(members)' = Verdicts(members)
    BY <1>1 DEF Verdicts, Against, Limit
  <2> QED
    BY <1>1, <2>1, <2>2, <2>3, FinishesHeals
<1>4. CASE ~(r.by \in {"reader", "student"} /\ left = <<>>)
  <2>1. PICK e : e = [doing |-> "recording", by |-> r.by, of |-> r.of, results |-> left]
    OBVIOUS
  <2>2. GoesOn(m, e) /\ UNCHANGED quiet
    BY <1>4, <2>1, SubmissionMoves DEF ReadsSignals, HealInv, SafeInv
  <2>3. ASSUME quiet = "alone" PROVE OnCourse(e)'
    <3>1. TeamOf(e) = TeamOf(r) /\ e.doing = "recording" /\ e.results = left
      BY <2>1 DEF TeamOf
    <3>2. ASSUME NEW c \in CodeSet
          PROVE  IF c \in DOMAIN e.results THEN e.results[c] = Against(c, TeamOf(e))
                 ELSE c \in DOMAIN signals /\ signals[c] = Against(c, TeamOf(e))
      BY <1>2, <2>3, <3>1
    <3>3. OnCourse(e)
      BY <3>1, <3>2 DEF OnCourse
    <3> QED
      BY <1>1, <3>3, StaysOnCourse
  <2> QED
    BY <1>1, <2>2, <2>3, ContinuesHeals
<1> QED
  BY <1>3, <1>4

\* The computations that begin compute today's verdicts.
LEMMA BeginningHeals ==
    ASSUME HealInv, SafeInv', NEW m \in Submissions,
           \/ GetEligibilitySignals(m)
           \/ RecomputeForStudent(m) /\ application \in Active /\ submission[m].of \in members
           \/ SubmitComputes(m)
           \/ \E p \in Students : AcceptComputes(m, p) \/ RemovalReads(m, p)
    PROVE  HealInv'
<1>1. CASE GetEligibilitySignals(m)
  <2>1. PICK e : e = [doing |-> "computed", by |-> "reader", of |-> Null,
                      results |-> Verdicts(members)]
    OBVIOUS
  <2>2. GoesOn(m, e)
    BY <1>1, <2>1, SubmissionMoves DEF GetEligibilitySignals, HealInv, SafeInv
  <2>3. OnCourse(e)
    BY <2>1 DEF OnCourse, TeamOf
  <2> QED
    BY <1>1, <2>2, <2>3, BeginsHeals DEF GetEligibilitySignals
<1>2. CASE RecomputeForStudent(m) /\ application \in Active /\ submission[m].of \in members
  <2>1. PICK e : e = [doing |-> "computed", by |-> "student", of |-> Null,
                      results |-> Verdicts(members)]
    OBVIOUS
  <2>2. GoesOn(m, e)
    BY <1>2, <2>1, SubmissionMoves DEF RecomputeForStudent, HealInv, SafeInv
  <2>3. OnCourse(e)
    BY <2>1 DEF OnCourse, TeamOf
  <2> QED
    BY <1>2, <2>2, <2>3, BeginsHeals DEF RecomputeForStudent
<1>3. CASE SubmitComputes(m)
  <2>1. PICK e : e = [doing |-> "computed", by |-> "submit", of |-> Null,
                      results |-> Verdicts(members)]
    OBVIOUS
  <2>2. GoesOn(m, e)
    BY <1>3, <2>1, SubmissionMoves DEF SubmitComputes, HealInv, SafeInv
  <2>3. OnCourse(e)
    BY <2>1 DEF OnCourse, TeamOf
  <2> QED
    BY <1>3, <2>2, <2>3, BeginsHeals DEF SubmitComputes
<1>4. ASSUME NEW p \in Students, AcceptComputes(m, p) PROVE HealInv'
  <2>1. PICK e : e = [doing |-> "computed", by |-> "accept", of |-> p,
                      results |-> Verdicts(members \cup {p})]
    OBVIOUS
  <2>2. GoesOn(m, e)
    BY <1>4, <2>1, SubmissionMoves DEF AcceptComputes, HealInv, SafeInv
  <2>3. OnCourse(e)
    BY <2>1 DEF OnCourse, TeamOf
  <2> QED
    BY <1>4, <2>2, <2>3, BeginsHeals DEF AcceptComputes
<1>5. ASSUME NEW p \in Students, RemovalReads(m, p) PROVE HealInv'
  <2>1. PICK e : e = [doing |-> "recording", by |-> "remove", of |-> p, seen |-> signals,
                      results |-> Differing(Verdicts(members \ {p}))]
    OBVIOUS
  <2>2. GoesOn(m, e)
    BY <1>5, <2>1, SubmissionMoves DEF RemovalReads, HealInv, SafeInv
  <2>3. OnCourse(e)
    <3>1. TeamOf(e) = members \ {p} /\ e.doing = "recording"
          /\ e.results = Differing(Verdicts(members \ {p}))
      BY <2>1 DEF TeamOf
    <3> QED
      BY <3>1, DifferingCompletes DEF OnCourse
  <2> QED
    BY <1>5, <2>2, <2>3, BeginsHeals DEF RemovalReads
<1> QED
  BY <1>1, <1>2, <1>3, <1>4, <1>5

\* The row that is upserted moves from what is left to what is stored.
LEMMA UpsertSignalHeals ==
    ASSUME HealInv, SafeInv', NEW m \in Submissions, UpsertSignal(m)
    PROVE  HealInv'
<1> DEFINE r == submission[m]
           left == DOMAIN r.results
<1>1. /\ r.doing = "recording" /\ r.by \in {"reader", "student"} /\ Computing(m)
      /\ IsResults(r.results) /\ left # {}
      /\ TeamOf(r) = members
  BY ComputationIs DEF UpsertSignal, IsComputation, TeamOf
<1>2. PICK c : /\ c = Codes[CHOOSE i \in 1..5 : Codes[i] \in left
                                       /\ \A j \in 1..(i - 1) : Codes[j] \notin left]
               /\ c \in left
  BY <1>1, FirstLeft DEF IsResults
<1>3. PICK f : f = [d \in {c} |-> r.results[d]]
  OBVIOUS
<1>4. DOMAIN f = {c} /\ f[c] = r.results[c] /\ DOMAIN f \subseteq CodeSet
  BY <1>1, <1>2, <1>3 DEF IsResults
<1>5. /\ signals' = Upserted(f)
      /\ IF left = {c} THEN Finishes(m)
         ELSE /\ submission' = [submission EXCEPT ![m] =
                    [doing |-> "recording", by |-> r.by, of |-> r.of,
                     results |-> [d \in left \ {c} |-> r.results[d]]]]
              /\ UNCHANGED quiet
      /\ UNCHANGED <<profile, application, members, limits>>
  BY <1>2, <1>3 DEF UpsertSignal, teamVars
<1>6. ASSUME quiet = "alone", NEW d \in CodeSet, d = c \/ d \notin left
      PROVE  d \in DOMAIN signals' /\ signals'[d] = Against(d, members)
  <2>1. OnCourse(r)
    BY <1>1, <1>6, ComputationIs
  <2>2. IF d = c THEN r.results[d] = Against(d, members)
        ELSE d \in DOMAIN signals /\ signals[d] = Against(d, members)
    BY <1>1, <1>2, <1>6, <2>1 DEF OnCourse
  <2> HIDE DEF r
  <2> QED
    BY <1>4, <1>5, <1>6, <2>2 DEF Upserted
<1>7. ASSUME quiet = "alone", NEW d \in left PROVE r.results[d] = Against(d, members)
  BY <1>1, <1>7, ComputationIs DEF OnCourse, IsResults
<1>8. CASE left = {c}
  <2>1. ASSUME quiet = "alone" PROVE signals' = Verdicts(members)'
    <3>1. \A d \in CodeSet : d \in DOMAIN signals' /\ signals'[d] = Against(d, members)
      BY <1>6, <1>8, <2>1
    <3>2. IsResults(signals')
      BY <1>4, <1>5, UpsertedIsResults DEF HealInv, SafeInv
    <3>3. signals' = Verdicts(members)
      BY <3>1, <3>2, VerdictsAre
    <3>4. Verdicts(members)' = Verdicts(members)
      BY <1>5 DEF Verdicts, Against, Limit
    <3> QED
      BY <3>3, <3>4
  <2> QED
    BY <1>1, <1>5, <1>8, <2>1, FinishesHeals
<1>9. CASE left # {c}
  <2>1. PICK e : e = [doing |-> "recording", by |-> r.by, of |-> r.of,
                      results |-> [d \in left \ {c} |-> r.results[d]]]
    OBVIOUS
  <2>2. GoesOn(m, e) /\ UNCHANGED quiet
    BY <1>5, <1>9, <2>1, SubmissionMoves DEF HealInv, SafeInv
  <2>3. ASSUME quiet = "alone" PROVE OnCourse(e)'
    <3>1. /\ TeamOf(e)' = members /\ e.doing = "recording" /\ DOMAIN e.results = left \ {c}
          /\ \A d \in left \ {c} : e.results[d] = r.results[d]
      BY <1>1, <1>5, <2>1 DEF TeamOf
    <3>2. \A d \in CodeSet : Against(d, members)' = Against(d, members)
      BY <1>5 DEF Against, Limit
    <3>3. \A d \in CodeSet :
             IF d \in DOMAIN e.results THEN e.results[d] = Against(d, members)
             ELSE d \in DOMAIN signals' /\ signals'[d] = Against(d, members)
      BY <1>6, <1>7, <2>3, <3>1
    <3> HIDE DEF r
    <3> QED
      BY <1>5, <3>1, <3>2, <3>3 DEF OnCourse
  <2> HIDE DEF r
  <2> QED
    BY <1>1, <2>2, <2>3, ContinuesHeals
<1> QED
  BY <1>8, <1>9

\* What a transaction computed is stored together with the team it is about.
LEMMA CommitHeals ==
    ASSUME HealInv, SafeInv', NEW m \in Submissions, CommitSignals(m)
    PROVE  HealInv'
<1> DEFINE r == submission[m]
<1>1. /\ r.doing = "recording" /\ Computing(m) /\ IsResults(r.results) /\ Finishes(m)
      /\ signals' = Upserted(r.results) /\ UNCHANGED <<profile, limits>>
      /\ members' = TeamOf(r)
  BY ComputationIs DEF CommitSignals, TeamOf
<1>2. ASSUME quiet = "alone" PROVE signals' = Verdicts(TeamOf(r))
  <2>1. OnCourse(r)
    BY <1>1, <1>2, ComputationIs
  <2>2. PICK f : f = r.results /\ IsResults(f) /\ signals' = Upserted(f)
    BY <1>1
  <2>3. \A d \in CodeSet : IF d \in DOMAIN f THEN f[d] = Against(d, TeamOf(r))
                            ELSE d \in DOMAIN signals /\ signals[d] = Against(d, TeamOf(r))
    BY <1>1, <2>1, <2>2 DEF OnCourse
  <2>4. IsResults(signals')
    BY <2>2, UpsertedIsResults DEF IsResults, HealInv, SafeInv
  <2> HIDE DEF r
  <2>5. \A d \in CodeSet : d \in DOMAIN signals' /\ signals'[d] = Against(d, TeamOf(r))
    BY <2>2, <2>3 DEF Upserted
  <2> QED
    BY <2>4, <2>5, VerdictsAre
<1>3. ASSUME quiet = "alone" PROVE signals' = Verdicts(members)'
  <2>1. PICK team : team = members'
    OBVIOUS
  <2>2. Verdicts(members)' = Verdicts(team)'
    BY <2>1 DEF Verdicts
  <2>3. Verdicts(team)' = Verdicts(team)
    BY <1>1, FactsStand
  <2> QED
    BY <1>1, <1>2, <1>3, <2>1, <2>2, <2>3
<1> QED
  BY <1>1, <1>3, FinishesHeals

\* The steps that change nothing a computation reads.
LEMMA SettingAsideHeals ==
    ASSUME HealInv, SafeInv', UNCHANGED <<profile, members, limits, signals, quiet>>,
           \A k \in Submissions :
              submission'[k].doing \in {"computed", "recording"} => submission'[k] = submission[k]
    PROVE  HealInv'
<1>1. \A c \in CodeSet : \A team \in SUBSET Students : Against(c, team)' = Against(c, team)
  BY FactsStand
<1> QED
  BY <1>1, AsideHeals

LEMMA StudentReadHeals ==
    ASSUME HealInv, SafeInv', NEW m \in Submissions, NEW e,
           submission' = [submission EXCEPT ![m] = e], e.doing \notin {"computed", "recording"},
           UNCHANGED <<profile, signalVars>>
    PROVE  HealInv'
<1>1. GoesOn(m, e)
  BY SubmissionMoves DEF HealInv, SafeInv
<1> QED
  BY <1>1, SettingAsideHeals DEF GoesOn, signalVars

\* The signals are about academic information alone.
LEMMA ReplaceHeals ==
    ASSUME HealInv, SafeInv', NEW m \in Submissions, ReplaceProfessionalSkills(m)
    PROVE  HealInv'
<1> DEFINE p == submission[m].of
<1>1. /\ profile' = [profile EXCEPT ![p].professional = m]
      /\ submission' = [submission EXCEPT ![m] = Done]
      /\ UNCHANGED <<members, limits, signals, quiet>>
  BY DEF ReplaceProfessionalSkills, signalVars
<1>2. p \in Students /\ HasProfile(p)
  BY SubmissionFields
     DEF ReplaceProfessionalSkills, HealInv, SafeInv, ProfilesTyped, ReplacementsAreAlone,
         ReplacesAlone, HoldsProfile
<1> HIDE DEF p
<1>3. profile \in [Students -> Profile \cup {Null}] /\ profile[p] \in Profile
  BY <1>2 DEF HealInv, SafeInv, ProfilesTyped, ProfilesTypeOK
<1>4. \A q \in Students :
         /\ HasProfile(q)' <=> HasProfile(q)
         /\ HasProfile(q) => /\ profile'[q].declared = profile[q].declared
                             /\ profile'[q].evidence = profile[q].evidence
                             /\ profile'[q].transferred = profile[q].transferred
                             /\ profile'[q].average = profile[q].average
  BY <1>1, <1>2, <1>3 DEF Profile
<1>5. ASSUME NEW c \in CodeSet, NEW team \in SUBSET Students
      PROVE  Against(c, team)' = Against(c, team)
  <2>1. Limit(c)' = Limit(c)
    BY <1>1 DEF Limit
  <2>2. c \in {"TEAM_SIZE_MIN", "DECLARATION_PRESENT", "ACADEMIC_EVIDENCE_PRESENT",
               "TRANSFERRED_SUBJECTS_MAX", "PROFILE_SUBJECTS_AVERAGE_MAX"}
    BY DEF CodeSet, Codes
  <2>3. CASE c = "TEAM_SIZE_MIN"
    BY <2>1, <2>3 DEF Against
  <2>4. CASE c = "DECLARATION_PRESENT"
    BY <1>4, <2>4 DEF Against
  <2>5. CASE c = "ACADEMIC_EVIDENCE_PRESENT"
    BY <1>4, <2>5 DEF Against
  <2>6. CASE c = "TRANSFERRED_SUBJECTS_MAX"
    BY <1>4, <2>1, <2>6 DEF Against
  <2>7. CASE c = "PROFILE_SUBJECTS_AVERAGE_MAX"
    BY <1>4, <2>1, <2>7 DEF Against
  <2> QED
    BY <2>2, <2>3, <2>4, <2>5, <2>6, <2>7
<1>6. GoesOn(m, Done)
  BY <1>1, SubmissionMoves DEF HealInv, SafeInv
<1> QED
  BY <1>1, <1>5, <1>6, AsideHeals DEF GoesOn

LEMMA HealStep == ASSUME HealInv, [ProfilesNext]_studentVars PROVE HealInv'
<1>0. SafeInv'
  BY SafeStep DEF HealInv
<1> USE <1>0
<1>1. CASE AdminNext
  <2>1. UNCHANGED <<profile, submission, signalVars>>
    BY <1>1, AdminMovesStructure DEF HealInv, SafeInv, StructureMoves, profileVars
  <2> QED
    BY <2>1, SettingAsideHeals DEF signalVars
<1>2. ASSUME NEW m \in Submissions, StudentNext(m) PROVE HealInv'
  <2>1. ASSUME NEW p \in Authors, NEW u \in Universities, NEW f \in Faculties,
               NEW s \in Specializations, AcademicStarts(m, p, u, f, s)
        PROVE  HealInv'
    BY <2>1, StudentReadHeals DEF AcademicStarts, profileVars
  <2>2. ASSUME NEW n \in Nodes, Checks(m, n) PROVE HealInv'
    BY <2>2, StudentReadHeals DEF Checks, profileVars
  <2>3. CASE FindsDeclaration(m)
    BY <2>3, StudentReadHeals DEF FindsDeclaration, profileVars
  <2>4. ASSUME NEW answer \in Answers, UpsertAcademicInformation(m, answer) PROVE HealInv'
    BY <2>4, DisturbedHeals DEF UpsertAcademicInformation
  <2>5. ASSUME NEW p \in Authors, NEW withProjects \in BOOLEAN,
               ProfessionalStarts(m, p, withProjects)
        PROVE  HealInv'
    BY <2>5, StudentReadHeals DEF ProfessionalStarts, profileVars
  <2>6. CASE UpdatesProfile(m)
    BY <2>6, StudentReadHeals DEF UpdatesProfile, profileVars
  <2>7. CASE DeletesRows(m)
    BY <2>7, StudentReadHeals DEF DeletesRows, profileVars
  <2>8. CASE ReplaceProfessionalSkills(m)
    BY <2>8, ReplaceHeals
  <2>9. CASE Abandons(m)
    <3>1. CASE Computing(m)
      BY <2>9, <3>1, DisturbedHeals DEF Abandons
    <3>2. CASE ~Computing(m)
      BY <2>9, <3>2, StudentReadHeals DEF Abandons, profileVars, teamVars, signalVars
    <3> QED
      BY <3>1, <3>2
  <2> QED
    BY <1>2, <2>1, <2>2, <2>3, <2>4, <2>5, <2>6, <2>7, <2>8, <2>9 DEF StudentNext
<1>3. CASE SignalsNext
  <2>1. CASE CloseApplication
    BY <2>1, SettingAsideHeals DEF CloseApplication
  <2>2. ASSUME NEW l \in Limits, UpdateLimits(l) PROVE HealInv'
    BY <2>2, DisturbedHeals DEF UpdateLimits
  <2>3. ASSUME NEW m \in Submissions, RecomputeForStudent(m) PROVE HealInv'
    <3>1. CASE application \in Active /\ submission[m].of \in members
      BY <2>3, <3>1, BeginningHeals
    <3>2. CASE ~(application \in Active /\ submission[m].of \in members)
      BY <2>3, <3>2, StudentReadHeals DEF RecomputeForStudent, teamVars, signalVars
    <3> QED
      BY <3>1, <3>2
  <2> QED
    BY <1>3, <2>1, <2>2, <2>3, BeginningHeals, ReadsSignalsHeals, UpsertSignalHeals, CommitHeals
       DEF SignalsNext
<1>4. CASE UNCHANGED studentVars
  BY <1>4, SettingAsideHeals DEF studentVars, profileVars, signalVars
<1> QED
  BY <1>1, <1>2, <1>3, <1>4 DEF ProfilesNext

\* Whatever overlapping or abandoned computations leave, one that runs alone
\* leaves the verdicts on the team, the profiles and the rules of the moment.
THEOREM SignalsDoHeal == ProfilesSpec => []SignalsHeal
<1>1. HealInv => SignalsHeal
  BY DEF HealInv, ComputationsAreOnCourse, SignalsHeal
<1> QED
  BY <1>1, HealInit, HealStep, PTL DEF ProfilesSpec

==============================================================================
