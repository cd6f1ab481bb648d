----------------------------- MODULE Documents -----------------------------
(***************************************************************************)
(* Files and what is made of them: the numbered documents of backlog       *)
(* items, projects and organisations, the document slots and sections of a *)
(* Program A application, and the submission that counts both              *)
(* (FilesService, ProgramBBacklogService, ProgramBProjectsService,         *)
(* OrganizationDocumentsService, ApplicationsService,                      *)
(* ApplicationSectionsService).                                            *)
(*                                                                         *)
(* A document is numbered, and a file attached, in a SERIALIZABLE          *)
(* transaction; sections are saved and applications submitted in READ      *)
(* COMMITTED ones, which check what they read and write by identifier.     *)
(* Each is a reading and a writing step.  A transaction that lost a race   *)
(* for a unique number is retried; every other conflict is an error.       *)
(*                                                                         *)
(* An organisation's document is its own file: the row is created with its *)
(* number, where the others refer to a file row created before.            *)
(***************************************************************************)
EXTENDS Naturals, FiniteSets

CONSTANTS
    Files,      \* UploadedFile rows that can be created
    Shelves,    \* a category of a backlog item or project, a name in an organisation
    Owned,      \* the shelves of organisations
    Slots,      \* (documentType, documentScope, memberUserId) of the application
    Keys,       \* PROGRAM_A_SECTION_KEYS
    Requests,   \* HTTP requests that can be in flight at the same time
    MaxVersion, \* bound: saves of a section and documents of a slot
    None        \* the SQL null

ASSUME OwnedAreShelves == Owned \subseteq Shelves
ASSUME NoneIsNoFile == None \notin Files

VARIABLES
    upload,     \* UploadedFile.status; EXPIRED is PENDING after uploadUrlExpiresAt
    stored,     \* whether the storage holds the object
    shelf,      \* documents of a shelf, each with its version
    slot,       \* documents of a slot, each with its version and isActive
    section,    \* version and activeVersion of a section, 0 for none
    history,    \* ApplicationSectionHistory: the versions on record
    required,   \* slots the call and the team require
    status,     \* Application.status, as far as it is or is not DRAFT
    counted,    \* slots the submission found required
    request     \* the handler each request is in the middle of

fileVars == <<upload, stored>>
applicationVars == <<slot, section, history, required, status, counted>>
vars == <<fileVars, shelf, applicationVars, request>>

-----------------------------------------------------------------------------
\* A handler in flight: the file and place it is about, what it read of the
\* place, and how often it was retried.
Step == {"idle", "number", "insert", "attach", "section", "submit"}
Idle == [doing |-> "idle", file |-> None, place |-> None, seen |-> {}, tries |-> 0]

Starts(r, step) == request[r] = Idle /\ request' = [request EXCEPT ![r] = step]
Ends(r) == request' = [request EXCEPT ![r] = Idle]

Init ==
    /\ upload = [f \in Files |-> "NONE"]
    /\ stored = [f \in Files |-> FALSE]
    /\ shelf = [s \in Shelves |-> {}]
    /\ slot = [d \in Slots |-> {}]
    /\ section = [k \in Keys |-> [version |-> 0, active |-> 0]]
    /\ history = [k \in Keys |-> {}]
    /\ required = Slots
    /\ status = "DRAFT"
    /\ counted = {}
    /\ request = [r \in Requests |-> Idle]

Versions(documents) == {d.version : d \in documents}

\* The number after the greatest.
NextVersion(documents) ==
    CHOOSE n \in 1..(Cardinality(documents) + 1) :
        n \notin Versions(documents) /\ \A v \in Versions(documents) : v < n

\* No other request is about to create this file.
Untouched(f) == upload[f] = "NONE" /\ \A r \in Requests : request[r].file # f

-----------------------------------------------------------------------------
(***************************************************************************)
(* Files                                                                   *)
(***************************************************************************)

\* requestUpload
RequestUpload(f) ==
    /\ Untouched(f)
    /\ upload' = [upload EXCEPT ![f] = "PENDING"]
    /\ UNCHANGED <<stored, shelf, applicationVars, request>>

\* The client puts the object at the address it was given.
PutObject(f) ==
    /\ upload[f] = "PENDING"
    /\ stored' = [stored EXCEPT ![f] = TRUE]
    /\ UNCHANGED <<upload, shelf, applicationVars, request>>

\* uploadUrlExpiresAt passes.
UrlExpires(f) ==
    /\ upload[f] = "PENDING"
    /\ upload' = [upload EXCEPT ![f] = "EXPIRED"]
    /\ UNCHANGED <<stored, shelf, applicationVars, request>>

\* A document of an organisation is a row of its own table, no UploadedFile.
OfOrganization(f) == \E s \in Owned : \E d \in shelf[s] : d.file = f

\* FilesService.completeUpload, with the object verified.
CompleteUpload(f) ==
    /\ ~OfOrganization(f)
    /\ upload[f] = "PENDING"
    /\ stored[f]
    /\ upload' = [upload EXCEPT ![f] = "UPLOADED"]
    /\ UNCHANGED <<stored, shelf, applicationVars, request>>

\* OrganizationDocumentsService.completeUpload does the same in its table.
CompleteOwnedUpload(f) ==
    /\ OfOrganization(f)
    /\ upload[f] = "PENDING"
    /\ stored[f]
    /\ upload' = [upload EXCEPT ![f] = "UPLOADED"]
    /\ UNCHANGED <<stored, shelf, applicationVars, request>>

-----------------------------------------------------------------------------
(***************************************************************************)
(* Numbered documents                                                      *)
(***************************************************************************)

\* createBacklogDocumentUpload and createDocumentUpload of a project: the
\* file is created first.
CreateDocument(r, s, f) ==
    /\ s \notin Owned
    /\ Untouched(f)
    /\ upload' = [upload EXCEPT ![f] = "PENDING"]
    /\ Starts(r, [Idle EXCEPT !.doing = "number", !.file = f, !.place = s])
    /\ UNCHANGED <<stored, shelf, applicationVars>>

\* createUpload of an organisation
CreateOwnedDocument(r, s, f) ==
    /\ s \in Owned
    /\ Untouched(f)
    /\ Starts(r, [Idle EXCEPT !.doing = "number", !.file = f, !.place = s])
    /\ UNCHANGED <<fileVars, shelf, applicationVars>>

\* The transaction reads the documents of the shelf.
NumberReads(r) ==
    /\ request[r].doing = "number"
    /\ request' = [request EXCEPT ![r].doing = "insert",
                                  ![r].seen = shelf[request[r].place]]
    /\ UNCHANGED <<fileVars, shelf, applicationVars>>

\* Faulty variant: the number is not unique in the database.
NumberInsertsUnchecked(r) ==
    LET s == request[r].place IN
    /\ request[r].doing = "insert"
    /\ shelf' = [shelf EXCEPT ![s] = @ \cup
                    {[file |-> request[r].file, version |-> NextVersion(request[r].seen)]}]
    /\ Ends(r)
    /\ UNCHANGED <<fileVars, applicationVars>>

\* It inserts the next number, which nobody took meanwhile.
NumberInserts(r) ==
    LET s == request[r].place
        n == NextVersion(request[r].seen) IN
    /\ request[r].doing = "insert"
    /\ n \notin Versions(shelf[s])
    /\ shelf' = [shelf EXCEPT ![s] = @ \cup {[file |-> request[r].file, version |-> n]}]
    /\ upload' = [upload EXCEPT ![request[r].file] = IF s \in Owned THEN "PENDING" ELSE @]
    /\ Ends(r)
    /\ UNCHANGED <<stored, applicationVars>>

\* Retries: two in an organisation, one elsewhere.
RetriesLeft(r) == request[r].tries < IF request[r].place \in Owned THEN 2 ELSE 1

\* Somebody did: the transaction is run again, or the request fails.
NumberTaken(r) ==
    /\ request[r].doing = "insert"
    /\ NextVersion(request[r].seen) \in Versions(shelf[request[r].place])
    /\ IF RetriesLeft(r)
       THEN request' = [request EXCEPT ![r].doing = "number", ![r].seen = {},
                                       ![r].tries = @ + 1]
       ELSE Ends(r)
    /\ UNCHANGED <<fileVars, shelf, applicationVars>>

-----------------------------------------------------------------------------
(***************************************************************************)
(* Slots and sections of the application                                   *)
(***************************************************************************)
\* Faulty variant: any file that exists.
AnyFile(f) == upload[f] # "NONE"

\* A file can be attached once it is uploaded.
Attachable(f) == upload[f] = "UPLOADED" /\ ~OfOrganization(f)

\* attachDocument
AttachReads(r, d, f) ==
    /\ status = "DRAFT"
    /\ Attachable(f)
    /\ Cardinality(slot[d]) < MaxVersion
    /\ Starts(r, [Idle EXCEPT !.doing = "attach", !.file = f, !.place = d,
                              !.seen = slot[d]])
    /\ UNCHANGED <<fileVars, shelf, applicationVars>>

\* The slot after the active document was replaced by a new one.
Replaced(documents, f) ==
    {[d EXCEPT !.active = FALSE] : d \in documents}
        \cup {[file |-> f, version |-> NextVersion(documents), active |-> TRUE]}

\* Faulty variant: what another transaction attached meanwhile is not noticed.
AttachWritesBlindly(r) ==
    LET d == request[r].place IN
    /\ request[r].doing = "attach"
    /\ slot' = [slot EXCEPT ![d] = (@ \ request[r].seen)
                                      \cup Replaced(request[r].seen, request[r].file)]
    /\ Ends(r)
    /\ UNCHANGED <<fileVars, shelf, section, history, required, status, counted>>

\* The row both deactivate, or the index on active documents, refuses one of
\* two transactions on a slot.
AttachWrites(r) ==
    LET d == request[r].place IN
    /\ request[r].doing = "attach"
    /\ slot[d] = request[r].seen
    /\ slot' = [slot EXCEPT ![d] = Replaced(@, request[r].file)]
    /\ Ends(r)
    /\ UNCHANGED <<fileVars, shelf, section, history, required, status, counted>>

\* upsertSection
SectionReads(r, k) ==
    /\ status = "DRAFT"
    /\ Starts(r, [Idle EXCEPT !.doing = "section", !.place = k])
    /\ UNCHANGED <<fileVars, shelf, applicationVars>>

\* The database increments the version; its entry becomes the active one.
SectionWrites(r) ==
    LET k == request[r].place
        n == section[k].version + 1 IN
    /\ request[r].doing = "section"
    /\ n <= MaxVersion
    /\ section' = [section EXCEPT ![k] = [version |-> n, active |-> n]]
    /\ history' = [history EXCEPT ![k] = @ \cup {n}]
    /\ Ends(r)
    /\ UNCHANGED <<fileVars, shelf, slot, required, status, counted>>

\* setActiveVersion, by an administrator at any time.
SetActiveVersion(k, n) ==
    /\ section[k].version > 0
    /\ n \in history[k] \cup {0}
    /\ section' = [section EXCEPT ![k].active = n]
    /\ UNCHANGED <<fileVars, shelf, slot, history, required, status, counted, request>>

\* updateCall changes the documents a call requires, and every member of the
\* team needs a CV.
RequirementsChange(needed) ==
    /\ required' = needed
    /\ UNCHANGED <<fileVars, shelf, slot, section, history, status, counted, request>>

-----------------------------------------------------------------------------
(***************************************************************************)
(* Submission                                                              *)
(***************************************************************************)
ActiveIn(d) == {x \in slot[d] : x.active}

\* ensureRequiredProgramASectionsComplete, buildDocumentCompleteness
Complete ==
    /\ \A k \in Keys : section[k].active # 0
    /\ \A d \in required : ActiveIn(d) # {}

\* submit
SubmitReads(r) ==
    /\ status = "DRAFT"
    /\ Complete
    /\ Starts(r, [Idle EXCEPT !.doing = "submit", !.seen = required])
    /\ UNCHANGED <<fileVars, shelf, applicationVars>>

SubmitWrites(r) ==
    /\ request[r].doing = "submit"
    /\ status' = "SUBMITTED"
    /\ counted' = request[r].seen
    /\ Ends(r)
    /\ UNCHANGED <<fileVars, shelf, slot, section, history, required>>

\* A serialization failure, a conflict, or a request that was lost.
Aborts(r) ==
    /\ request[r] # Idle
    /\ Ends(r)
    /\ UNCHANGED <<fileVars, shelf, applicationVars>>

-----------------------------------------------------------------------------
FileNext(f) ==
    \/ RequestUpload(f) \/ PutObject(f) \/ UrlExpires(f)
    \/ CompleteUpload(f) \/ CompleteOwnedUpload(f)

Starting(r) ==
    \/ \E f \in Files :
          \/ \E s \in Shelves : CreateDocument(r, s, f) \/ CreateOwnedDocument(r, s, f)
          \/ \E d \in Slots : AttachReads(r, d, f)
    \/ \E k \in Keys : SectionReads(r, k)
    \/ SubmitReads(r)

Continuing(r) ==
    \/ NumberReads(r) \/ NumberInserts(r) \/ NumberTaken(r)
    \/ AttachWrites(r) \/ SectionWrites(r) \/ SubmitWrites(r) \/ Aborts(r)

Next ==
    \/ \E f \in Files : FileNext(f)
    \/ \E r \in Requests : Starting(r) \/ Continuing(r)
    \/ \E k \in Keys, n \in 0..MaxVersion : SetActiveVersion(k, n)
    \/ \E needed \in SUBSET Slots : RequirementsChange(needed)

Spec == Init /\ [][Next]_vars

-----------------------------------------------------------------------------
(***************************************************************************)
(* Properties                                                              *)
(***************************************************************************)
\* The values the variables take.
TypeOK ==
    /\ upload \in [Files -> {"NONE", "PENDING", "EXPIRED", "UPLOADED"}]
    /\ stored \in [Files -> BOOLEAN]
    /\ shelf \in [Shelves -> SUBSET [file : Files, version : Nat]]
    /\ slot \in [Slots -> SUBSET [file : Files, version : Nat, active : BOOLEAN]]
    /\ section \in [Keys -> [version : Nat, active : Nat]]
    /\ history \in [Keys -> SUBSET Nat]
    /\ {required, counted} \subseteq SUBSET Slots
    /\ status \in {"DRAFT", "SUBMITTED"}
    /\ request \in [Requests -> [doing : Step, file : Files \cup {None},
                                 place : Shelves \cup Slots \cup Keys \cup {None},
                                 seen : SUBSET ([file : Files, version : Nat]
                                    \cup [file : Files, version : Nat, active : BOOLEAN]
                                    \cup Slots),
                                 tries : Nat]]

\* Nobody reviews an application without its papers: every section of a
\* submitted application was saved and shows a version on record, and every
\* slot counted for it holds a document that can be downloaded, whatever is
\* attached, saved or deactivated while the submission is in flight.
SubmittedIsComplete ==
    status = "SUBMITTED" =>
        /\ \A k \in Keys : /\ history[k] # {}
                          /\ section[k].active \in history[k] \cup {0}
        /\ \A d \in counted :
              \E x \in ActiveIn(d) : upload[x.file] = "UPLOADED" /\ stored[x.file]

\* Of the documents of a slot the newest is active and no other.
NewestIsActive ==
    \A d \in Slots :
        /\ Versions(slot[d]) = 1..Cardinality(slot[d])
        /\ \A x \in slot[d] : x.active <=> x.version = Cardinality(slot[d])

\* The documents of a shelf are numbered without gaps and without repetition,
\* however many uploads race for a number and give up.
NumberedInOrder ==
    \A s \in Shelves : Versions(shelf[s]) = 1..Cardinality(shelf[s])

=============================================================================
