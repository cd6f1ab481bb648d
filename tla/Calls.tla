------------------------------- MODULE Calls -------------------------------
(***************************************************************************)
(* A call for applications in the hands of several administrators          *)
(* (AdminCallsService, CallsRepository).  Every handler reads the call,    *)
(* decides, and writes by identifier outside any transaction, so each is   *)
(* a reading and a writing step.                                           *)
(***************************************************************************)
EXTENDS Naturals

CONSTANTS
    DocumentTypes,  \* what a Program A call can require
    LastDate,       \* bound: dates are 1..LastDate
    Handlers,       \* HTTP requests that can be in flight at the same time
    Unset           \* the SQL null, and a field an update does not write

ASSUME LastDateIsNatural == LastDate \in Nat
ASSUME UnsetIsNoValue ==
    /\ Unset \notin 1..LastDate
    /\ \A documents \in SUBSET DocumentTypes : documents # Unset

VARIABLES
    call,       \* the row, with its requiredDocumentTypes
    handler,    \* how far each of them is
    overlapped  \* whether a handler wrote over a row changed since it read it

callVars == <<call, handler, overlapped>>

-----------------------------------------------------------------------------
CallStatus == {"DRAFT", "OPEN", "CLOSED", "ARCHIVED"}
ProgramType == {"PROGRAM_A", "PROGRAM_B"}
Dates == 1..LastDate
Writing == {"update", "OPEN", "CLOSED", "ARCHIVED"}

AtRest == [doing |-> "idle"]

\* ensureValidDateWindow
Ordered(opens, closes) == opens # Unset /\ closes # Unset => opens < closes

\* ensureCallCanBeOpened
Openable(c) ==
    /\ c.opens # Unset
    /\ c.closes # Unset
    /\ Ordered(c.opens, c.closes)
    /\ c.type = "PROGRAM_A" => c.documents # {}

\* A draft as createCall leaves it.
CallInit ==
    /\ call \in [status : {"DRAFT"}, type : ProgramType, opens : Dates \cup {Unset},
                 closes : Dates \cup {Unset}, documents : SUBSET DocumentTypes]
    /\ Ordered(call.opens, call.closes)
    /\ call.type = "PROGRAM_B" => call.documents = {}
    /\ handler = [r \in Handlers |-> AtRest]
    /\ overlapped = FALSE

\* A handler keeps what it will write and, for the record, what it read.
Takes(r, doing, next) ==
    /\ handler[r] = AtRest
    /\ handler' = [handler EXCEPT ![r] = [doing |-> doing, next |-> next, read |-> call]]
    /\ UNCHANGED <<call, overlapped>>

Writes(r) ==
    /\ handler' = [handler EXCEPT ![r] = AtRest]
    /\ overlapped' = (overlapped \/ handler[r].read # call)

-----------------------------------------------------------------------------
\* The call as an update means to leave it: a date that is not given stays,
\* Program B requires no documents.
Merged(type, opens, closes, documents) ==
    [call EXCEPT !.type = type, !.opens = opens, !.closes = closes,
                 !.documents = IF type = "PROGRAM_B" THEN {}
                               ELSE IF documents = Unset THEN @ ELSE documents]

\* updateCall with a type, dates and documents of which some are given.
UpdateReads(r, type, opens, closes, documents) ==
    LET next == Merged(type, opens, closes, documents) IN
    /\ call.status # "ARCHIVED"
    /\ Ordered(opens, closes)
    /\ call.status = "OPEN" => Openable(next)
    /\ Takes(r, "update",
              [next EXCEPT !.documents = IF documents # Unset \/ type # call.type
                                         THEN @ ELSE Unset])

\* Faulty variant: of the dates only the one that changed is written.
UpdateWritesChanges(r) ==
    LET next == handler[r].next
        read == handler[r].read IN
    /\ handler[r].doing = "update"
    /\ call' = [call EXCEPT !.type = next.type,
                            !.opens = IF next.opens = read.opens THEN @ ELSE next.opens,
                            !.closes = IF next.closes = read.closes THEN @ ELSE next.closes,
                            !.documents = IF next.documents = Unset THEN @ ELSE next.documents]
    /\ Writes(r)

\* Type and dates are always written, documents when they may have changed.
UpdateWrites(r) ==
    LET next == handler[r].next IN
    /\ handler[r].doing = "update"
    /\ call' = [call EXCEPT !.type = next.type, !.opens = next.opens, !.closes = next.closes,
                            !.documents = IF next.documents = Unset THEN @ ELSE next.documents]
    /\ Writes(r)

\* openCall, also of a closed call
OpenReads(r) ==
    /\ call.status \in {"DRAFT", "CLOSED"}
    /\ Openable(call)
    /\ Takes(r, "OPEN", Unset)

\* closeCall
CloseReads(r) == call.status = "OPEN" /\ Takes(r, "CLOSED", Unset)

\* archiveCall
ArchiveReads(r) == call.status = "CLOSED" /\ Takes(r, "ARCHIVED", Unset)

StatusWrites(r) ==
    /\ handler[r].doing \in {"OPEN", "CLOSED", "ARCHIVED"}
    /\ call' = [call EXCEPT !.status = handler[r].doing]
    /\ Writes(r)

-----------------------------------------------------------------------------
Reading(r) ==
    \/ \E type \in ProgramType, opens, closes \in Dates \cup {Unset},
          documents \in {Unset} \cup SUBSET DocumentTypes :
          UpdateReads(r, type, opens, closes, documents)
    \/ OpenReads(r) \/ CloseReads(r) \/ ArchiveReads(r)

CallNext == \E r \in Handlers : Reading(r) \/ UpdateWrites(r) \/ StatusWrites(r)

CallSpec == CallInit /\ [][CallNext]_callVars

-----------------------------------------------------------------------------
(***************************************************************************)
(* Properties                                                              *)
(***************************************************************************)
\* The values the variables take.
CallTypeOK ==
    /\ call \in [status : CallStatus, type : ProgramType, opens : Dates \cup {Unset},
                 closes : Dates \cup {Unset}, documents : SUBSET DocumentTypes]
    /\ \A r \in Handlers : handler[r].doing \in Writing \cup {"idle"}
    /\ overlapped \in BOOLEAN

\* The window of a call is in order whoever changes it at the same time, and
\* as long as no handler wrote over another's change, an open call has all
\* that opening it asks for and Program B asks for no documents.
CallIsSound ==
    /\ Ordered(call.opens, call.closes)
    /\ ~overlapped => /\ call.status = "OPEN" => Openable(call)
                      /\ call.type = "PROGRAM_B" => call.documents = {}

=============================================================================
