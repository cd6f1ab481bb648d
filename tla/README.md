# TLA+ specifications of the NTI backend

The NTI backend is a NestJS service over PostgreSQL (Prisma), Redis (BullMQ)
and an S3-compatible store.  It runs two programs for student teams:

- **Program A**: a team drafts an application for a call, submits it, is
  reviewed, perhaps asked for more information, evaluated, decided, and a
  granted application becomes a project.
- **Program B**: companies publish backlog items, teams apply for them, the
  company picks one candidate, hands the item off to a project, and the company
  and NTI accept the result.

The service is stateless: every request is a handler that reads and writes
rows.  What can go wrong, and what tests of one handler at a time do not reach,
is the interleaving of the statements of several handlers at the isolation
level each of them runs at.  That is what these specifications are about.

All paths below are relative to the repository root; the code is in `src/`.

## 1. The system

### Components, their state and their operations

| Component (in `src/`) | State (tables) | Operations that change it |
|---|---|---|
| `programs/program-b/backlog` | `BacklogItem`, `ProgramBBacklogDocument` | create, update, remove, assign owner, publish, archive; shortlist, accept, reject a candidate; create the project; upload documents |
| `programs/program-b/team-application` | `ProgramBTeamApplication` and its CVs | submit, withdraw |
| `programs/program-b/projects` | `ProgramBProject`, milestones, notes, reviews, documents | record progress, assign mentor, final acceptance, reward, documents |
| `applications` (service, access, rules) | `Application`, `ApplicationStatusEvent` | draft, submit, review transitions, decision, project transitions, budget |
| `applications/needs-info` | `NeedsInfoItem`, `NeedsInfoReply` | ask, reply, resubmit |
| `applications/evaluations` | `ApplicationEvaluation` | evaluate |
| `applications/sections`, `documents`, `eligibility-signals` | `ApplicationSection` and its history, `ApplicationDocument`, `EligibilitySignal` | save a section, attach a document, recompute the signals |
| `applications/calls` | `Call` | create, update, open, close, archive |
| `programs/program-a` | `ProgramAMilestone`, `ProgramAMentorshipNote`, `Application.mentorUserId` | assign a mentor, write a note, create and change a milestone |
| `team`, `team/invitations` | `Team`, `TeamMember`, `Invitation` | create, invite, resend, revoke, accept, leave, remove, transfer the lead |
| `organization`, `admin/organizations` | `Organization`, `OrgInvitation`, `OrganizationDocument` | register, approve or suspend, invite, accept, documents |
| `auth`, `account`, `student-email`, `university-email-domain` | `User`, `RefreshToken` and the one-time tokens | register, confirm, log in, refresh, reset, change e-mail or password, confirm a student address |
| `invites`, `admin/system-invites`, `admin/users` | `SystemInvitation`, `User` | invite staff, accept, suspend |
| `files` | `UploadedFile` and an object in the store | create, complete, expire, generate on the server |
| `conversations` | `Conversation`, `ConversationMessage` | post, edit, delete |
| `reports` | `ReportExportJob` | request, process in the worker, download |
| `student-profile`, `admin/academic-structure` | `StudentProfile`, `StudentSkill`, `StudentProject`; `University`, `Faculty`, `Specialization` | academic and professional information; create, activate, move, delete |
| `prisma/seed` | the fixtures of every table | `prisma db seed`, `seed:dev` |
| `contact` | none | one insert, one e-mail |
| `infrastructure`, `common`, `main.ts`, `worker.ts` | the queue | adapters, and the worker that consumes the queue |

### How they interact

- Program B's three services share the tables of items, candidates and
  projects: the backlog service decides on rows the team-application service
  inserts, and the project service writes `BacklogItem.status`.
- A submission locks the team (`Team.lockedAt`); team invitations read the lock.
- Suspending a user takes away what hand-off and publication ask of a product
  owner, and ends the user's sessions.
- Calls open and close, by hand or by their time window, under submissions.
- A profile, the team and the call's rules are what the eligibility signals of
  an application are computed from; whoever changes the first two computes them.
- Mentors, notes, milestones and messages hang on an application or a project:
  whether they may be written depends on its status, on whether it is closed,
  and on who mentors it at the moment.
- E-mails and exports are put on the queue after the commit and are consumed by
  another process.

### What is hard

- **Isolation.** Backlog and project handlers run in SERIALIZABLE transactions;
  the team-application handlers, drafting, submission, evaluation and the
  review transitions run at READ COMMITTED or without a transaction.  The
  correctness of the latter rests on conditional updates (`updateStatusIfCurrent`),
  on partial unique indexes, or on nothing.
- **Three tables that must agree.** Item, candidate and project of Program B
  are written by different services and no constraint relates their statuses.
- **Long legal sequences.** A withdrawal that lands after the hand-off, a
  submission that lands after a rejection.
- **Failure after the commit.** Queue, mail and object store are not part of
  the transaction.

### What makes each component correct

- Program B: one winner and one project per item; item, candidate and project
  agree; decisions are never stranded; a project is closed by both sides.
- Program A: one open application per call; statuses move only along the
  documented map; questions are neither forgotten nor a dead end; the event
  timeline is the history of the status; exactly the decided are dated.
- Mentoring and conversations: only what was granted is supported; whoever loses
  a right to write stops writing.
- Teams and organisations: an invitation is used at most once; revoked means
  revoked; a locked team does not change; one owner per organisation.
- Authentication: a one-time token is used once; a suspended user stays out.
- Files: what is attached was uploaded; no upload both failed and completed.
- Exports: a job ends completed or failed, and a completed one has its file.
- Sections and documents: what was submitted is complete and stays so.
- Profiles: a path through the structure that exists; skills of one submission;
  signals that come right again.
- Seeds: a script that may be run again, and an interruption that shows.

## 2. Modules

| Module | Models |
|---|---|
| `ProgramBState` | the rows of Program B, its enums and the single-winner index |
| `ProgramBTeamApplication` | `program-b-team-application.service.ts` |
| `ProgramBBacklog` | `program-b-backlog.service.ts` |
| `ProgramBProjects` | `program-b-projects.service.ts` and its repository |
| `ProgramB` | the three over the same tables, with calls and suspensions around them; the properties |
| `MCProgramB` | small tables for TLC |
| `ProgramBProofs` | the theorems about `ProgramB` |
| `ApplicationCase` | what Program A promises a team, as an abstract specification |
| `ApplicationLifecycle` | `applications.service.ts` with its repositories, access and rule services |
| `Mentorship` | `program-a-mentorship.service.ts`, `program-a-milestones.service.ts`, with what `application-access.service.ts` asks of them |
| `Conversations` | `conversations.service.ts`, `conversation-access.service.ts`; composed with `Mentorship` and `ApplicationLifecycle` into `WorkSpec` |
| `MCApplicationLifecycle`, `MCConversations` | small tables for TLC |
| `ApplicationLifecycleProofs` | the theorems about `ApplicationLifecycle`, `Mentorship` and `Conversations` |
| `TeamMembership` | `team.service.ts`, `invitations/invitation.service.ts`, `team-lead.guard.ts`, and the lock of `submit` |
| `MCTeamMembership` | a small team for TLC |
| `TeamMembershipProofs` | the theorems about `TeamMembership` |
| `OrganizationMembership` | `organization.service.ts`, `organization-invite.service.ts`, the registration by such an invitation, `admin-organizations.service.ts` |
| `AccountAccess` | one account and its sessions: `auth.service.ts`, `auth-registration.service.ts`, `account.service.ts`, the refresh strategy, the one-time tokens, suspension |
| `AccountAddresses` | the addresses of accounts and their links: `auth`, `account`, `student-email`, `university-email-domain` |
| `Documents` | `files.service.ts`, the documents of backlog items, projects and organisations, the sections and documents of an application, its submission |
| `Calls` | `admin-calls.service.ts` |
| `ReportExport` | `reports.service.ts`, `report-export-jobs.service.ts`, the generated file, the queue (external) and `report-export.processor.ts` |
| `ExportPromise` | what an export promises an administrator, as an abstract specification |
| `EligibilitySignals` | `eligibility-signals.service.ts`, with whoever calls it |
| `StudentProfiles` | `student-profile.service.ts` and `admin-academic-structure.service.ts`, composed with `EligibilitySignals` over the same profiles and requests |
| `Seeds` | `prisma/seed/main.ts`, `prisma/seed/dev.ts` and the five seeds |
| `MCOrganizationMembership`, `MCAccountAccess`, `MCAccountAddresses`, `MCDocuments`, `MCCalls`, `MCReportExport`, `MCStudentProfiles`, `MCSeeds` | small instances for TLC |
| `OrganizationMembershipProofs`, `AccountAccessProofs`, `AccountAddressesProofs` | the theorems about those modules |
| `BackgroundProofs` | the theorems about what runs outside of requests: `ReportExport` and `Seeds` |
| `IntakeProofs` | the theorems about what an application is made from: `Documents`, `Calls`, `StudentProfiles` and `EligibilitySignals` |

`IntakeProofs` extends three specifications at once, so their definitions have
names of their own: `CallSpec` and `CallTypeOK`, a `handler` of an administrator
at a call; `ProfilesSpec` and `ProfilesTypeOK`, a `submission` of a student.

### From code to model

A table is a function (one per column that matters) from row identifiers to
values; `"ABSENT"` marks an identifier without a row, `None` is the SQL null.
An enum is a set of strings with the names of `prisma/schema.prisma`.

A handler is **one action** when its effect is that of its transaction at one
moment: it is SERIALIZABLE, or its only decision is repeated as the condition
of its write.  Otherwise it is **several actions** of a request `r`, one for
each database call whose result is used later, and other requests run in
between:

| Handler | Steps | Why |
|---|---|---|
| `submitApplication` (B) | `SubmitReadsItem`, `SubmitFindsNoneActive`, `SubmitInserts` or `SubmitFails` | reads outside the transaction; the transaction only checks the call again |
| `withdrawApplication` (B) | `WithdrawReads`, `WithdrawWrites` | no transaction, update by identifier |
| `createDraft` (A) | `DraftReads`, `DraftInserts` | creation rules, then an insert the index guards |
| `submit` (A) | `SubmitReads`, `SubmitWrites` | READ COMMITTED, update by identifier |
| `createEvaluation` (A) | `EvaluationReads`, `EvaluationWrites` | checks the application, writes another table |
| `replyToNeedsInfoItem` (A) | `ReplyReads`, `ReplyWrites` | serializable itself, but not against the READ COMMITTED transitions |
| `create`, `createInvites` (team) | `CreateTeam` or `LeadFindsUnlocked`, `InviteFilters`, `InviteInserts`; then `QueueMails` for each mail and `QueueEnds` or `QueueFails` | the guard loads the team, the filter and the insert are READ COMMITTED, the mails follow the commit |
| `resend` (team) | `LeadFindsUnlocked`, `ResendReads`, `ResendWrites`, `ResendMails` or `ResendRollsBack` | no transaction, updates by identifier |
| `accept` (team) | `AcceptReads`, `AcceptWrites` | READ COMMITTED; `markAcceptedIfPending` repeats the checks of the invitation, not those of the team |
| `removeMember`, `leaveTeam` | `RemoveReads`, `RemoveWrites` | serializable with each other and with `transferLeadership`, not with the READ COMMITTED lock |
| `createInvite` (organisation) | `InviteStarts`, `CreateInvite`, `MailInvite` or `MailInviteFails` | the mail follows the insert; a refused mail deletes the row |
| `resendInvite`, `revokeInvite` | `ResendStarts`, `Resend`, `Remail` or `RemailFails`; `RevokeStarts`, `Revoke` | no transaction, updates by identifier |
| `acceptInvite` (organisation) | `AcceptStarts`, `Accept` | the user is read before the transaction, which locks the invitation |
| `updateMemberRole`, `removeMember`, `transferOwner` | `DemoteStarts`, `Demote`; `RemoveStarts`, `Remove`; `TransferStarts`, `Transfer` | no transaction around the check |
| `login`, `refresh` and the other ways to a session | what they read (`Login`, `RefreshChecks`), `Refresh`, then `Issue` | hashing and signing lie between |
| `confirmEmail`, `resendConfirmation`, `changePassword`, `forceChangePassword` | `...Reads`, `...Writes` | the account is read before the transaction |
| `setStudentEmail`, its resend and confirmation, `requestDomain` | `...Reads`, `...Writes` | the domain and the link are read before the write |
| `createDocumentUpload`, `createBacklogDocumentUpload` | `CreateDocument` or `CreateOwnedDocument`, `NumberReads`, `NumberInserts` or `NumberTaken` | SERIALIZABLE, but a unique violation is retried |
| `attachDocument`, `upsertSection`, `submit` | `AttachReads`, `AttachWrites`; `SectionReads`, `SectionWrites`; `SubmitReads`, `SubmitWrites` | sections and submission are READ COMMITTED |
| `updateCall`, `openCall`, `closeCall`, `archiveCall` | `...Reads`, `UpdateWrites` or `StatusWrites` | no transaction, updates by identifier |
| an export | `CreateJob`, `RecordRequested`, `Enqueue` or `EnqueueFails`; in the worker `Take`, `MarkProcessing`, `CreateFile`, `PutObject`, `MarkUploaded`, `MarkCompleted`, `Acknowledge`; an error at each leads to `Throws`, `FailAsyncExportJob`, `RetryOrGiveUp`, a crash to `Crash`, `Stalls` | row, object and queue are three stores |
| `updateAcademicInformation` | `AcademicStarts`, `Checks` (three of them), `FindsDeclaration`, `UpsertAcademicInformation`, then a computation of the signals | no transaction |
| `updateProfessionalSkills` | `ProfessionalStarts`, `UpdatesProfile`, `DeletesRows`, `ReplaceProfessionalSkills` | READ COMMITTED, but the first update locks the profile |
| a computation of the signals | `RecomputeForStudent`, `GetEligibilitySignals`, `AcceptComputes` or `SubmitComputes`, then `ReadsSignals`, and `UpsertSignal` for each row or `CommitSignals`; `RemovalReads` takes both readings from its snapshot | facts, rows and writes are statements of their own; only `accept`, `submit` and the team's transactions commit them at once |
| `assignMentor` (A), `createMentorshipNote`, `createProgramAMilestone`, `updateProgramAMilestone` | `AssignReads`, `AssignWrites`; `NoteReads`, `NoteWrites`; `TrackingReads`, `MilestoneInserts` or `MilestoneUpdates` | READ COMMITTED: the check reads the application, the write is to another row, or by identifier |
| `createProgramAMessage`, `createProgramBMessage` | `ApplicationPostReads` or `ProjectPostReads`, `PostWrites` | the anchor is checked outside the transaction of the message |
| `updateMessage`, `deleteMessage` | `MessageReads`, `MessageChecks`, `EditWrites` or `DeleteWrites` | no transaction, updates by identifier |
| a seed | an instruction of its script is one step; `callsSeed` goes through `SelectsCalls`, `InsertsCall`, `OpensCall`, `CountsApplications`, `DeletesCall` | no transaction |
| every other one | one action with the handler's name | SERIALIZABLE, or a conditional update |

`RemoveWrites` asks again that the member is not the leader: that is what
serializability adds to the two SERIALIZABLE transactions it concerns.
`TransferLeadership` is one action although it reads the lock: it updates the
team's row, and the database refuses an update of a row that changed since the
transaction's snapshot.  A token is its number among those drawn for its
invitation, so tokens do not collide.  A request that stops while it is queueing
mails stands for a process that crashed there.

`Aborts(r)` (`GivesUp`, `Abandons` and the like in other modules) lets any
transaction of such a request fail at any moment: a serialization
error, a unique violation, a cut connection.  It is rolled back.  A handler
that throws, or a process that crashes, before its write changes nothing, so
a request that never takes its next step stands for it in every model.

Partial unique indexes are guards of the writes they check: `WinnerSlotFree`
is `single_winner_per_backlog_key`, `HoldersOf` is
`Application_active_unique_constraint`.  So are unique columns and the
foreign keys that restrict a deletion (`Unreferenced`).

Some abstractions of single modules.  A password and an e-mail address of
`AccountAccess` are the number of times they were changed.  A link of
`AccountAddresses` is the address it was mailed to, because the row of a kind of
link is overwritten by the next.  A fixture of `Seeds` is inserted in one step,
loop or not, so an interruption between the rows of one loop is left out, and
nobody else deletes, changes or talks about its rows meanwhile.  A verdict
of `EligibilitySignals` is what its reason names, and it passes when that is
nothing; the threshold of a rule that is absent, disabled, blank or not a number
is `Null`, the SQL null there, as `Unset` is in `Calls`.  A user of `Mentorship` is
a mentor, or one of three groups with the same rights each: administrators;
insiders, which are evaluators and members of the team; clients, which are the
product owner and the company's users.  `getEligibilitySignals` ends with a read of the rows, which changes
nothing and is left out.

Left out of the data: texts, dates (except whether `decidedAt` is set),
budgets (an item is either ready to publish or not), names, files that only
refuse a submission, e-mails.  Left out of the guards: who may call an
operation.  Some authorised caller always exists and a refused call changes
nothing, so leaving the refusal out adds no behaviour the real system with all
its users lacks.  A project's identifier is its candidate's, because
`ProgramBProject.teamApplicationId` is unique.  Deleting a draft item frees its
identifier, which stands for the next row.

Operators called *Faulty variant* are not part of the specification: each is a
plausible mistake in the operator it precedes, used to show that the properties
notice it.

## 3. Runs

Run a module with `tlc -config <cfg> <module>`.  Deadlock is checked except in
the runs marked with a star, whose tables and budgets run out: requests that
are sent once, exports that end, calls that are archived.

| Run | Module, cfg | What it shows | States |
|---|---|---|---|
| `program_b` | `MCProgramB`, `ProgramB.cfg` | the three services of Program B agree on winner, item and project | 634,000 |
| `application_lifecycle` | `MCConversations`, `ApplicationLifecycle.cfg` | one submission at a time: the lifecycle implements `ApplicationCase` (`KeepsPromise`), its questions are never lost; what mentors, administrators and others write about applications and projects stays within their rights | 250,000 |
| `application_resubmission` | `MCApplicationLifecycle`, `ApplicationResubmission.cfg` | *violated*: "REJECTED is terminal" | |
| `team_membership` | `MCTeamMembership`, `TeamMembership.cfg` | a team, its lead, its lock and its invitations | 347,000 |
| `organization_membership`* | `MCOrganizationMembership`, `OrganizationMembership.cfg` | nobody enters an organisation but its founder and those it invited | 934,000 |
| `account_access`* | `MCAccountAccess`, `AccountAccess.cfg` | who gets and keeps a session, against changes of the password and suspension | 895,000 |
| `account_addresses` | `MCAccountAddresses`, `AccountAddresses.cfg` | confirmed addresses are proven, students' addresses academic | 459,000 |
| `documents` | `MCDocuments`, `Documents.cfg` | numbers of documents, and what a submission counts | 548,000 |
| `calls`* | `MCCalls`, `Calls.cfg` | what administrators who overlap can make of a call | 1,676,000 |
| `report_export`* | `MCReportExport`, `ReportExport.cfg` | exports under errors and crashes implement `ExportPromise` (`ExportKeepsPromise`), have a stored file and end | 190,000 |
| `student_profiles`* | `MCStudentProfiles`, `StudentProfiles.cfg` | profiles over a structure that changes; signals over a team, profiles and rules that change | 947,000 |
| `seeds`* | `MCSeeds`, `Seeds.cfg` | seeding again, after interruptions, on databases in use | 3,021,000 |

### Program B: what holds, and why it is not obvious

`SingleWinner`, `OneProjectPerItem`, `ItemFollowsProject`,
`WinnerAgreesWithItem`, `NoDecisionStranded`, `OwnerOfProjectIsOwnerOfItem`,
`ItemOnlyMovesForward` and `LosersStayOut` (proved, and in no run) all hold in the
presence of races the code does not exclude.  `withdrawApplication`
(`program-b-team-application.service.ts:262`) updates by identifier after a
check: it can take the winning status from a candidate whose project already
runs, and thereby frees the slot of the single-winner index; a second winner is
then prevented only by `ensureCandidateDecisionsAllowed`, because the item has
moved past pairing.  A withdrawn winner whose project exists may be marked
`PROJECT_CREATED` again (`HandOffAgain`), which is why `LosersStayOut` makes
that exception.  `submitApplication` (line 163 there) checks for duplicates
outside the transaction that inserts, and no index forbids the second row: a
team can be two candidates of an item, never two winners.  `assignMentor`
(`program-b-projects.service.ts:363`) does not ask whether the project is
closed: the mentor of a closed project can be replaced, but its item stays
closed.

### Program A: what holds with and without overlapping submissions

`submitDraft` writes `SUBMITTED` by identifier.  Two submissions of the same
draft may therefore both pass `ensureApplicationIsDraft`, and the later one
resets whatever happened since: `application_resubmission` shows a rejected
application coming back, where `docs/PROGRAM_A_STATUS_MAP.md:62` calls `REJECTED`
terminal (the one finding in `PROJECT.json`).  `Submitters` bounds the requests that may carry
a submission.  With one, `ApplicationLifecycle` implements `ApplicationCase`,
the timeline is unbroken, exactly the decided are dated (both proved, and in no
run), no question is forgotten and only granted applications are supported.
With more, those five fail for that one reason;
`OneApplicationPerCall` and `QuestionAwaitsAnswer` remain, which is proved for
any number of submitters and checked by TLC with one.  The rule that a team runs
one application at a time is checked when a draft is created
(`findActiveApplicationForTeam`, which ignores drafts) and not at submission
(`applications.service.ts:600`), so only the part of it the index keeps is a
property.

### Mentoring and conversations

`assignMentor` reads the status of the application and updates it by identifier,
`createMentorshipNote` reads the mentor and no status at all, and
`createProgramAMilestone` checks the status of one row and inserts another: none
of them holds what it read.  `SupportIsOfGranted` says that this is enough all
the same, because no step of the lifecycle takes a grant back.  The one that
does is the late submission of the previous section, so this property too takes
one submission at a time.  A message is checked against its application or
project before the transaction that stores it (`conversations.service.ts:109`), so
the last message may be stored after the archive, the close or the change of
mentor.  `RightsEndWithTheirGround` says how far that goes: once the ground of a
user's right is gone no further check lets him in, and every row that is written
uses up a request that was let in before.

### Teams: what holds although the lock races

The lock is a column that three kinds of transaction read and none of the
writers of `TeamMember` holds: `accept` (`invitation.service.ts:317`) can add a
member to a team that was locked meanwhile.  `LockedTeamSettles` says how far
that goes: no request starts after the lock, and each one in flight lands at
most once.  A resend in flight may write `PENDING` over `REVOKED` or `ACCEPTED`;
`revokedAt` is what keeps a revoked invitation out (`RevokedAdmitsNobody`), and
the key of `TeamMember` an accepted one.  `NobodyUninformed` says that a queue
which refuses some mail of a batch leaves no invitation that nobody was told of,
whether or not a resend has crossed it; a process that crashes there does.  Two
resends that overlap and both fail (line 238) leave a token nobody was sent.

### Organisations

`revokeInvite` and `resendInvite` write by identifier after a check, so a status
and its dates can disagree; what admits somebody is read under a lock, and the
dates decide (`AdmissionSpendsInvitation`), and so do the lists
(`ListedAsDisplayed`).  `OneMembershipAtATime` rests on the conditional update
`linkToOrganizationIfUnlinked`.  Left open by the code: a transfer of ownership
to a member who is removed meanwhile (`organization.service.ts:289`) leaves an
organisation without an owner.

### Accounts

`SuspensionShutsOut` has to except a confirmation link under way: `confirmEmail`
(`auth.service.ts:235`) writes back the status it read, and confirming lifts a
suspension that came between, so that `jwt-auth.strategy.ts:49` lets the user in
again.  `OldPasswordFades` has to except requests in flight: they read the
account before the change and store a session after it.  `ConfirmedIsProven` and
`StudentsAreAcademic` hold for each of the three ways to an academic address,
although an approval of a domain can be overwritten by a request for it.

### Documents, calls

`NumberedInOrder` and `NewestIsActive` hold because a number is taken under
SERIALIZABLE and a unique index, whoever gives up.  `SubmittedIsComplete` speaks
of what the submission counted: a section saved, or a document attached, by a
transaction that read `DRAFT` may still land after the submission.  `CallIsSound`
speaks of an open call only as long as no administrator wrote over another
(`overlapped`), because `openCall` checks what it read; the order of the dates
holds in any case, since an update writes both.

### Exports

A job's row and its job in the queue are in different stores.  `ExportSettles`
is the one liveness property: what reached the queue ends, with the row saying
how.  `UploadIsStored` and `QueueAgreesWithRow` hold for repeated jobs, failed
attempts and crashes at any step.  `ExportKeepsPromise` is the refinement of
`ExportPromise`, which knows only what is recorded, what was handed over and
what is said of an export (`Outcome`: the row, once the queue has finished).
Nothing is queued or handed over before its audit event is stored; an export may
be completed, lost with its worker and done again, but what the row says when
the queue has finished is final, and a failed export hands over nothing more.
A request that dies between storing the row
and queueing it leaves a row that is pending for ever, which no property of
queued jobs speaks of.

### Profiles and signals

`PathsHoldTogether` names what three parallel reads cannot exclude: what was
moved since.  `DeclarationStands` and `ProfessionalIsOfOnePiece` are about
submissions that overlap.  A profile that a submission creates is dated with it,
for good.  A profile of the seed is not (`004-dev-fixtures.seed.ts:706`): the
upsert reads the date first and writes one where there was none
(`student-profile.repository.ts:185`), so two submissions that both found it
undated both date it, the later over the earlier.  `DeclarationStands` says
that it goes no further: the first academic information dates the profile, and
only a submission that was under way by then, and had found no date, dates it
again.  A stored signal may be stale: two computations may
write in the wrong order, one may stop between two rows, and `updateCall`
changes thresholds and computes nothing; the list of Program A applications
counts the stored rows (`application.mappers.ts:389`).  `SignalsHeal` says that
this does not last: whatever was left, a computation that runs with nothing
changing around it, such as the one every read of the signals begins with,
leaves all five as the facts have them.  It is a history variable, `quiet`, that
says whether anything changed.

### Seeds

The marker of the development fixtures is the first row of the script
(`004-dev-fixtures.seed.ts:178`): a seeding that stops after it is never
completed, and `LoneSeedingIsWhole` is about one that finds no marker.
Such a seeding, when it had the database to itself, either fails at a row that
somebody else's key is in the way of, or leaves no fixture without rows.  Every
identifier is a new one of its process, those of `IDS` too
(`004-dev-fixtures.seed.ts:6`), so what refers to a user that the conflict of
e-mail addresses has left out, as the students' profiles do, fails its foreign
key: that is how a seeding whose users are there already ends.  The property
leans on one assumption about the rest of the system: nobody else has published
a backlog item, which `003-program-b-backlog.seed.ts` would take for one of its
own and go on without its organisation and its owner (`ForeignIsForeign`).
`SeedLeavesOneCall` says which calls an undisturbed `callsSeed` leaves; an
application filed between the count and the deletion goes with its call
(`002-calls.seed.ts:61`).

### Type invariants

Every specification but `Seeds` has one type invariant, `TypeOK` or a name ending
in it; that of `StudentProfiles` also types the variables of `EligibilitySignals`,
which it extends.  Each is a theorem, and no run lists it.

### Bounds, and why they are enough

- Program B, `Items = {i1}`: no operation relates two items but by the team,
  and the only such check is not on the winner's path.  `Apps = {a1, a2, a3}`,
  `Teams = {t1, t2}`: a winner, a loser and a latecomer, two of them of the same
  team.  `Users = {u1, u2}`, `Mentors = {m1}`: an owner and a successor.
- `Requests = {r1, r2}` where a module has them: the races are between two
  requests, and handlers of one action run without one.
- Program A, `Apps = {a1, a2}`, `Calls = {c1, c2}`: one team; two applications
  are what its properties relate.  `InfoItems = {q1, q2}`: a question and
  another one.  `Submitters` as above.
- Mentoring and conversations: two mentors, one of whom replaces the other; one
  project; one row, a note, a milestone or a message; two visits.  `Focus`, a
  constraint of the run, lets them work where the rest of the model is small: on a
  project while there is no application, or on the only application, outside
  needs-info rounds and beside the submission alone.  A milestone or message is
  about one application or project, so nothing is lost but the product with
  rounds and replies, which read neither mentors nor rows.  The theorems have no
  such bound.
- Teams: `Users = {u1, u2, u3}`: a leader, a member, and one who is invited;
  `Invites = {i1, i2}`: a batch of two, or one after the other, which is why
  `MinimumCreatedCount` is 1 (2 in the code).  `MaxResends = 1` bounds the
  tokens of an invitation, of teams and of organisations.
- Organisations: two people, two organisations and two invitations: somebody
  who could be in both.
- Accounts: `AccountAccess` is about one account, with two sessions, two changes
  of its password and one of its address, so an old session, an old password
  and an old link exist at once.  `AccountAddresses`: one account; its properties
  speak of one user at a time, and `Aborts` stands for the conflict with
  another's address.  Three addresses, two of them academic.
- Documents: two files for one shelf of a project, one of an organisation and two
  slots; one section; `MaxVersion = 2`.
- Calls: dates 1 and 2, one kind of document, two administrators.
- Exports: two jobs and one worker; `MaxAttempts = 2` (3 in the code), so a
  failure can be the last or not; `MaxErrors <= MaxAttempts` and `MaxCrashes <=
  StalledLimit` are the faults the code is built for, assumed by name
  (`FaultsAreForeseen`).
- Profiles: one faculty and one specialisation, two universities to move
  between, three requests of any kind: a first submission and two that overlap,
  or two computations that overlap and one that heals.  The structure, and
  professional information, change where there is no application, the team and
  the rules where there is one: neither half reads anything of the other.  A
  leader who has a profile or submits one and a mate without, two sets of answers,
  two of rules; a call without rules may be given some (`RulesAreAdded`, a
  constraint).  `Seeded` says who starts with a profile of the seed: the student or
  nobody where there is no application, and nobody beside one, because the signals
  do not read the date.  Around a profile that is as the seed left it the
  structure is not followed past an administrator's first step
  (`SeededStructureRests`, a constraint): a path that was declared and one that was
  seeded are moved alike.  The theorems have neither constraint.
- Seeds: three calls, one change by an administrator or a team, one
  developer at a time beside the deployment, and one fixture (the students)
  whose keys somebody else may have used.
- The tables are finite, so identifiers run out; a real table does not.  That
  only disables inserts.  The theorems hold for tables of any size.

What a configuration declares symmetric is interchangeable in its module; the
run with a liveness property declares none.

### Fairness and liveness

Most steps wait for a decision of a person: nothing obliges a reviewer to decide
or a team to answer.  There the specifications state no fairness, and say instead
that the next decision is possible: `QuestionAwaitsAnswer` and
`WinnerAgreesWithItem` exclude the two states in which an application or a
candidate could be stuck.

The worker does make progress on its own.  `ReportExport`'s `FairSpec` assumes
that a worker that does not crash goes on (`WF` of `Works(w)`), that the queue
gives a waiting job to a free worker (`WF` of `Take`), and that it notices a lock
that ran out (`WF` of `Stalls`), which is what BullMQ's polling does.  Nothing is
assumed of the requests, whose server may stop, and errors and crashes are never
obliged to happen or not to, within their budgets.

## 4. Proofs

`tlapm <Module>Proofs.tla` checks the theorems of a module, for tables, teams,
users, calls and requests of any number.  Eight modules hold proofs: about Program
B, Program A with its mentoring and conversations, teams, organisations, access,
addresses, intake (documents, calls, profiles and signals), and what runs in the
background (exports and seeds).  Every safety property a run checks is a theorem.

**Assumptions.** The null is no row, user, file, session or job
(`NoneAssumption`, `NoneIsNoRow`, `NoneIsNoEvent`, `NoneIsNoUser`, `NoneIsNone`,
`NoneIsNothing`, `NoneIsNoFile`, `NoneIsNoSession`, `NoJobIsNoJob`, `NoneIsNoRecord`,
`UnsetIsNoValue`, `NullIsNoSubmission`, `SeedIsNoSubmission`, `NullIsNoProfile`, `NoneIsNoCall`).  Identifiers of different
tables differ (`MentorAssumption`, `AnchorAssumption`).  Bounds are
numbers (`MaxResendsIsNatural`, `BoundsAreNatural`, `BudgetsAreNatural`).
Subsets are subsets (`SubmitterAssumption`, `AcademicAddresses`,
`OwnedAreShelves`, `LeaderIsStudent`, `AuthorsAreStudents`, `SeededAreStudents`,
`AnswersAreTyped`).
`FaultsAreForeseen` and `ForeignIsForeign` as above.  `OneSubmitter`, where a
theorem says so: at most one request submits.

**Program B.** None of the properties is inductive.  `IInv` adds to the type
invariant what connects the tables: an item past pairing has exactly one
project; whoever holds a winning status belongs to an item in pairing or is the
candidate of its project; no candidate of an item that was never in pairing is
past `SUBMITTED` except losers; a project's owner is its item's, which can only
change before the hand-off; a project is closed exactly when both sides accepted
it (`ClosedByBothSides`, a theorem of its own); an application that a withdrawal
has read exists.  `InvariantHolds` proves it action by action.

**Program A.** `OverlapInv` holds for any number of submitters: it is types,
the index (`OneApplicationPerCall`) and `QuestionAwaitsAnswer` with what they
need about replies in flight.  `SerialInv` adds, under `OneSubmitter`, that an
application whose submission is in flight is still a draft, from which the other
properties follow, and `DecisionsAreDated`.  `PromiseIsKept` is the refinement:
`phase` is a function of `status`, and each action is a step of
`ApplicationCase` or leaves the phase alone.

**Mentoring and conversations.** `WorkLeavesLife` proves that `WorkSpec` implements
`Spec`: the lifecycle's theorems hold of the composition without being proved
again.  `SupportFollowsGrant` needs, beside `SerialInv`, that a visit which has
passed its check for a mentor or a milestone is about an application that is
granted, and for a note about one with a mentor (`ChecksStillHold`); that is
inductive because no step of the lifecycle leaves `Granted` when a submission
still finds its draft, and a mentor is replaced but never removed.  `RightsEnd` is an
action property for any number of visits and submitters: of the visits that
passed for `x`, a step adds one only where the ground of its user's right is
there, and writes about `x` only by removing one.

**Teams.** `TeamSteps` lists what any step can do to the team; `LeaderIsMember`
is inductive over it, and `LockedTeamSettles` follows with `LockedExists` (only
a team that exists is locked, so none is created over a lock) and
`LockedStopsMovers`.  `NobodyUninformed` speaks of every invitation that is not
revoked, spent or expired ones included, because a resend can bring those back;
that makes it inductive.

**Organisations.** `IInv` says what the steps of a request know since it started,
that members have accounts, and that every row was mailed or is about to be, or
deleted.  The two action properties follow from a list of the only actions that
touch a membership.

**Access.** `IInv` says that a request which will issue a session was entitled
to it when it read, and that nothing takes that entitlement back: the address
stays confirmed, and an administrator is asked to change the seeded password
only once.  `SuspensionShutsOut` follows from what each way to a session asks
of the status.

**Addresses.** `LinksAreGood`: a link was sent to the address it proves, or that
address is proven already; links for students go to the university.

**Documents.** What a request saw of a shelf or slot is still there when it
writes, so a number that is still free is the next one.  That the numbers are
`1..n` uses the library's facts about finite sets (lemma `NumberedSize`).

**Exports.** `Ordered` (a job the queue gave out has one worker), `FilesAreCurrent`
(the newest file of a job is the one its worker is at) and `FaultsAreSpent`
(every failed attempt has cost an error, one that left the row alone two, every
stall a crash) together give the invariants.  `ExportPromiseIsKept` is the
refinement, step by step: nobody sees what happens while a job is queued or with
a worker (`Silent`), a job leaves the queue with a row that says how it ended,
which is where `QueueAgreesWithRow` is needed after the step (`Settling`), and a
link works only for a completed row, whose job was queued and hence recorded.

**Calls.** `CallInv` says what entitles each handler in flight to its write
(`HandlerIsEntitled`): dates in order, and a result that is sound if the call it
read was.  A write over that very call leaves it sound; any other sets
`overlapped`.

**Profiles.** `SafeInv` says what a submission has seen (`ChecksStood`): a row it
checked was there and had its parent, so it still has it or was moved; and that
who replaces professional information holds the profile alone and has deleted
the very rows that are there (`ReplacementsAreAlone`).  The upsert's foreign keys
give the rest of `PathsHoldTogether`.  `FindingsHold`, beside it, is for
`DeclarationStands`: a submission about to upsert into an undated profile has
found it undated, so the upsert dates it.  Whatever else happens leaves the dates
alone (`RestingDates`), and an upsert replaces one only as the property allows
(`UpsertDates`).

**Signals.** `HealInv` adds `ComputationsAreOnCourse`.  While nothing has changed
around a computation (`quiet = "alone"`) it is the only one, and what it still has
to store completes what is stored to the verdicts on the team it computes for
(`OnCourse`); each row it upserts moves from the one part to the other, and when
nothing is left the stored signals are the verdicts.  Whatever changes a fact, or
begins a second computation, makes `quiet` disturbed.

**Seeds.** `SeedsInv` says that a run nobody disturbs is on course (`OnCourse`): the
programs before the one it is at are settled, and what it found of that one's
calls, less what it has dealt with, is what is there.  Filing an application
keeps it on course, every other change of a call by somebody else ends `tidy`.
`LoneInv` is the other theorem's.  Of the runs that are alone it says, place by
place in the script, that what comes before a run's place is there and can be
referred to, and that what comes after the marker has nothing but other
people's rows (`DevIsWhole`, `BaselineIsWhole`, with `Place`, the script turned
inside out); that a call for Program A is there from `callsSeed` on, because a
deletion always spares one (`CallIsThere`, `Spares`).  Of every run, alone or
not, it says that the marker comes before what follows it, and 003's
organisation and owner before its items (`MarkerComesFirst`,
`OwnerComesFirst`): that is what a later run can conclude from what it finds.
Where the instructions stand, and that each refers only to earlier ones, is
computed from the scripts (`DevAt`, `FixturesFit`), so it is not an induction.

**Only model-checked.** Liveness under fairness (`ExportSettles`), `ENABLED` and
facts about recursive definitions are out of the prover's reach.  And the
refutation, which is a behaviour TLC shows.

## 5. Not modelled

`PROJECT.json` lists every component with its status.  What is left out, and why:

- **Reads.** Lists, dashboards, Program B's company overview, the audit PDF.
- **Independent records.** The contact form, the profile texts of users and
  organisations, the grant budget and the reward: no other operation depends on
  them.  Attachments of a message only refuse it.
- **Development bypasses** of token checks.
- **`ensurePersonalTeamForUser`**, which nothing in production calls, and the
  rename and deletion of a team.
- **Adapters.** Controllers, guards, DTOs, API documentation, mail rendering,
  PDF, storage, hashing, configuration and logging carry no state.  E-mails
  appear only where a refused one is compensated for.

The largest files the map leaves out are of these kinds: the decorators of the
API documentation, the DTOs, the renderers of reports, and the queries behind
lists.

## 6. Plan

1. *Done:* Program B; Program A's lifecycle and its abstract specification,
   mentoring and conversations; teams; organisations; access; addresses;
   documents; calls; exports; profiles, structure and signals; seeds.
2. *Done:* proofs of every safety property.
3. *Done:* the abstract specification of an export, and the refinement proved.
4. The deletion of a team against its invitations and applications.
