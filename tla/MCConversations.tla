---------------------------- MODULE MCConversations ----------------------------
(***************************************************************************)
(* Program A's applications of one team on small tables, with the work on  *)
(* one application or on one Program B project at a time.                  *)
(***************************************************************************)
EXTENDS Conversations, TLC

Symmetry == Permutations(Apps) \cup Permutations(Calls)
            \cup Permutations(InfoItems) \cup Permutations(Mentors)
            \cup Permutations(Visits)

\* Bound: work goes on where the life of the applications is simple.  Either
\* nobody works, or on a project while there is no application, or on the one
\* application, in no needs-info round and beside one request of the team.
NobodyWorks == row = [w \in Rows |-> None] /\ visit = [v \in Visits |-> NoVisit]
               /\ mentor = [x \in Anchors |-> None]

Existing == {a \in Apps : status[a] # "ABSENT"}

Focus ==
    \/ NobodyWorks /\ closed = {}
    \/ Existing = {} /\ request = [r \in Requests |-> Idle]
    \/ /\ \A a, b \in Existing : a = b
       /\ infoStatus = [q \in InfoItems |-> "ABSENT"]
       /\ \A r \in Requests \ Submitters : request[r] = Idle
       /\ \A p \in Projects : mentor[p] = None
       /\ closed = {}
       /\ \A w \in Rows : row[w] # None => row[w].on \in Apps
       /\ \A v \in Visits : visit[v].on \notin Projects

=============================================================================
