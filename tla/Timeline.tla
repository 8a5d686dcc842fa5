------------------------------ MODULE Timeline ------------------------------
(***************************************************************************)
(* Paging through the messages of a channel or the replies of a thread     *)
(* while others write and delete: newest first, a page at a time, with the *)
(* id of the last message of a page as the cursor of the next.             *)
(*                                                                         *)
(* The limit is clamped three times on its way: by the handler, by the     *)
(* service, which then asks for one more to see if there is more, and by   *)
(* the repository, which asks for one more again and cuts it off.  Who may *)
(* read, and what a message says, are left out.                            *)
(***************************************************************************)
EXTENDS Integers, FiniteSets

CONSTANTS
    MessageIds,     \* message ids: they grow with the time of their creation
    Readers,        \* clients that page through the history
    Asked,          \* limits clients ask for
    DefaultLimit,
    MaxLimit

ASSUME TimelineAssumption ==
    /\ MessageIds \subseteq Nat /\ IsFiniteSet(MessageIds)
    /\ Asked \subseteq Int
    /\ {DefaultLimit, MaxLimit} \subseteq Nat \ {0} /\ DefaultLimit <= MaxLimit

VARIABLES
    kept,       \* ids of the messages of the channel that are not deleted
    deleted,    \* ids of those that are
    readers     \* per reader: its limit, its cursor, what it has been given

timelineVars == <<kept, deleted, readers>>

NoCursor == -1
Away == [at |-> "away", limit |-> DefaultLimit, cursor |-> NoCursor,
         had |-> {}, given |-> {}]

TimelineInit ==
    /\ kept = {} /\ deleted = {}
    /\ readers = [r \in Readers |-> Away]

-----------------------------------------------------------------------------
\* Params.Normalize
Normalize(n) == IF n <= 0 THEN DefaultLimit ELSE IF n > MaxLimit THEN MaxLimit ELSE n

\* ORDER BY id DESC LIMIT n
Newest(S, n) == {x \in S : Cardinality({y \in S : y > x}) < n}
Oldest(S)    == CHOOSE x \in S : \A y \in S : x <= y

\* WHERE id < cursor, without a condition when there is no cursor.
Before(cursor) == {x \in kept : cursor = NoCursor \/ x < cursor}

\* The query asks for one more than it returns.
ListByChannel(cursor, n) ==
    Newest(Newest(Before(cursor), Normalize(n) + 1), Normalize(n))

\* Mutation: the service asks for no more than it shows.
FetchLimitSame(limit) == limit

FetchLimit(limit) == limit + 1

\* GetMessages and GetThreadReplies: what they read.
Fetched(r) == ListByChannel(readers[r].cursor, FetchLimit(readers[r].limit))

-----------------------------------------------------------------------------
\* A message of any server: ids need not come in order.
Post(x) ==
    /\ x \notin kept \cup deleted
    /\ kept' = kept \cup {x}
    /\ UNCHANGED <<deleted, readers>>

Unpost(x) ==
    /\ x \in kept
    /\ kept' = kept \ {x} /\ deleted' = deleted \cup {x}
    /\ UNCHANGED readers

\* A client opens the history; it keeps to one limit.
Open(r, n) ==
    /\ readers[r] = Away
    /\ readers' = [readers EXCEPT ![r] =
          [Away EXCEPT !.at = "reading", !.limit = Normalize(n), !.had = kept]]
    /\ UNCHANGED <<kept, deleted>>

\* buildMessagePage: what is over the limit is cut off and says there is more.
NextPage(r) ==
    LET limit == readers[r].limit
        items == Newest(Fetched(r), limit)
        more  == Cardinality(Fetched(r)) > limit
    IN
    /\ readers[r].at = "reading"
    /\ readers' = [readers EXCEPT ![r].given = @ \cup items,
                                  ![r].cursor = IF more THEN Oldest(items) ELSE NoCursor,
                                  ![r].at = IF more THEN "reading" ELSE "end"]
    /\ UNCHANGED <<kept, deleted>>

TimelineNext ==
    \/ \E x \in MessageIds : Post(x) \/ Unpost(x)
    \/ \E r \in Readers : NextPage(r) \/ \E n \in Asked : Open(r, n)

TimelineSpec == TimelineInit /\ [][TimelineNext]_timelineVars

-----------------------------------------------------------------------------
(* GetMessages and GetThreadReplies: a client that is told there is no     *)
(* more has been given every message that was there when it began and      *)
(* still is, whatever was written and deleted between its pages.  At the   *)
(* largest limit the repository clamps the one more the service asked for, *)
(* and the first page is said to be the last: smaller limits are meant.    *)
PagesCoverHistory ==
    \A r \in Readers :
        readers[r].at = "end" /\ readers[r].limit < MaxLimit =>
            readers[r].had \cap kept \subseteq readers[r].given
=============================================================================
