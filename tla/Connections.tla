------------------------------ MODULE Connections ------------------------------
(***************************************************************************)
(* The account a workspace has connected, on GitHub or on Meta Threads     *)
(* (internal/integrations/github and metathreads: app over adapters/repo). *)
(*                                                                         *)
(* The two share a life cycle and differ in how a row ends: GitHub deletes *)
(* it, with the repositories authorised under it, and a reconnection is    *)
(* another row; Meta Threads wipes its token and marks it, and reconnecting*)
(* over a live row keeps the row.  A call talks to the platform between    *)
(* what it reads and what it writes.  A step is one statement, or the      *)
(* commit of a transaction; a DELETE inside one removes the rows it saw.   *)
(***************************************************************************)
EXTENDS Naturals, Sequences, FiniteSets

CONSTANTS
  Platforms,    \* the integrations to explore, each on its own
  Workspaces,   \* workspaces
  Accounts,     \* accounts on the platform
  Repos,        \* repositories on GitHub
  Accessible,   \* account -> the repositories its token can see
  Callers,      \* requests and tool calls under way
  MaxRows,      \* bound: connections ever stored
  MaxErasures   \* bound: times one account withdraws its consent

ASSUME ConnectionAssumption ==
  /\ Platforms \subseteq {"github", "meta_threads"}
  /\ Accessible \in [Accounts -> SUBSET Repos]
  /\ IsFiniteSet(Callers) /\ {MaxRows, MaxErasures} \subseteq Nat

VARIABLES
  platform,  \* the integration explored
  rows,      \* its connections, in order of insertion; the index is the id
  calls,     \* caller -> the call it makes
  erasures   \* account -> times its tokens were withdrawn on the platform

vars == <<platform, rows, calls, erasures>>

None == "none"
NoToken == [of |-> None, era |-> 0]
NewToken(a) == [of |-> a, era |-> erasures[a]]
Valid(token) == token.era = erasures[token.of]

\* `slipped` and `mixed` are history: the row was last written by a call that another
\* had overtaken.  `chosen` is the last authorised choice, history too.
Connected(w, token, slip) ==
  [ws |-> w, account |-> token.of, token |-> token, live |-> TRUE, repos |-> {},
   chosen |-> {}, slipped |-> slip, mixed |-> FALSE]
Gone(row) == [Connected(row.ws, NoToken, FALSE) EXCEPT !.live = FALSE, !.account = row.account]

Idle == [at |-> "idle", ws |-> None, row |-> 0, token |-> NoToken, names |-> {}, seen |-> {}, late |-> FALSE]

Init ==
  /\ platform \in Platforms
  /\ rows = <<>>
  /\ calls = [c \in Callers |-> Idle]
  /\ erasures = [a \in Accounts |-> 0]

LiveIn(w) == {i \in DOMAIN rows : rows[i].live /\ rows[i].ws = w}
Connecting == {c \in Callers : calls[c].at \in {"connect", "replace"}}

\* The calls that read row i and have it still to write.
Overtake(others, c, i) ==
  [d \in Callers |-> IF d = c THEN Idle
                     ELSE IF others[d].at \in {"refresh", "authorise"} /\ others[d].row = i
                          THEN [others[d] EXCEPT !.late = TRUE] ELSE others[d]]

--------------------------------------------------------------------------------
(* Connecting.                                                             *)

\* The platform exchanges the code, or answers for the token, and names its account.
Connect(c) ==
  /\ calls[c].at = "idle" /\ Len(rows) + Cardinality(Connecting) < MaxRows
  /\ \E w \in Workspaces, a \in Accounts :
       calls' = [calls EXCEPT ![c] = [Idle EXCEPT !.at = "connect", !.ws = w, !.token = NewToken(a)]]
  /\ UNCHANGED <<platform, rows, erasures>>

\* Meta Threads: INSERT ... ON CONFLICT (workspace_id) WHERE deleted_at IS NULL.
KeepAccount(i, row) == IF i \in DOMAIN rows THEN [row EXCEPT !.account = rows[i].account] ELSE row  \* faulty
Overwrite(i, row) == row
OfTheSameWorkspace(w) ==                                       \* faulty
  LET all == {i \in DOMAIN rows : rows[i].ws = w} IN IF all = {} THEN {Len(rows) + 1} ELSE all
Conflicting(w) == IF LiveIn(w) = {} THEN {Len(rows) + 1} ELSE LiveIn(w)
Upsert(c) ==
  /\ platform = "meta_threads" /\ calls[c].at = "connect"
  /\ LET w == calls[c].ws IN
     \E i \in Conflicting(w) :
       /\ rows' = [j \in DOMAIN rows \cup {i} |->
                     IF j = i THEN Overwrite(i, Connected(w, calls[c].token, calls[c].late)) ELSE rows[j]]
       /\ calls' = Overtake(calls, c, i)
  /\ UNCHANGED <<platform, erasures>>

\* GitHub: the workspace's row is deleted and another inserted, in a transaction.
DeletePrevious(c) ==
  /\ platform = "github" /\ calls[c].at = "connect"
  /\ \E i \in IF LiveIn(calls[c].ws) = {} THEN {0} ELSE LiveIn(calls[c].ws) :
       calls' = [calls EXCEPT ![c].at = "replace", ![c].row = i]
  /\ UNCHANGED <<platform, rows, erasures>>

\* A row that appeared since meets the unique index: the call fails.
CarryOver(i, row) == IF i = 0 THEN row ELSE [row EXCEPT !.repos = rows[i].repos]  \* faulty
Cascade(i, row) == row
InsertConnection(c) ==
  /\ calls[c].at = "replace"
  /\ LiveIn(calls[c].ws) \subseteq {calls[c].row}
  /\ rows' = Append([i \in DOMAIN rows |-> IF i = calls[c].row THEN Gone(rows[i]) ELSE rows[i]],
                    Cascade(calls[c].row, Connected(calls[c].ws, calls[c].token, FALSE)))
  /\ calls' = [calls EXCEPT ![c] = Idle]
  /\ UNCHANGED <<platform, erasures>>

--------------------------------------------------------------------------------
(* Disconnecting.                                                          *)

WithoutWiping(row) == [row EXCEPT !.live = FALSE]              \* faulty
Removed(row) == Gone(row)

\* Not connected is an error and changes nothing.
Disconnect ==
  /\ \E w \in Workspaces :
       /\ LiveIn(w) # {}
       /\ rows' = [i \in DOMAIN rows |-> IF i \in LiveIn(w) THEN Removed(rows[i]) ELSE rows[i]]
  /\ UNCHANGED <<platform, calls, erasures>>

\* A person removes the application on Meta's side, or asks for deletion, and Meta
\* calls back: every workspace's connection to that account ends.
NamedBy(i, a) == rows[i].live /\ rows[i].account = a
DisconnectByAccountID ==
  /\ platform = "meta_threads"
  /\ \E a \in Accounts :
       /\ erasures[a] < MaxErasures
       /\ erasures' = [erasures EXCEPT ![a] = @ + 1]
       /\ rows' = [i \in DOMAIN rows |-> IF NamedBy(i, a) THEN Removed(rows[i]) ELSE rows[i]]
       /\ calls' = [c \in Callers |->
                      IF calls[c].at \in {"connect", "refresh"} /\ calls[c].token.of = a
                      THEN [calls[c] EXCEPT !.late = TRUE] ELSE calls[c]]
  /\ UNCHANGED platform

--------------------------------------------------------------------------------
(* Refreshing a Meta Threads token.                                        *)

\* The stored token is exchanged for a newer one of the same account; Meta refuses a
\* withdrawn one.
Refresh(c) ==
  /\ platform = "meta_threads" /\ calls[c].at = "idle"
  /\ \E w \in Workspaces : \E i \in LiveIn(w) :
       /\ Valid(rows[i].token)
       /\ calls' = [calls EXCEPT ![c] = [Idle EXCEPT !.at = "refresh", !.ws = w, !.row = i, !.token = rows[i].token]]
  /\ UNCHANGED <<platform, rows, erasures>>

\* Stored on the row that was read, if it is connected still.
WhateverItsState(i) == TRUE                                    \* faulty
StillLive(i) == rows[i].live
ReplaceToken(c) ==
  /\ calls[c].at = "refresh" /\ StillLive(calls[c].row)
  /\ rows' = [rows EXCEPT ![calls[c].row].token = calls[c].token,
                          ![calls[c].row].slipped = @ \/ calls[c].late]
  /\ calls' = [calls EXCEPT ![c] = Idle]
  /\ UNCHANGED <<platform, erasures>>

--------------------------------------------------------------------------------
(* Authorising repositories on GitHub.                                     *)

\* The names asked for have to be among those the token can see.
AnyName(token) == Repos                                        \* faulty
AccessibleRepositories(token) == Accessible[token.of]
SetAuthorizedRepositories(c) ==
  /\ platform = "github" /\ calls[c].at = "idle"
  /\ \E w \in Workspaces : \E i \in LiveIn(w) :
     \E names \in SUBSET AccessibleRepositories(rows[i].token) :
       calls' = [calls EXCEPT ![c] = [Idle EXCEPT !.at = "choose", !.ws = w, !.row = i, !.names = names]]
  /\ UNCHANGED <<platform, rows, erasures>>

\* ReplaceAll: the connection's repositories are deleted, the chosen ones inserted.
NothingDeleted(i) == {}                                        \* faulty
ListByConnection(i) == rows[i].repos
ClearRepositories(c) ==
  /\ calls[c].at = "choose"
  /\ calls' = [calls EXCEPT ![c].at = "authorise", ![c].seen = ListByConnection(calls[c].row)]
  /\ UNCHANGED <<platform, rows, erasures>>

\* The foreign key refuses a repository of a connection that is gone, the unique index
\* one that another choice has inserted since; with nothing to insert neither does.
InsertRepositories(c) ==
  /\ calls[c].at = "authorise"
  /\ LET i == calls[c].row
         left == rows[i].repos \ calls[c].seen
     IN /\ calls[c].names # {} => rows[i].live
        /\ calls[c].names \cap left = {}
        /\ rows' = [rows EXCEPT ![i].repos = left \cup calls[c].names,
                                ![i].chosen = calls[c].names, ![i].mixed = calls[c].late]
        /\ calls' = Overtake([d \in Callers |->
                       IF calls[d].row = i THEN [calls[d] EXCEPT !.seen = @ \cap left] ELSE calls[d]], c, i)
  /\ UNCHANGED <<platform, erasures>>

--------------------------------------------------------------------------------
(* A tool call: the connection and its token, then the row of the named    *)
(* repository under that connection, then the platform.                    *)

Resolve(c) ==
  /\ platform = "github" /\ calls[c].at = "idle"
  /\ \E w \in Workspaces : \E i \in LiveIn(w) :
       calls' = [calls EXCEPT ![c] = [Idle EXCEPT !.at = "resolved", !.ws = w, !.row = i, !.token = rows[i].token]]
  /\ UNCHANGED <<platform, rows, erasures>>

OfTheWorkspace(c) == UNION {rows[i].repos : i \in LiveIn(calls[c].ws)}  \* faulty
OfTheConnection(c) == rows[calls[c].row].repos
FindByFullName(c) ==
  /\ calls[c].at = "resolved"
  /\ \E r \in OfTheConnection(c) : calls' = [calls EXCEPT ![c].at = "fetch", ![c].names = {r}]
  /\ UNCHANGED <<platform, rows, erasures>>

\* The platform answers, a check refuses, a statement fails, the process ends.
Finish(c) ==
  /\ calls[c].at # "idle"
  /\ calls' = [calls EXCEPT ![c] = Idle]
  /\ UNCHANGED <<platform, rows, erasures>>

Next ==
  \/ Disconnect \/ DisconnectByAccountID
  \/ \E c \in Callers :
       \/ Connect(c) \/ Upsert(c) \/ DeletePrevious(c) \/ InsertConnection(c)
       \/ Refresh(c) \/ ReplaceToken(c)
       \/ SetAuthorizedRepositories(c) \/ ClearRepositories(c) \/ InsertRepositories(c)
       \/ Resolve(c) \/ FindByFullName(c) \/ Finish(c)

Spec == Init /\ [][Next]_vars

--------------------------------------------------------------------------------

Token == [of : Accounts \cup {None}, era : 0..MaxErasures]
Row == [ws : Workspaces, account : Accounts, token : Token, live : BOOLEAN, repos : SUBSET Repos,
        chosen : SUBSET Repos, slipped : BOOLEAN, mixed : BOOLEAN]
Call == [at : {"idle", "connect", "replace", "refresh", "choose", "authorise", "resolved", "fetch"},
         ws : Workspaces \cup {None}, row : 0..MaxRows, token : Token,
         names : SUBSET Repos, seen : SUBSET Repos, late : BOOLEAN]
TypeOK ==
  /\ platform \in Platforms
  /\ \A i \in DOMAIN rows : rows[i] \in Row
  /\ calls \in [Callers -> Call]
  /\ erasures \in [Accounts -> 0..MaxErasures]

\* One account per workspace, whichever connections race.
OneConnection == \A w \in Workspaces : Cardinality(LiveIn(w)) <= 1

\* Disconnecting is "stop holding this" (metathreads/adapters/repo/repo.go): no row that
\* ended holds a token, or repositories authorised under it.
EndedHoldsNothing == \A i \in DOMAIN rows : ~rows[i].live => rows[i].token = NoToken /\ rows[i].repos = {}

\* The stored token opens the stored account, and is not one its owner withdrew, unless
\* the row was written by a call that a reconnection or Meta's callback had overtaken.
TokenIsTheAccounts ==
  \A i \in DOMAIN rows :
    (rows[i].live /\ ~rows[i].slipped) => rows[i].token.of = rows[i].account /\ Valid(rows[i].token)

\* "Decisions about a credential that no longer exists" are not carried over to another
\* account: what is authorised, the stored token can see.
AuthorisedIsAccessible == \A i \in DOMAIN rows : rows[i].live => rows[i].repos \subseteq Accessible[rows[i].token.of]

\* The authorised set is the last one chosen, unless another choice was being written
\* at the same time.
ChosenIsAuthorised == \A i \in DOMAIN rows : (rows[i].live /\ ~rows[i].mixed) => rows[i].repos = rows[i].chosen

\* A tool reads no repository with the token of another connection than the one it was
\* authorised under, although the connection may be replaced between its two reads.
ReadsStayInside == \A c \in Callers : calls[c].at = "fetch" => calls[c].names \subseteq Accessible[calls[c].token.of]

\* However connecting, refreshing, choosing and disconnecting interleave: a workspace has
\* one account with its own token, and tools read what was chosen for it.
ConnectionsAreSound ==
  /\ TypeOK /\ OneConnection /\ EndedHoldsNothing /\ TokenIsTheAccounts
  /\ AuthorisedIsAccessible /\ ChosenIsAuthorised /\ ReadsStayInside

\* A connection that ended is never revived, nor given a token that was on its way
\* when it ended: connecting again makes another.
EndedForGood ==
  [][\A i \in DOMAIN rows :
       ~rows[i].live => rows'[i].live = FALSE /\ rows'[i].token = rows[i].token /\ rows'[i].account = rows[i].account]_vars

\* The inductive strengthening: what is true of each row, and what each call under way
\* still knows of the row it read.
RowIsSound(row) ==
  /\ row \in Row
  /\ ~row.live => row.token = NoToken /\ row.repos = {}
  /\ row.live => row.token.of \in Accounts /\ row.repos \subseteq Accessible[row.token.of]
  /\ row.live /\ ~row.slipped => row.token.of = row.account /\ Valid(row.token)
  /\ row.live /\ ~row.mixed => row.repos = row.chosen
  /\ platform = "meta_threads" => row.repos = {}

Reading == {"refresh", "choose", "authorise", "resolved"}
CallKnows(call) ==
  /\ call.at \in {"connect", "replace"} => call.ws \in Workspaces /\ call.token.of \in Accounts
  /\ call.at = "connect" => /\ call.late \/ Valid(call.token)
                            /\ platform = "github" => ~call.late
  /\ call.at = "replace" => /\ platform = "github" /\ Valid(call.token)
                            /\ call.row = 0 \/ call.row \in DOMAIN rows
  /\ call.at \in Reading =>
       /\ call.row \in DOMAIN rows
       /\ (platform = "meta_threads") <=> (call.at = "refresh")
  /\ call.at \in {"refresh", "resolved"} => call.token.of \in Accounts
  /\ call.at = "fetch" => call.names \subseteq Accessible[call.token.of]
  /\ call.at \in Reading /\ rows[call.row].live =>
       LET row == rows[call.row]
       IN /\ call.at = "refresh" /\ ~call.late /\ ~row.slipped =>
               call.token.of = row.account /\ Valid(call.token)
          /\ call.at \in {"choose", "authorise"} => call.names \subseteq Accessible[row.token.of]
          /\ call.at = "authorise" /\ ~call.late => row.repos \subseteq call.seen
          /\ call.at = "resolved" => call.token = row.token

OneLive == \A i, j \in DOMAIN rows : rows[i].live /\ rows[j].live /\ rows[i].ws = rows[j].ws => i = j

IInv ==
  /\ TypeOK /\ OneLive
  /\ rows \in Seq(Row) /\ Len(rows) + Cardinality(Connecting) <= MaxRows
  /\ \A i \in DOMAIN rows : RowIsSound(rows[i])
  /\ \A c \in Callers : CallKnows(calls[c])

\* ReplaceAll "sets the authorized set to exactly `repos`" (github/adapters/repo/repo.go).
ExactlyTheChoice == \A i \in DOMAIN rows : rows[i].live => rows[i].repos = rows[i].chosen

\* "If an account was linked, that credential has been destroyed and the link removed",
\* "immediately" (metathreads/adapters/httpapi/handler.go): none withdrawn is held.
ErasedIsGone == \A i \in DOMAIN rows : rows[i].live => Valid(rows[i].token)

\* "Reconnecting the same workspace takes over the existing row, whichever state it was
\* in" (metathreads/adapters/repo/repo.go).
ReconnectTakesOver == \A i, j \in DOMAIN rows : rows[i].ws = rows[j].ws => i = j
================================================================================
