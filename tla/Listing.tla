------------------------------- MODULE Listing -------------------------------
(***************************************************************************)
(* One "hatchway list": ListTunnelsCtx (internal/cli/client.go) follows    *)
(* the pages of ListTunnels (internal/server/tunnels/handlers.go) while    *)
(* tunnels are created. A page is one statement, keyed on the creation     *)
(* time and id of the last row of the page before; the creation time is    *)
(* now() of the creating transaction, which commits later.                 *)
(* Rows are never deleted, and a page shows tunnels of every status.       *)
(***************************************************************************)
EXTENDS Integers, Sequences

CONSTANTS
    MaxTunnel,      (* bound: tunnels; an id is its place in the order of ids *)
    Users,
    None,
    Limit,          (* rows of a page *)
    MaxPageAttempts, (* maxAttempts of doCtx *)
    MaxClock        (* bound *)

Tunnels == 1..MaxTunnel

ASSUME ListingAssumption ==
    /\ MaxTunnel \in Nat /\ Limit \in Nat \ {0} /\ MaxPageAttempts \in Nat \ {0} /\ MaxClock \in Nat
    /\ None \notin Users \union Tunnels

VARIABLES
    now, state, owner, created,         (* the rows of tunnels *)
    lister, caller, cursor, cursors, listed, attempts,
    repeated,                           (* it has seen a cursor twice *)
    atStart                             (* history: its tunnels when it began *)

rows == <<now, state, owner, created>>
listing == <<lister, caller, cursor, cursors, listed, attempts, repeated, atStart>>
listVars == <<rows, listing>>

Committed(u) == {t \in Tunnels : state[t] = "committed" /\ owner[t] = u}

ListInit ==
    /\ now = 1
    /\ state = [t \in Tunnels |-> "none"]
    /\ owner = [t \in Tunnels |-> None]
    /\ created = [t \in Tunnels |-> 0]
    /\ lister = "idle"
    /\ caller = None
    /\ cursor = None
    /\ cursors = {}
    /\ listed = <<>>
    /\ attempts = 0
    /\ repeated = FALSE
    /\ atStart = {}

(* BEGIN of a create, which fixes created_at.                              *)
BeginCreate(t) ==
    /\ state[t] = "none"
    /\ \E u \in Users : owner' = [owner EXCEPT ![t] = u]
    /\ state' = [state EXCEPT ![t] = "open"]
    /\ created' = [created EXCEPT ![t] = now]
    /\ UNCHANGED <<now, listing>>

CommitCreate(t) ==
    /\ state[t] = "open"
    /\ state' = [state EXCEPT ![t] = "committed"]
    /\ UNCHANGED <<now, owner, created, listing>>

Tick ==
    /\ now < MaxClock
    /\ now' = now + 1
    /\ UNCHANGED <<state, owner, created, listing>>

-----------------------------------------------------------------------------
(* ListTunnels.                                                            *)

Newer(a, b) == created[a] > created[b] \/ (created[a] = created[b] /\ a > b)

(* A mutant: the cursor is inclusive.                                      *)
MutantBeyondOrAt(u, c) == {t \in Committed(u) : c = None \/ ~Newer(t, c)}

(* A mutant: the cursor is the time alone.                                 *)
MutantBeyond(u, c) == {t \in Committed(u) : c = None \/ created[t] < created[c]}

(* WHERE user_id = $1 AND (created_at, id) < ($2, $3); the cursor is the   *)
(* row it was taken from.                                                  *)
Beyond(u, c) == {t \in Committed(u) : c = None \/ Newer(c, t)}

(* What ORDER BY created_at DESC, id DESC LIMIT limit + 1 makes of them:   *)
(* the newest, in order; a row that is left out is older than a full page. *)
IsPageOf(entries, rest) ==
    /\ \A i, j \in 1..Len(entries) : i < j => Newer(entries[i], entries[j])
    /\ \A t \in rest :
          \/ \E i \in 1..Len(entries) : entries[i] = t
          \/ Len(entries) = Limit + 1 /\ \A i \in 1..Len(entries) : Newer(entries[i], t)

Entries(u, c) ==
    {entries \in UNION {[1..n -> Beyond(u, c)] : n \in 0..Limit + 1} : IsPageOf(entries, Beyond(u, c))}

(* The extra row tells that there is a next page, and is left to it.       *)
Page(entries) ==
    IF Len(entries) > Limit
    THEN [tunnels |-> SubSeq(entries, 1, Limit), next |-> entries[Limit]]
    ELSE [tunnels |-> entries, next |-> None]

-----------------------------------------------------------------------------
(* ListTunnelsCtx, with the credential of a user.                          *)

StartListing(u) ==
    /\ lister = "idle"
    /\ caller' = u
    /\ lister' = "asking"
    /\ atStart' = Committed(u)
    /\ UNCHANGED <<rows, cursor, cursors, listed, attempts, repeated>>

(* A page is read and arrives: the last one, one whose cursor was seen     *)
(* before, or one more.                                                    *)
ReceivePage ==
    /\ lister = "asking"
    /\ attempts' = 0
    /\ \E entries \in Entries(caller, cursor) :
       LET page == Page(entries)
       IN  /\ listed' = listed \o page.tunnels
           /\ \/ /\ page.next = None
                 /\ lister' = "listed"
                 /\ UNCHANGED <<cursor, cursors, repeated>>
              \/ /\ page.next \in cursors
                 /\ lister' = "failed"
                 /\ repeated' = TRUE
                 /\ UNCHANGED <<cursor, cursors>>
              \/ /\ page.next \notin cursors \union {None}
                 /\ cursor' = page.next
                 /\ cursors' = cursors \union {page.next}
                 /\ UNCHANGED <<lister, repeated>>
    /\ UNCHANGED <<rows, caller, atStart>>

(* A mutant: the page is asked for again when the attempts are used up.    *)
MutantRetryPage ==
    /\ lister = "asking"
    /\ attempts' = IF attempts + 1 < MaxPageAttempts THEN attempts + 1 ELSE 0
    /\ UNCHANGED <<rows, lister, caller, cursor, cursors, listed, repeated, atStart>>

(* No answer, or 502, 503, 504: the same page is asked for again.          *)
RetryPage ==
    /\ lister = "asking"
    /\ attempts + 1 < MaxPageAttempts
    /\ attempts' = attempts + 1
    /\ UNCHANGED <<rows, lister, caller, cursor, cursors, listed, repeated, atStart>>

(* The last attempt fails, another status, or a body that is no page.      *)
FailPage ==
    /\ lister = "asking"
    /\ lister' = "failed"
    /\ UNCHANGED <<rows, caller, cursor, cursors, listed, attempts, repeated, atStart>>

ListerStep == ReceivePage \/ RetryPage \/ FailPage

ListNext ==
    \/ Tick
    \/ \E t \in Tunnels : BeginCreate(t) \/ CommitCreate(t)
    \/ \E u \in Users : StartListing(u)
    \/ ListerStep

(* The server answers, or the request times out; a retry waits 5 seconds   *)
(* at most.                                                                *)
ListSpec == ListInit /\ [][ListNext]_listVars
FairListSpec == ListSpec /\ WF_listVars(ListerStep)

-----------------------------------------------------------------------------
(* Across pages the listing goes strictly from new to old: no tunnel is    *)
(* listed twice, however many are created before or behind the cursor, and *)
(* none of another user; no page of this server repeats a cursor, which    *)
(* the client would report as an error (client.go:183-185).                *)
NewestFirst ==
    /\ \A i, j \in 1..Len(listed) : i < j => Newer(listed[i], listed[j])
    /\ \A i \in 1..Len(listed) : listed[i] \in Committed(caller)
    /\ ~repeated

(* A listing that succeeds has every tunnel its user had when it began.    *)
ListingIsComplete ==
    lister = "listed" => \A t \in atStart : \E i \in 1..Len(listed) : listed[i] = t

(* A listing ends, however many tunnels are created while it pages.        *)
ListingEnds == lister = "asking" ~> lister \in {"listed", "failed"}
=============================================================================
