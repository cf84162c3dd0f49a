------------------------------- MODULE Session ------------------------------
(***************************************************************************)
(* Admin sessions of the ops application (src/src/auth/session.ts): a map  *)
(* in the memory of the process, whose entries are good for TTL by the     *)
(* wall clock and are removed when one is presented that has expired.  The *)
(* wall clock may be set, forward or back, and a restart empties the map.  *)
(***************************************************************************)
EXTENDS Integers

CONSTANTS
    Sids,         \* session ids that randomUUID may yield, and browsers keep
    Times,        \* what Date.now() may read
    TTL,          \* TTL_MS
    NoSession

ASSUME SessionConstants ==
    /\ Times \subseteq Int /\ Times # {}
    /\ TTL \in Nat
    /\ NoSession \notin Sids
    /\ NoSession \notin [role : {"admin", "operator"}, ts : Times]

VARIABLES
    sessions,     \* SESSIONS: sid to role and time of login, or NoSession
    clock         \* Date.now()

-----------------------------------------------------------------------------
Roles == {"admin", "operator"}
Entry == [role : Roles, ts : Times]

SessionInit ==
    /\ sessions = [s \in Sids |-> NoSession]
    /\ clock \in Times

CreateSession(s, role) ==
    sessions' = [sessions EXCEPT ![s] = [role |-> role, ts |-> clock]]

Expired(s) == sessions[s] # NoSession /\ clock - sessions[s].ts > TTL

(* Variant: the entry that is too old is not removed. *)
GetSession_Keeps(s) == UNCHANGED sessions

(* getSession(): what it does to the map. *)
GetSession(s) ==
    sessions' = IF Expired(s) THEN [sessions EXCEPT ![s] = NoSession] ELSE sessions

(* Whether it returns a user. *)
Known(s) == s \in Sids /\ sessions[s] # NoSession /\ ~Expired(s)

(* Variant: any login will do. *)
Permits_Anyone(role, needed) == TRUE

(* requireRole(needed): an admin may do everything. *)
Permits(role, needed) == role = needed \/ role = "admin"

ClockSet == clock' \in Times /\ UNCHANGED sessions

ForgetSessions == sessions' = [s \in Sids |-> NoSession]
=============================================================================
