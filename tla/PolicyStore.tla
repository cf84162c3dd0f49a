----------------------------- MODULE PolicyStore ----------------------------
(***************************************************************************)
(* Policy pushes to the ops application (POST /content_policy/push) and    *)
(* the table content_policy behind them.  applyPolicy is five SQL          *)
(* statements, each of which commits on its own: pushes interleave between *)
(* them, a statement may fail, the answer to one may be lost, the process  *)
(* may crash, and the producer may push a command again.  The two unique   *)
(* indexes, on command_id and on (rule_id, version), are all that keeps    *)
(* concurrent pushes apart.                                                *)
(***************************************************************************)
EXTENDS Integers, Sequences

CONSTANTS
    Pushes,       \* HTTP requests, each received at most once
    Commands,     \* command_id values; a retry is another push of the command
    Rules,
    RuleOf,       \* payload.rule_id of a command
    VersionOf,    \* the producer's version of a command
    FaultsOn,     \* whether statements may fail and the process may crash
    NoCmd, NotSuperseded

ASSUME PolicyConstants ==
    /\ RuleOf \in [Commands -> Rules]
    /\ VersionOf \in [Commands -> Int]
    /\ NoCmd \notin Commands
    /\ NotSuperseded \notin Int
    /\ FaultsOn \in BOOLEAN

VARIABLES
    log,      \* table content_policy, in insertion order
    pc,       \* pc[p]: the await in which push p is suspended
    cmd,      \* cmd[p]: the command p carries
    result,   \* result[p]: the answer of p
    audit     \* config_apply and tool_call events emitted, in order

vars == <<log, pc, cmd, result, audit>>

-----------------------------------------------------------------------------
(* latestPolicy() returns the rows not marked superseded. *)
IsActive(n)    == log[n].supersededBy = NotSuperseded
RowsOf(r)      == {n \in DOMAIN log : log[n].rule = r}
VersionsOf(r)  == {log[n].version : n \in RowsOf(r)}
HasCommand(c)  == \E n \in DOMAIN log : log[n].cmd = c

(* COALESCE(MAX(version), 0) for the rule. *)
IsCurrentMax(r, m) ==
    IF VersionsOf(r) = {} THEN m = 0
    ELSE m \in VersionsOf(r) /\ \A v \in VersionsOf(r) : v <= m

(* The unique indexes content_policy_cmd_uk and content_policy_rule_ver_uk. *)
Conflicts(c) ==
    HasCommand(c) \/ (VersionOf[c] \in VersionsOf(RuleOf[c]))

(* Variant: superseded_by is not NULL in a new row. *)
NewRow_Marked(c) == [rule |-> RuleOf[c], version |-> VersionOf[c], cmd |-> c,
                     supersededBy |-> NoCmd]

NewRow(c) == [rule |-> RuleOf[c], version |-> VersionOf[c], cmd |-> c,
              supersededBy |-> NotSuperseded]

-----------------------------------------------------------------------------
Init ==
    /\ log = << >>
    /\ pc = [p \in Pushes |-> "new"]
    /\ cmd = [p \in Pushes |-> NoCmd]
    /\ result = [p \in Pushes |-> "none"]
    /\ audit = << >>

Goto(p, from, to) == pc[p] = from /\ pc' = [pc EXCEPT ![p] = to]

Answer(p, from, res) ==
    /\ Goto(p, from, "done")
    /\ result' = [result EXCEPT ![p] = res]

(* The sink swallows a failed write. *)
Emit(type, p) ==
    audit' \in {Append(audit, [eventType |-> type, by |-> p]), audit}

(* mTLS, envelope shape, audience, expiry and actor are in order.          *)
Receive(p, c) ==
    /\ Goto(p, "new", "lookup")
    /\ cmd' = [cmd EXCEPT ![p] = c]
    /\ UNCHANGED <<log, result, audit>>

(* Or one of them is not: nothing is stored, the refusal is audited.       *)
Refuse(p, c) ==
    /\ Answer(p, "new", "refused")
    /\ cmd' = [cmd EXCEPT ![p] = c]
    /\ Emit("tool_call", p)
    /\ UNCHANGED log

LookupCommand(p) ==
    \/ /\ Answer(p, "lookup", "duplicate")
       /\ HasCommand(cmd[p])
       /\ UNCHANGED <<log, cmd, audit>>
    \/ /\ Goto(p, "lookup", "max")
       /\ ~HasCommand(cmd[p])
       /\ UNCHANGED <<log, cmd, result, audit>>

ReadMax(p) ==
    /\ pc[p] = "max"
    /\ \E m \in VersionsOf(RuleOf[cmd[p]]) \cup {0} :
          /\ IsCurrentMax(RuleOf[cmd[p]], m)
          /\ \/ /\ VersionOf[cmd[p]] <= m
                /\ Answer(p, "max", "stale")
             \/ /\ VersionOf[cmd[p]] > m
                /\ Goto(p, "max", "insert")
                /\ UNCHANGED result
    /\ UNCHANGED <<log, cmd, audit>>

(* Variant: the older versions are not marked. *)
Insert_NoUpdate(p) ==
    /\ Goto(p, "insert", "ack")
    /\ ~Conflicts(cmd[p])
    /\ log' = Append(log, NewRow(cmd[p]))
    /\ UNCHANGED <<cmd, result, audit>>

Insert(p) ==
    /\ Goto(p, "insert", "supersede")
    /\ ~Conflicts(cmd[p])
    /\ log' = Append(log, NewRow(cmd[p]))
    /\ UNCHANGED <<cmd, result, audit>>

(* A unique index refuses the row. *)
InsertConflict(p) ==
    /\ Goto(p, "insert", "relookup")
    /\ Conflicts(cmd[p])
    /\ UNCHANGED <<log, cmd, result, audit>>

(* The INSERT was executed, or was not, but its answer never came: the     *)
(* catch clause does not tell that from a conflict.                        *)
InsertUnknown(p) ==
    /\ FaultsOn
    /\ Goto(p, "insert", "relookup")
    /\ \/ log' = log
       \/ ~Conflicts(cmd[p]) /\ log' = Append(log, NewRow(cmd[p]))
    /\ UNCHANGED <<cmd, result, audit>>

(* Variants: a conflict counts as applied, or always as a duplicate.       *)
Relookup_Applied(p) ==
    /\ Answer(p, "relookup", IF HasCommand(cmd[p]) THEN "applied" ELSE "unavailable")
    /\ UNCHANGED <<log, cmd, audit>>

Relookup_AlwaysDuplicate(p) ==
    /\ Answer(p, "relookup", "duplicate")
    /\ UNCHANGED <<log, cmd, audit>>

Relookup(p) ==
    /\ Answer(p, "relookup", IF HasCommand(cmd[p]) THEN "duplicate" ELSE "unavailable")
    /\ UNCHANGED <<log, cmd, audit>>

(* Variants of the UPDATE below, each without one condition of its WHERE.  *)
MarkWhere(p, Chosen(_)) ==
    /\ Goto(p, "supersede", "ack")
    /\ log' = [n \in DOMAIN log |->
                 IF Chosen(n) THEN [log[n] EXCEPT !.supersededBy = VersionOf[cmd[p]]]
                              ELSE log[n]]
    /\ UNCHANGED <<cmd, result, audit>>

Supersede_AnyVersion(p) ==
    LET Other(n) == log[n].rule = RuleOf[cmd[p]] /\ log[n].cmd # cmd[p] /\ IsActive(n)
    IN  MarkWhere(p, Other)

Supersede_OwnVersion(p) ==
    LET NotNewer(n) == /\ log[n].rule = RuleOf[cmd[p]]
                       /\ log[n].version <= VersionOf[cmd[p]] /\ IsActive(n)
    IN  MarkWhere(p, NotNewer)

Supersede_Again(p) ==
    LET Older(n) == /\ log[n].rule = RuleOf[cmd[p]]
                    /\ log[n].version < VersionOf[cmd[p]]
    IN  MarkWhere(p, Older)

(* Older rows of the rule that are still active get superseded_by.         *)
Supersede(p) ==
    LET c == cmd[p]
        Older(n) == /\ log[n].rule = RuleOf[c] /\ log[n].version < VersionOf[c]
                    /\ IsActive(n)
    IN  /\ Goto(p, "supersede", "ack")
        /\ log' = [n \in DOMAIN log |->
                     IF Older(n) THEN [log[n] EXCEPT !.supersededBy = VersionOf[c]]
                                 ELSE log[n]]
        /\ UNCHANGED <<cmd, result, audit>>

(* The answer to the UPDATE arrives; audit and reply follow at once.       *)
Applied(p) ==
    /\ Answer(p, "ack", "applied")
    /\ Emit("config_apply", p)
    /\ UNCHANGED <<log, cmd>>

(* applyPolicy throws, the route does not catch: 500.                      *)
StatementFails(p) ==
    /\ FaultsOn
    /\ pc[p] \in {"lookup", "max", "relookup", "supersede", "ack"}
    /\ Answer(p, pc[p], "failed")
    /\ UNCHANGED <<log, cmd, audit>>

Running == {p \in Pushes : pc[p] \notin {"new", "done"}}

Crash ==
    /\ FaultsOn /\ Running # {}
    /\ pc' = [p \in Pushes |-> IF p \in Running THEN "done" ELSE pc[p]]
    /\ result' = [p \in Pushes |-> IF p \in Running THEN "lost" ELSE result[p]]
    /\ UNCHANGED <<log, cmd, audit>>

Step(p) ==
    \/ \E c \in Commands : Receive(p, c) \/ Refuse(p, c)
    \/ LookupCommand(p) \/ ReadMax(p)
    \/ Insert(p) \/ InsertConflict(p) \/ InsertUnknown(p) \/ Relookup(p)
    \/ Supersede(p) \/ Applied(p) \/ StatementFails(p)

Next == Crash \/ \E p \in Pushes : Step(p)

Spec == Init /\ [][Next]_vars

-----------------------------------------------------------------------------
PcValues == {"new", "lookup", "max", "insert", "relookup", "supersede", "ack", "done"}
Results  == {"none", "refused", "duplicate", "stale", "applied", "unavailable",
             "failed", "lost"}
PolicyRow == [rule : Rules, version : Int, cmd : Commands,
              supersededBy : Int \cup {NotSuperseded}]

(* Type correctness of the table and of the pushes. *)
TypeOK ==
    /\ log \in Seq(PolicyRow)
    /\ pc \in [Pushes -> PcValues]
    /\ cmd \in [Pushes -> Commands \cup {NoCmd}]
    /\ result \in [Pushes -> Results]
    /\ audit \in Seq([eventType : {"config_apply", "tool_call"}, by : Pushes])

(* The newest version stored for a rule is always in force: no interleaving *)
(* of pushes ever marks it superseded, so a pushed block cannot be lost to *)
(* a concurrent older push (policy-store.ts:105-108).                      *)
NewestActive ==
    \A n \in DOMAIN log :
       (\A v \in VersionsOf(log[n].rule) : v <= log[n].version) => IsActive(n)

(* superseded_by always names a stored, newer version of the same rule.    *)
SupersededByNewer ==
    \A n \in DOMAIN log :
       ~IsActive(n) => /\ log[n].supersededBy > log[n].version
                       /\ log[n].supersededBy \in VersionsOf(log[n].rule)

(* A command takes effect at most once however often it is pushed: one     *)
(* row, one "applied" answer, one config_apply event.                      *)
CommandOnce ==
    /\ \A n, m \in DOMAIN log : log[n].cmd = log[m].cmd => n = m
    /\ \A p, q \in Pushes :
          (result[p] = "applied" /\ result[q] = "applied" /\ cmd[p] = cmd[q]) => p = q
    /\ \A n, m \in DOMAIN audit :
          (/\ audit[n].eventType = "config_apply" /\ audit[m].eventType = "config_apply"
           /\ cmd[audit[n].by] = cmd[audit[m].by]) => n = m

(* "applied" means the older versions that were there are out of force:    *)
(* what stays active next to it was inserted after it.                     *)
AppliedRetiresOlder ==
    \A p \in Pushes : \A n \in DOMAIN log :
       (result[p] = "applied" /\ log[n].cmd = cmd[p]) =>
          \A m \in RowsOf(log[n].rule) :
             (m < n /\ log[m].version < log[n].version) => ~IsActive(m)

(* Every other answer tells the truth about the table: what is applied, or *)
(* a duplicate, is stored; a version above 0 that is stale is not newer    *)
(* than what is stored, and a version of 0 or below is never stored, so    *)
(* that it is neither applied nor a duplicate, its rule having rows or not. *)
AnswersTruthful ==
    /\ \A n \in DOMAIN log : log[n].version > 0
    /\ \A p \in Pushes :
          /\ result[p] \in {"duplicate", "applied"} => HasCommand(cmd[p])
          /\ result[p] = "stale" /\ VersionOf[cmd[p]] > 0 =>
                \E v \in VersionsOf(RuleOf[cmd[p]]) : VersionOf[cmd[p]] <= v

(* A stored row never changes but for one mark, and no row disappears.     *)
RowKept(n) ==
    /\ n \in DOMAIN log'
    /\ IsActive(n) => log'[n] \in {log[n]} \cup
                         {[log[n] EXCEPT !.supersededBy = v] : v \in VersionsOf(log[n].rule)}
    /\ ~IsActive(n) => log'[n] = log[n]

RowsOnlySuperseded == [][\A n \in DOMAIN log : RowKept(n)]_vars

(* For those who read the table, the statements of interleaved, failing    *)
(* and repeated pushes amount to the steps of PolicyTable: an INSERT takes *)
(* effect at once or not at all, and an UPDATE retires exactly the older   *)
(* versions of a rule whose newer row is there (policy-store.ts:73-109).   *)
Table == INSTANCE PolicyTable
            WITH Rows       <- Commands,
                 stored     <- {log[n].cmd : n \in DOMAIN log},
                 superseded <- {log[n].cmd : n \in {m \in DOMAIN log : ~IsActive(m)}}

Implements == Table!Spec

-----------------------------------------------------------------------------
(* What the comments and the README say of applyPolicy. *)

(* "idempotence is guaranteed by policy-store" (README.md:126): a push     *)
(* answered as a duplicate finds its command in the state in which a       *)
(* completed push of it leaves the table, older versions retired           *)
(* (policy-store.ts:104), unless that push is still running.               *)
DuplicateIsComplete ==
    \A p \in Pushes : \A n \in DOMAIN log :
       (/\ result[p] = "duplicate" /\ log[n].cmd = cmd[p]
        /\ \A q \in Running : cmd[q] # cmd[p]) =>
          \A m \in RowsOf(log[n].rule) :
             (m < n /\ log[m].version < log[n].version) => ~IsActive(m)
=============================================================================
