------------------------- MODULE PolicyStore_proofs -------------------------
(***************************************************************************)
(* Proofs about PolicyStore: for any number of pushes, commands, rules and *)
(* versions, and whatever statements fail, the table and the answers are   *)
(* consistent.                                                             *)
(***************************************************************************)
EXTENDS PolicyStore, TLAPS

-----------------------------------------------------------------------------
(* The inductive invariant: what holds of the table, of each push, and of  *)
(* two pushes of one command.                                              *)
RowsMatch ==
    \A n \in DOMAIN log : /\ log[n].rule = RuleOf[log[n].cmd]
                          /\ log[n].version = VersionOf[log[n].cmd]

RowsUnique == \A n, m \in DOMAIN log : log[n].cmd = log[m].cmd => n = m

Positive == \A n \in DOMAIN log : log[n].version > 0

LogInv == log \in Seq(PolicyRow) /\ RowsMatch /\ RowsUnique /\ Positive /\ SupersededByNewer

(* p has had its row inserted, and knows it. *)
Wrote(p) == pc[p] \in {"supersede", "ack"} \/ result[p] = "applied"

Retired(p) ==
    \A n \in DOMAIN log : log[n].cmd = cmd[p] =>
       \A m \in RowsOf(log[n].rule) :
          (m < n /\ log[m].version < log[n].version) => ~IsActive(m)

PushInv(p) ==
    /\ pc[p] # "new" => cmd[p] \in Commands
    /\ pc[p] = "done" <=> result[p] # "none"
    /\ pc[p] = "insert" => VersionOf[cmd[p]] > 0
    /\ Wrote(p) \/ result[p] = "duplicate" => HasCommand(cmd[p])
    /\ pc[p] = "ack" \/ result[p] = "applied" => Retired(p)
    /\ result[p] = "stale" =>
          VersionOf[cmd[p]] <= 0 \/ \E v \in VersionsOf(RuleOf[cmd[p]]) : VersionOf[cmd[p]] <= v

OneWriter == \A p, q \in Pushes : Wrote(p) /\ Wrote(q) /\ cmd[p] = cmd[q] => p = q

IsApply(n) == audit[n].eventType = "config_apply"

AuditInv ==
    /\ \A n \in DOMAIN audit : IsApply(n) => result[audit[n].by] = "applied"
    /\ \A n, m \in DOMAIN audit : IsApply(n) /\ IsApply(m) /\ audit[n].by = audit[m].by => n = m

IInv == TypeOK /\ LogInv /\ (\A p \in Pushes : PushInv(p)) /\ OneWriter /\ AuditInv

-----------------------------------------------------------------------------
(* How the table may change: rows keep all but the mark, marks stay.       *)
Grows ==
    /\ Len(log') \in Nat /\ Len(log) <= Len(log') /\ DOMAIN log' = 1..Len(log')
    /\ \A n \in 1..Len(log) :
          /\ log'[n].cmd = log[n].cmd /\ log'[n].rule = log[n].rule
          /\ log'[n].version = log[n].version
          /\ ~IsActive(n) => log'[n].supersededBy # NotSuperseded

LEMMA LogShape ==
  ASSUME log \in Seq(PolicyRow)
  PROVE  /\ Len(log) \in Nat /\ DOMAIN log = 1..Len(log)
         /\ \A n \in 1..Len(log) :
               /\ log[n] \in PolicyRow /\ log[n].cmd \in Commands /\ log[n].version \in Int
               /\ log[n].rule \in Rules
  <1>1. Len(log) \in Nat /\ DOMAIN log = 1..Len(log)
    OBVIOUS
  <1>2. \A n \in 1..Len(log) : log[n] \in PolicyRow
    BY <1>1
  <1> QED BY <1>1, <1>2 DEF PolicyRow

LEMMA GrowsSame ==
  ASSUME log \in Seq(PolicyRow), log' = log
  PROVE  Grows
  BY LogShape DEF Grows, IsActive

LEMMA NewRowTyped ==
  ASSUME NEW c \in Commands
  PROVE  /\ NewRow(c) \in PolicyRow
         /\ NewRow(c).cmd = c /\ NewRow(c).rule = RuleOf[c]
         /\ NewRow(c).version = VersionOf[c] /\ NewRow(c).supersededBy = NotSuperseded
  BY PolicyConstants DEF NewRow, PolicyRow

LEMMA AppendRow ==
  ASSUME LogInv, NEW c \in Commands, VersionOf[c] > 0, ~Conflicts(c), log' = Append(log, NewRow(c))
  PROVE  /\ LogInv' /\ Grows
         /\ log'[Len(log) + 1] = NewRow(c) /\ Len(log) + 1 \in DOMAIN log'
  <1>1. /\ Len(log) \in Nat /\ DOMAIN log = 1..Len(log)
        /\ \A n \in 1..Len(log) : log[n] \in PolicyRow
    BY LogShape DEF LogInv
  <1>2. /\ NewRow(c) \in PolicyRow
        /\ NewRow(c).cmd = c /\ NewRow(c).rule = RuleOf[c]
        /\ NewRow(c).version = VersionOf[c] /\ NewRow(c).supersededBy = NotSuperseded
    BY NewRowTyped
  <1>3. /\ log' \in Seq(PolicyRow) /\ Len(log') = Len(log) + 1
        /\ DOMAIN log' = 1..(Len(log) + 1) /\ log'[Len(log) + 1] = NewRow(c)
        /\ \A n \in 1..Len(log) : log'[n] = log[n]
    BY <1>2 DEF LogInv
  <1>4. \A n \in 1..Len(log) : log[n].cmd # c
    BY <1>1 DEF Conflicts, HasCommand
  <1>5. RowsMatch' /\ Positive'
    BY <1>1, <1>2, <1>3 DEF LogInv, RowsMatch, Positive
  <1>6. RowsUnique'
    BY <1>1, <1>2, <1>3, <1>4 DEF LogInv, RowsUnique
  <1>7. SupersededByNewer'
    <2>1. SUFFICES ASSUME NEW n \in 1..(Len(log) + 1), log'[n].supersededBy # NotSuperseded
                   PROVE  /\ log'[n].supersededBy > log'[n].version
                          /\ \E k \in DOMAIN log' : /\ log'[k].rule = log'[n].rule
                                                    /\ log'[n].supersededBy = log'[k].version
      BY <1>3 DEF SupersededByNewer, IsActive, VersionsOf, RowsOf
    <2>2. n \in 1..Len(log)
      BY <1>1, <1>2, <1>3, <2>1
    <2>3. /\ log[n].supersededBy > log[n].version
          /\ \E k \in DOMAIN log : /\ log[k].rule = log[n].rule
                                   /\ log[n].supersededBy = log[k].version
      BY <1>1, <1>3, <2>1, <2>2 DEF LogInv, SupersededByNewer, IsActive, VersionsOf, RowsOf
    <2> QED BY <1>1, <1>3, <2>2, <2>3
  <1>8. Grows
    BY <1>1, <1>3 DEF Grows, IsActive
  <1> QED BY <1>1, <1>3, <1>5, <1>6, <1>7, <1>8 DEF LogInv

(* The UPDATE of a push whose row is stored. *)
LEMMA SupersedeRows ==
  ASSUME LogInv, NEW p \in Pushes, cmd[p] \in Commands, HasCommand(cmd[p]), Supersede(p)
  PROVE  /\ LogInv' /\ Grows
         /\ DOMAIN log' = DOMAIN log
         /\ \A n \in DOMAIN log : RowKept(n)
         /\ \A n \in DOMAIN log :
               (/\ log[n].rule = RuleOf[cmd[p]]
                /\ log[n].version < VersionOf[cmd[p]]) => log'[n].supersededBy # NotSuperseded
  <1> DEFINE c == cmd[p]
             Older(n) == /\ log[n].rule = RuleOf[c] /\ log[n].version < VersionOf[c]
                         /\ IsActive(n)
             marked(n) == [log[n] EXCEPT !.supersededBy = VersionOf[c]]
  <1>1. /\ Len(log) \in Nat /\ DOMAIN log = 1..Len(log)
        /\ \A n \in 1..Len(log) : /\ log[n] \in PolicyRow /\ log[n].version \in Int
      BY LogShape DEF LogInv
  <1>2. log' = [n \in DOMAIN log |-> IF Older(n) THEN marked(n) ELSE log[n]]
    BY DEF Supersede
  <1>3. VersionOf[c] \in Int /\ VersionOf[c] # NotSuperseded
    BY PolicyConstants
  <1>4. \A n \in 1..Len(log) :
           /\ marked(n) \in PolicyRow /\ marked(n).cmd = log[n].cmd
           /\ marked(n).rule = log[n].rule /\ marked(n).version = log[n].version
           /\ marked(n).supersededBy = VersionOf[c]
    BY <1>1, <1>3 DEF PolicyRow
  <1> HIDE DEF marked
  <1>5. log' \in Seq(PolicyRow) /\ Len(log') = Len(log) /\ DOMAIN log' = 1..Len(log)
    BY <1>1, <1>2, <1>4
  <1>6. \A n \in 1..Len(log) :
           /\ Older(n) => log'[n] = marked(n)
           /\ ~Older(n) => log'[n] = log[n]
    BY <1>1, <1>2
  <1> HIDE DEF Older
  <1>7. \A n \in 1..Len(log) : /\ log'[n].cmd = log[n].cmd /\ log'[n].rule = log[n].rule
                               /\ log'[n].version = log[n].version
    BY <1>4, <1>6
  <1>8. PICK k \in DOMAIN log : log[k].cmd = c
    BY DEF HasCommand
  <1>9. log[k].rule = RuleOf[c] /\ log[k].version = VersionOf[c]
    BY <1>8 DEF LogInv, RowsMatch
  <1>10. RowsMatch' /\ RowsUnique' /\ Positive'
    BY <1>1, <1>5, <1>7 DEF LogInv, RowsMatch, RowsUnique, Positive
  <1>11. SupersededByNewer'
    <2>1. SUFFICES ASSUME NEW n \in 1..Len(log), log'[n].supersededBy # NotSuperseded
                   PROVE  /\ log'[n].supersededBy > log'[n].version
                          /\ \E j \in 1..Len(log) : /\ log'[j].rule = log'[n].rule
                                                    /\ log'[n].supersededBy = log'[j].version
      BY <1>5 DEF SupersededByNewer, IsActive, VersionsOf, RowsOf
    <2>2. CASE Older(n)
      BY <1>1, <1>3, <1>4, <1>6, <1>7, <1>8, <1>9, <2>2 DEF Older
    <2>3. CASE ~Older(n)
      <3>1. log'[n] = log[n]
        BY <1>6, <2>3
      <3>2. /\ log[n].supersededBy > log[n].version
            /\ \E j \in DOMAIN log : /\ log[j].rule = log[n].rule
                                     /\ log[n].supersededBy = log[j].version
        BY <1>1, <2>1, <3>1 DEF LogInv, SupersededByNewer, IsActive, VersionsOf, RowsOf
      <3> QED BY <1>1, <1>7, <3>1, <3>2
    <2> QED BY <2>2, <2>3
  <1>12. \A n \in 1..Len(log) : ~IsActive(n) => log'[n].supersededBy # NotSuperseded
    BY <1>6 DEF IsActive, Older
  <1>13. Grows
    BY <1>1, <1>5, <1>7, <1>12 DEF Grows
  <1>14. \A n \in DOMAIN log : RowKept(n)
    <2> SUFFICES ASSUME NEW n \in DOMAIN log PROVE RowKept(n)
      OBVIOUS
    <2>1. Older(n) => VersionOf[c] \in VersionsOf(log[n].rule) /\ IsActive(n)
      BY <1>8, <1>9 DEF Older, VersionsOf, RowsOf
    <2> QED BY <1>1, <1>5, <1>6, <2>1 DEF RowKept, marked
  <1>15. \A n \in DOMAIN log :
            (log[n].rule = RuleOf[c] /\ log[n].version < VersionOf[c])
               => log'[n].supersededBy # NotSuperseded
    BY <1>1, <1>3, <1>4, <1>6 DEF Older, IsActive
  <1> QED BY <1>1, <1>5, <1>10, <1>11, <1>13, <1>14, <1>15 DEF LogInv

LEMMA RowsStay ==
  ASSUME log \in Seq(PolicyRow), Grows
  PROVE  /\ \A c : (\E n \in DOMAIN log : log[n].cmd = c)
                   => \E n \in DOMAIN log' : log'[n].cmd = c
         /\ \A r : \A n \in DOMAIN log : log[n].rule = r
                   => \E m \in DOMAIN log' : log'[m].rule = r /\ log'[m].version = log[n].version
  <1>1. Len(log) \in Nat /\ DOMAIN log = 1..Len(log)
    BY LogShape
  <1> QED BY <1>1 DEF Grows

(* Rows older than a stored row, once retired, stay so. *)
LEMMA RetiredStays ==
  ASSUME LogInv, LogInv', Grows, NEW p \in Pushes, cmd'[p] = cmd[p],
         HasCommand(cmd[p]), Retired(p)
  PROVE  Retired(p)'
  <1>1. PICK k \in DOMAIN log : log[k].cmd = cmd[p]
    BY DEF HasCommand
  <1>2. SUFFICES ASSUME NEW n \in DOMAIN log', log'[n].cmd = cmd[p], NEW m \in DOMAIN log',
                        log'[m].rule = log'[n].rule, m < n, log'[m].version < log'[n].version
                 PROVE  log'[m].supersededBy # NotSuperseded
    BY DEF Retired, RowsOf, IsActive
  <1>3. Len(log) \in Nat /\ DOMAIN log = 1..Len(log)
    BY LogShape DEF LogInv
  <1>4. k \in DOMAIN log' /\ log'[k].cmd = cmd[p]
    BY <1>1, <1>3 DEF Grows
  <1>5. n = k
    BY <1>2, <1>4 DEF LogInv, RowsUnique
  <1>6. m \in DOMAIN log
    BY <1>1, <1>2, <1>3, <1>5 DEF Grows
  <1>7. log[m].rule = log[n].rule /\ log[m].version < log[n].version /\ m \in RowsOf(log[n].rule)
    BY <1>1, <1>2, <1>3, <1>5, <1>6 DEF Grows, RowsOf
  <1>8. ~IsActive(m)
    BY <1>1, <1>2, <1>5, <1>7 DEF Retired
  <1> QED BY <1>3, <1>6, <1>8 DEF Grows

(* A push that does not move keeps its invariant. *)
LEMMA PushFrame ==
  ASSUME LogInv, LogInv', Grows, NEW q \in Pushes, PushInv(q),
         pc'[q] = pc[q], result'[q] = result[q], cmd'[q] = cmd[q]
  PROVE  PushInv(q)'
  <1>1. HasCommand(cmd[q]) => HasCommand(cmd[q])'
    BY RowsStay DEF LogInv, HasCommand
  <1>2. Wrote(q)' <=> Wrote(q)
    BY DEF Wrote
  <1>3. (\E v \in VersionsOf(RuleOf[cmd[q]]) : VersionOf[cmd[q]] <= v)
           => (\E v \in VersionsOf(RuleOf[cmd[q]]) : VersionOf[cmd[q]] <= v)'
    BY RowsStay DEF LogInv, VersionsOf, RowsOf
  <1>4. HasCommand(cmd[q]) /\ Retired(q) => Retired(q)'
    BY RetiredStays
  <1> QED BY <1>1, <1>2, <1>3, <1>4 DEF PushInv, Wrote

-----------------------------------------------------------------------------
LEMMA PolicyInit == Init => IInv
  <1> SUFFICES ASSUME Init PROVE IInv
    OBVIOUS
  <1>1. << >> \in Seq(PolicyRow) /\ DOMAIN << >> = {} /\ audit = << >> /\ log = << >>
    BY DEF Init
  <1>2. << >> \in Seq([eventType : {"config_apply", "tool_call"}, by : Pushes])
    OBVIOUS
  <1>3. TypeOK
    BY <1>1, <1>2 DEF Init, TypeOK, PcValues, Results
  <1>4. LogInv /\ AuditInv
    BY <1>1 DEF LogInv, RowsMatch, RowsUnique, Positive, SupersededByNewer, AuditInv
  <1>5. \A p \in Pushes : PushInv(p) /\ ~Wrote(p)
    BY DEF Init, PushInv, Wrote
  <1> QED BY <1>3, <1>4, <1>5 DEF IInv, OneWriter

(* The table is left alone. *)
LEMMA LogSame ==
  ASSUME LogInv, log' = log
  PROVE  LogInv' /\ Grows
  <1>1. Grows
    BY GrowsSame DEF LogInv
  <1> QED BY <1>1 DEF LogInv, RowsMatch, RowsUnique, Positive, SupersededByNewer, IsActive, VersionsOf, RowsOf

(* A step of p that keeps the table in order, and does not make a second   *)
(* writer of p, keeps the invariant of everything else.                    *)
LEMMA StepFrame ==
  ASSUME IInv, LogInv', Grows, TypeOK', AuditInv', NEW p \in Pushes, PushInv(p)',
         \A q \in Pushes \ {p} :
            pc'[q] = pc[q] /\ result'[q] = result[q] /\ cmd'[q] = cmd[q],
         Wrote(p)' => cmd'[p] = cmd[p] /\ (Wrote(p) \/ ~HasCommand(cmd[p]))
  PROVE  IInv'
  <1>1. \A q \in Pushes \ {p} : PushInv(q)'
    BY PushFrame DEF IInv
  <1>2. \A q \in Pushes \ {p} : Wrote(q)' <=> Wrote(q)
    BY DEF Wrote
  <1>3. \A q \in Pushes : Wrote(q) => HasCommand(cmd[q])
    BY DEF IInv, PushInv
  <1>4. OneWriter'
    <2>1. SUFFICES ASSUME NEW q \in Pushes, NEW r \in Pushes, Wrote(q)', Wrote(r)',
                          cmd'[q] = cmd'[r]
                   PROVE  q = r
      BY DEF OneWriter
    <2>2. CASE q # p /\ r # p
      BY <1>2, <2>1, <2>2 DEF IInv, OneWriter
    <2>3. CASE q = p /\ r # p
      <3>1. Wrote(r) /\ cmd[p] = cmd[r] /\ HasCommand(cmd[r])
        BY <1>2, <1>3, <2>1, <2>3
      <3> QED BY <2>1, <2>3, <3>1 DEF IInv, OneWriter
    <2>4. CASE q # p /\ r = p
      <3>1. Wrote(q) /\ cmd[p] = cmd[q] /\ HasCommand(cmd[q])
        BY <1>2, <1>3, <2>1, <2>4
      <3> QED BY <2>1, <2>4, <3>1 DEF IInv, OneWriter
    <2> QED BY <2>2, <2>3, <2>4
  <1> QED BY <1>1, <1>4 DEF IInv

AuditEventType == [eventType : {"config_apply", "tool_call"}, by : Pushes]

LEMMA AuditShape ==
  ASSUME TypeOK
  PROVE  /\ audit \in Seq(AuditEventType) /\ Len(audit) \in Nat /\ DOMAIN audit = 1..Len(audit)
         /\ \A n \in 1..Len(audit) : audit[n].by \in Pushes
  <1>1. audit \in Seq(AuditEventType)
    BY DEF TypeOK, AuditEventType
  <1>2. /\ Len(audit) \in Nat /\ DOMAIN audit = 1..Len(audit)
        /\ \A n \in 1..Len(audit) : audit[n] \in AuditEventType
    BY <1>1
  <1> QED BY <1>1, <1>2 DEF AuditEventType

(* The events of pushes that were done before p's step stay in order. *)
LEMMA AuditSame ==
  ASSUME IInv, NEW p \in Pushes, result[p] = "none", audit' = audit,
         \A q \in Pushes \ {p} : result'[q] = result[q]
  PROVE  AuditInv'
  <1>1. \A n \in DOMAIN audit : audit[n].by \in Pushes
    BY AuditShape DEF IInv
  <1> QED BY <1>1 DEF IInv, AuditInv, IsApply

LEMMA AuditEmit ==
  ASSUME IInv, NEW p \in Pushes, result[p] = "none", NEW type \in {"config_apply", "tool_call"},
         Emit(type, p), type = "config_apply" => result'[p] = "applied",
         \A q \in Pushes \ {p} : result'[q] = result[q]
  PROVE  audit' \in Seq(AuditEventType) /\ AuditInv'
  <1> DEFINE e == [eventType |-> type, by |-> p]
  <1>1. e \in AuditEventType /\ e.by = p /\ e.eventType = type
    BY DEF AuditEventType
  <1>2. audit \in Seq(AuditEventType)
    BY DEF IInv, TypeOK, AuditEventType
  <1>3. CASE audit' = audit
    BY <1>2, <1>3, AuditSame
  <1>4. CASE audit' = Append(audit, e)
    <2> HIDE DEF e
    <2>1. /\ audit' \in Seq(AuditEventType) /\ Len(audit) \in Nat
          /\ DOMAIN audit = 1..Len(audit) /\ DOMAIN audit' = 1..(Len(audit) + 1)
          /\ audit'[Len(audit) + 1] = e /\ \A n \in 1..Len(audit) : audit'[n] = audit[n]
      BY <1>1, <1>2, <1>4
    <2>2. \A n \in 1..Len(audit) : audit[n].by \in Pushes
      BY AuditShape DEF IInv
    <2>3. \A n \in 1..Len(audit) : IsApply(n) => audit[n].by # p /\ result[audit[n].by] = "applied"
      BY <2>1 DEF IInv, AuditInv
    <2>4. \A n \in DOMAIN audit' : IsApply(n)' => result'[audit'[n].by] = "applied"
      BY <1>1, <2>1, <2>2, <2>3 DEF IsApply
    <2>5. \A n, m \in DOMAIN audit' :
             IsApply(n)' /\ IsApply(m)' /\ audit'[n].by = audit'[m].by => n = m
      BY <1>1, <2>1, <2>2, <2>3 DEF IsApply, IInv, AuditInv
    <2> QED BY <2>1, <2>4, <2>5 DEF AuditInv
  <1> QED BY <1>3, <1>4 DEF Emit

(* A step that answers with anything but "applied" and leaves the table. *)
LEMMA AnswerStep ==
  ASSUME IInv, NEW p \in Pushes, pc[p] # "done", log' = log, TypeOK', AuditInv',
         pc' = [pc EXCEPT ![p] = "done"], cmd'[p] \in Commands,
         \A q \in Pushes \ {p} : cmd'[q] = cmd[q],
         NEW res, result' = [result EXCEPT ![p] = res], res \notin {"none", "applied"},
         res = "duplicate" => \E n \in DOMAIN log : log[n].cmd = cmd'[p],
         res = "stale" => \/ VersionOf[cmd'[p]] <= 0
                          \/ \E v \in VersionsOf(RuleOf[cmd'[p]]) : VersionOf[cmd'[p]] <= v
  PROVE  IInv'
  <1>1. LogInv' /\ Grows
    BY LogSame DEF IInv
  <1>2. pc \in [Pushes -> PcValues] /\ result \in [Pushes -> Results]
    BY DEF IInv, TypeOK
  <1>3. pc'[p] = "done" /\ result'[p] = res
    BY <1>2
  <1>4. PushInv(p)'
    BY <1>3 DEF PushInv, Wrote, HasCommand, VersionsOf, RowsOf
  <1>5. \A q \in Pushes \ {p} : pc'[q] = pc[q] /\ result'[q] = result[q]
    BY <1>2
  <1>6. ~Wrote(p)'
    BY <1>3 DEF Wrote
  <1> QED BY <1>1, <1>4, <1>5, <1>6, StepFrame

(* A step that goes on without touching the table. *)
LEMMA GotoStep ==
  ASSUME IInv, NEW p \in Pushes, pc[p] # "done", log' = log, TypeOK', audit' = audit,
         NEW to, pc' = [pc EXCEPT ![p] = to],
         to \in {"lookup", "max", "insert", "relookup"},
         to = "insert" => VersionOf[cmd'[p]] > 0,
         result' = result, cmd'[p] \in Commands,
         \A q \in Pushes \ {p} : cmd'[q] = cmd[q]
  PROVE  IInv'
  <1>1. LogInv' /\ Grows
    BY LogSame DEF IInv
  <1>2. pc \in [Pushes -> PcValues] /\ result[p] = "none"
    BY DEF IInv, TypeOK, PushInv
  <1>3. pc'[p] = to /\ result'[p] = "none"
    BY <1>2
  <1>4. PushInv(p)' /\ ~Wrote(p)'
    BY <1>3 DEF PushInv, Wrote
  <1>5. \A q \in Pushes \ {p} : pc'[q] = pc[q] /\ result'[q] = result[q]
    BY <1>2
  <1>6. AuditInv'
    BY <1>2, AuditSame
  <1> QED BY <1>1, <1>4, <1>5, <1>6, StepFrame

(* A step that stores the row of p. *)
LEMMA InsertStep ==
  ASSUME IInv, NEW p \in Pushes, pc[p] = "insert", TypeOK', audit' = audit, cmd' = cmd,
         result' = result, ~Conflicts(cmd[p]), log' = Append(log, NewRow(cmd[p])),
         NEW to \in {"supersede", "relookup"}, pc' = [pc EXCEPT ![p] = to]
  PROVE  IInv'
  <1>1. /\ pc \in [Pushes -> PcValues] /\ result[p] = "none" /\ cmd[p] \in Commands
        /\ ~HasCommand(cmd[p]) /\ VersionOf[cmd[p]] > 0
    BY DEF IInv, TypeOK, PushInv, Conflicts
  <1>2. /\ LogInv' /\ Grows
        /\ log'[Len(log) + 1] = NewRow(cmd[p]) /\ Len(log) + 1 \in DOMAIN log'
    BY <1>1, AppendRow DEF IInv
  <1>3. pc'[p] = to /\ result'[p] = "none"
    BY <1>1
  <1>4. \E n \in DOMAIN log' : log'[n].cmd = cmd[p]
    BY <1>1, <1>2, NewRowTyped
  <1>5. PushInv(p)'
    BY <1>1, <1>3, <1>4 DEF PushInv, Wrote, HasCommand
  <1>6. \A q \in Pushes \ {p} : pc'[q] = pc[q] /\ result'[q] = result[q] /\ cmd'[q] = cmd[q]
    BY <1>1
  <1>7. AuditInv'
    BY <1>1, AuditSame
  <1> QED BY <1>1, <1>2, <1>5, <1>6, <1>7, StepFrame

LEMMA PolicyStep == IInv /\ [Next]_vars => IInv'
  <1> SUFFICES ASSUME IInv, [Next]_vars PROVE IInv'
    OBVIOUS
  <1>0. /\ log \in Seq(PolicyRow) /\ pc \in [Pushes -> PcValues]
        /\ cmd \in [Pushes -> Commands \cup {NoCmd}] /\ result \in [Pushes -> Results]
        /\ audit \in Seq(AuditEventType)
        /\ \A p \in Pushes : /\ pc[p] # "new" => cmd[p] \in Commands
                             /\ pc[p] # "done" => result[p] = "none"
    BY DEF IInv, TypeOK, PushInv, AuditEventType
  <1> USE DEF Goto, Answer
  <1>1. ASSUME NEW p \in Pushes, NEW c \in Commands, Receive(p, c)
        PROVE  IInv'
    <2>1. TypeOK'
      BY <1>0, <1>1 DEF Receive, TypeOK, PcValues, AuditEventType
    <2> QED BY <1>0, <1>1, <2>1, GotoStep DEF Receive
  <1>2. ASSUME NEW p \in Pushes, NEW c \in Commands, Refuse(p, c)
        PROVE  IInv'
    <2>1. audit' \in Seq(AuditEventType) /\ AuditInv'
      BY <1>0, <1>2, AuditEmit DEF Refuse
    <2>2. TypeOK'
      BY <1>0, <1>2, <2>1 DEF Refuse, TypeOK, PcValues, Results, AuditEventType
    <2>3. /\ pc[p] = "new" /\ pc' = [pc EXCEPT ![p] = "done"] /\ log' = log
          /\ result' = [result EXCEPT ![p] = "refused"] /\ cmd' = [cmd EXCEPT ![p] = c]
      BY <1>2 DEF Refuse
    <2>4. cmd'[p] = c /\ \A q \in Pushes \ {p} : cmd'[q] = cmd[q]
      BY <1>0, <2>3
    <2> QED BY <2>1, <2>2, <2>3, <2>4, AnswerStep
  <1>3. ASSUME NEW p \in Pushes, LookupCommand(p)
        PROVE  IInv'
    <2>1. TypeOK'
      BY <1>0, <1>3 DEF LookupCommand, TypeOK, PcValues, Results, AuditEventType
    <2>2. CASE Answer(p, "lookup", "duplicate") /\ HasCommand(cmd[p]) /\ UNCHANGED <<log, cmd, audit>>
      <3>1. AuditInv'
        BY <1>0, <2>2, AuditSame
      <3>2. /\ pc[p] = "lookup" /\ pc' = [pc EXCEPT ![p] = "done"] /\ UNCHANGED <<log, cmd>>
            /\ result' = [result EXCEPT ![p] = "duplicate"] /\ cmd[p] \in Commands
            /\ \E n \in DOMAIN log : log[n].cmd = cmd[p]
        BY <1>0, <2>2 DEF HasCommand
      <3> QED BY <2>1, <3>1, <3>2, AnswerStep
    <2>3. CASE Goto(p, "lookup", "max") /\ UNCHANGED <<log, cmd, result, audit>>
      BY <1>0, <2>1, <2>3, GotoStep
    <2> QED BY <1>3, <2>2, <2>3 DEF LookupCommand
  <1>4. ASSUME NEW p \in Pushes, ReadMax(p)
        PROVE  IInv'
    <2>1. TypeOK'
      BY <1>0, <1>4 DEF ReadMax, TypeOK, PcValues, Results, AuditEventType
    <2>2. PICK m \in VersionsOf(RuleOf[cmd[p]]) \cup {0} :
             /\ IsCurrentMax(RuleOf[cmd[p]], m)
             /\ \/ VersionOf[cmd[p]] <= m /\ Answer(p, "max", "stale")
                \/ VersionOf[cmd[p]] > m /\ Goto(p, "max", "insert") /\ UNCHANGED result
      BY <1>4 DEF ReadMax
    <2>3. UNCHANGED <<log, cmd, audit>>
      BY <1>4 DEF ReadMax
    <2>4. CASE VersionOf[cmd[p]] <= m /\ Answer(p, "max", "stale")
      <3>1. AuditInv'
        BY <1>0, <2>3, <2>4, AuditSame
      <3>2. \/ VersionOf[cmd[p]] <= 0
            \/ \E v \in VersionsOf(RuleOf[cmd[p]]) : VersionOf[cmd[p]] <= v
        BY <2>2, <2>4
      <3> QED BY <1>0, <2>1, <2>3, <2>4, <3>1, <3>2, AnswerStep
    <2>5. CASE VersionOf[cmd[p]] > m /\ Goto(p, "max", "insert") /\ UNCHANGED result
      <3>1. cmd[p] \in Commands /\ VersionOf[cmd[p]] \in Int
        BY <1>0, <2>5, PolicyConstants
      <3>2. m \in Int /\ m >= 0
        BY <2>2, LogShape DEF IsCurrentMax, VersionsOf, RowsOf, IInv, LogInv, Positive
      <3>3. VersionOf[cmd[p]] > 0
        BY <2>5, <3>1, <3>2
      <3> QED BY <1>0, <2>1, <2>3, <2>5, <3>1, <3>3, GotoStep
    <2> QED BY <2>2, <2>4, <2>5
  <1>5. ASSUME NEW p \in Pushes, Insert(p)
        PROVE  IInv'
    <2>1. cmd[p] \in Commands /\ NewRow(cmd[p]) \in PolicyRow
      BY <1>0, <1>5, NewRowTyped DEF Insert
    <2>2. TypeOK'
      BY <1>0, <1>5, <2>1 DEF Insert, TypeOK, PcValues, AuditEventType
    <2> QED BY <1>0, <1>5, <2>2, InsertStep DEF Insert
  <1>6. ASSUME NEW p \in Pushes, InsertConflict(p)
        PROVE  IInv'
    <2>1. TypeOK'
      BY <1>0, <1>6 DEF InsertConflict, TypeOK, PcValues, AuditEventType
    <2> QED BY <1>0, <1>6, <2>1, GotoStep DEF InsertConflict
  <1>7. ASSUME NEW p \in Pushes, InsertUnknown(p)
        PROVE  IInv'
    <2>1. /\ pc[p] = "insert" /\ pc' = [pc EXCEPT ![p] = "relookup"]
          /\ UNCHANGED <<cmd, result, audit>> /\ cmd[p] \in Commands
          /\ \/ log' = log
             \/ log' = Append(log, NewRow(cmd[p])) /\ ~Conflicts(cmd[p])
      BY <1>0, <1>7 DEF InsertUnknown
    <2>2. NewRow(cmd[p]) \in PolicyRow
      BY <2>1, NewRowTyped
    <2>3. TypeOK'
      <3>1. log' \in Seq(PolicyRow)
        BY <1>0, <2>1, <2>2
      <3>2. pc' \in [Pushes -> PcValues]
        BY <1>0, <2>1 DEF PcValues
      <3> QED BY <1>0, <2>1, <3>1, <3>2 DEF TypeOK, AuditEventType
    <2>4. CASE log' = log
      BY <1>0, <2>1, <2>3, <2>4, GotoStep
    <2>5. CASE log' = Append(log, NewRow(cmd[p])) /\ ~Conflicts(cmd[p])
      BY <1>0, <2>1, <2>3, <2>5, InsertStep
    <2> QED BY <2>1, <2>4, <2>5
  <1>8. ASSUME NEW p \in Pushes, Relookup(p)
        PROVE  IInv'
    <2> DEFINE res == IF HasCommand(cmd[p]) THEN "duplicate" ELSE "unavailable"
    <2>1. /\ pc[p] = "relookup" /\ pc' = [pc EXCEPT ![p] = "done"]
          /\ result' = [result EXCEPT ![p] = res] /\ UNCHANGED <<log, cmd, audit>>
          /\ res \in {"duplicate", "unavailable"}
      BY <1>8 DEF Relookup
    <2>2. res = "duplicate" => \E n \in DOMAIN log : log[n].cmd = cmd[p]
      BY DEF HasCommand
    <2> HIDE DEF res
    <2>3. TypeOK'
      BY <1>0, <2>1 DEF TypeOK, PcValues, Results, AuditEventType
    <2>4. AuditInv'
      BY <1>0, <2>1, AuditSame
    <2>5. cmd[p] \in Commands
      BY <1>0, <2>1
    <2>6. CASE res = "duplicate"
      BY <1>0, <2>1, <2>2, <2>3, <2>4, <2>5, <2>6, AnswerStep
    <2>7. CASE res = "unavailable"
      BY <1>0, <2>1, <2>3, <2>4, <2>5, <2>7, AnswerStep
    <2> QED BY <2>1, <2>6, <2>7
  <1>9. ASSUME NEW p \in Pushes, Supersede(p)
        PROVE  IInv'
    <2>1. /\ pc[p] = "supersede" /\ pc' = [pc EXCEPT ![p] = "ack"]
          /\ UNCHANGED <<cmd, result, audit>> /\ cmd[p] \in Commands /\ HasCommand(cmd[p])
          /\ result[p] = "none"
      BY <1>0, <1>9 DEF Supersede, IInv, PushInv, Wrote
    <2>2. /\ LogInv' /\ Grows /\ DOMAIN log' = DOMAIN log
          /\ \A n \in DOMAIN log :
                (/\ log[n].rule = RuleOf[cmd[p]]
                 /\ log[n].version < VersionOf[cmd[p]]) => log'[n].supersededBy # NotSuperseded
      BY <1>9, <2>1, SupersedeRows DEF IInv
    <2>3. TypeOK'
      BY <1>0, <2>1, <2>2 DEF TypeOK, PcValues, AuditEventType, LogInv
    <2>4. AuditInv'
      BY <1>0, <2>1, AuditSame
    <2>5. Retired(p)'
      BY <2>1, <2>2, LogShape DEF Retired, RowsOf, IsActive, Grows, LogInv, RowsMatch, IInv
    <2>6. HasCommand(cmd[p])'
      BY <2>1, <2>2, RowsStay DEF HasCommand, IInv, LogInv
    <2>7. PushInv(p)'
      BY <1>0, <2>1, <2>5, <2>6 DEF PushInv, Wrote
    <2> QED BY <1>0, <2>1, <2>2, <2>3, <2>4, <2>7, StepFrame DEF Wrote
  <1>10. ASSUME NEW p \in Pushes, Applied(p)
         PROVE  IInv'
    <2>1. /\ pc[p] = "ack" /\ pc' = [pc EXCEPT ![p] = "done"] /\ UNCHANGED <<log, cmd>>
          /\ result' = [result EXCEPT ![p] = "applied"] /\ Emit("config_apply", p)
          /\ result[p] = "none" /\ Wrote(p) /\ result'[p] = "applied" /\ pc'[p] = "done"
      BY <1>0, <1>10 DEF Applied, Wrote
    <2>2. LogInv' /\ Grows
      BY <2>1, LogSame DEF IInv
    <2>3. audit' \in Seq(AuditEventType) /\ AuditInv'
      BY <1>0, <2>1, AuditEmit
    <2>4. TypeOK'
      BY <1>0, <2>1, <2>3 DEF TypeOK, PcValues, Results, AuditEventType
    <2>5. HasCommand(cmd[p]) /\ Retired(p)
      BY <2>1 DEF IInv, PushInv
    <2>6. HasCommand(cmd[p])' /\ Retired(p)'
      BY <2>1, <2>5 DEF HasCommand, Retired, RowsOf, IsActive
    <2>7. PushInv(p)'
      BY <1>0, <2>1, <2>6 DEF PushInv, Wrote
    <2> QED BY <1>0, <2>1, <2>2, <2>3, <2>4, <2>7, StepFrame
  <1>11. ASSUME NEW p \in Pushes, StatementFails(p)
         PROVE  IInv'
    <2>1. /\ pc[p] \notin {"new", "done"} /\ pc' = [pc EXCEPT ![p] = "done"]
          /\ result' = [result EXCEPT ![p] = "failed"] /\ UNCHANGED <<log, cmd, audit>>
      BY <1>11 DEF StatementFails
    <2>2. TypeOK'
      BY <1>0, <2>1 DEF TypeOK, PcValues, Results, AuditEventType
    <2>3. AuditInv'
      BY <1>0, <2>1, AuditSame
    <2> QED BY <1>0, <2>1, <2>2, <2>3, AnswerStep
  <1>12. ASSUME Crash
         PROVE  IInv'
    <2>1. /\ \A p \in Pushes : pc'[p] = (IF p \in Running THEN "done" ELSE pc[p])
          /\ \A p \in Pushes : result'[p] = (IF p \in Running THEN "lost" ELSE result[p])
          /\ \A p \in Pushes : p \in Running <=> pc[p] \notin {"new", "done"}
          /\ UNCHANGED <<log, cmd, audit>>
      BY <1>12 DEF Crash, Running
    <2>2. TypeOK'
      BY <1>0, <1>12, <2>1 DEF Crash, TypeOK, PcValues, Results, AuditEventType
    <2>3. LogInv' /\ Grows
      BY <2>1, LogSame DEF IInv
    <2>4. \A p \in Pushes \ Running : PushInv(p)'
      BY <2>1, <2>3, PushFrame DEF IInv
    <2>5. \A p \in Running : PushInv(p)'
      BY <1>0, <2>1 DEF PushInv, Wrote, Running
    <2>6. \A p \in Pushes : Wrote(p)' => Wrote(p)
      BY <2>1 DEF Wrote
    <2>7. OneWriter'
      BY <2>1, <2>6 DEF IInv, OneWriter
    <2>8. AuditInv'
      <3>1. \A n \in DOMAIN audit : audit[n].by \in Pushes
        BY AuditShape DEF IInv
      <3>2. \A p \in Pushes : result[p] = "applied" => result'[p] = "applied"
        BY <1>0, <2>1
      <3> QED BY <2>1, <3>1, <3>2 DEF IInv, AuditInv, IsApply
    <2> QED BY <2>2, <2>3, <2>4, <2>5, <2>7, <2>8 DEF IInv
  <1>13. CASE UNCHANGED vars
    <2>1. UNCHANGED <<log, pc, cmd, result, audit>>
      BY <1>13 DEF vars
    <2> QED BY <2>1 DEF IInv, TypeOK, LogInv, RowsMatch, RowsUnique, Positive, SupersededByNewer, PushInv,
                        OneWriter, AuditInv, IsActive, VersionsOf, RowsOf, Wrote, Retired,
                        HasCommand, IsApply
  <1> QED BY <1>1, <1>2, <1>3, <1>4, <1>5, <1>6, <1>7, <1>8, <1>9, <1>10, <1>11, <1>12, <1>13
          DEF Next, Step

-----------------------------------------------------------------------------
(* The invariant implies what is promised. *)
LEMMA PolicySafe ==
  ASSUME IInv
  PROVE  NewestActive /\ SupersededByNewer /\ CommandOnce /\ AppliedRetiresOlder /\ AnswersTruthful
  <1>1. SupersededByNewer
    BY DEF IInv, LogInv
  <1>2. NewestActive
    <2> SUFFICES ASSUME NEW n \in DOMAIN log, \A v \in VersionsOf(log[n].rule) : v <= log[n].version,
                        ~IsActive(n)
                 PROVE  FALSE
      BY DEF NewestActive
    <2>1. /\ log[n].supersededBy > log[n].version /\ log[n].supersededBy \in VersionsOf(log[n].rule)
      BY <1>1 DEF SupersededByNewer
    <2>2. log[n].version \in Int /\ \A v \in VersionsOf(log[n].rule) : v \in Int
      BY LogShape DEF IInv, LogInv, VersionsOf, RowsOf
    <2> QED BY <2>1, <2>2
  <1>3. CommandOnce
    <2>1. \A n \in DOMAIN audit : audit[n].by \in Pushes
      BY AuditShape DEF IInv
    <2>2. \A p, q \in Pushes :
             result[p] = "applied" /\ result[q] = "applied" /\ cmd[p] = cmd[q] => p = q
      BY DEF IInv, OneWriter, Wrote
    <2> QED BY <2>1, <2>2 DEF CommandOnce, IInv, LogInv, RowsUnique, AuditInv, IsApply
  <1>4. AppliedRetiresOlder
    BY DEF AppliedRetiresOlder, IInv, PushInv, Retired
  <1>5. AnswersTruthful
    <2>1. \A p \in Pushes : result[p] = "stale" => cmd[p] \in Commands /\ VersionOf[cmd[p]] \in Int
      BY PolicyConstants DEF IInv, PushInv
    <2> QED BY <2>1 DEF AnswersTruthful, IInv, LogInv, Positive, PushInv, Wrote
  <1> QED BY <1>1, <1>2, <1>3, <1>4, <1>5

LEMMA RowsKeptStep == IInv /\ [Next]_vars => [\A n \in DOMAIN log : RowKept(n)]_vars
  <1> SUFFICES ASSUME IInv, Next PROVE \A n \in DOMAIN log : RowKept(n)
    BY DEF vars
  <1>1. /\ log \in Seq(PolicyRow) /\ Len(log) \in Nat /\ DOMAIN log = 1..Len(log)
        /\ \A p \in Pushes : pc[p] # "new" => cmd[p] \in Commands
    BY LogShape DEF IInv, LogInv, PushInv
  <1>2. ASSUME log' = log PROVE \A n \in DOMAIN log : RowKept(n)
    BY <1>2 DEF RowKept
  <1>3. ASSUME NEW c \in Commands, log' = Append(log, NewRow(c))
        PROVE  \A n \in DOMAIN log : RowKept(n)
    <2>1. NewRow(c) \in PolicyRow
      BY NewRowTyped
    <2>2. DOMAIN log' = 1..(Len(log) + 1) /\ \A n \in 1..Len(log) : log'[n] = log[n]
      BY <1>1, <1>3, <2>1
    <2> QED BY <1>1, <2>2 DEF RowKept
  <1>4. ASSUME NEW p \in Pushes, Supersede(p) PROVE \A n \in DOMAIN log : RowKept(n)
    <2>1. cmd[p] \in Commands /\ HasCommand(cmd[p])
      BY <1>1, <1>4 DEF Supersede, Goto, IInv, PushInv, Wrote
    <2> QED BY <1>4, <2>1, SupersedeRows DEF IInv
  <1>5. ASSUME NEW p \in Pushes, Step(p), ~Supersede(p)
        PROVE  log' = log \/ \E c \in Commands : log' = Append(log, NewRow(c))
    BY <1>1, <1>5 DEF Step, Receive, Refuse, LookupCommand, ReadMax, Insert, InsertConflict,
                      InsertUnknown, Relookup, Applied, StatementFails, Goto
  <1> QED BY <1>2, <1>3, <1>4, <1>5 DEF Next, Crash

-----------------------------------------------------------------------------
(* The table content_policy and the states of all pushes are well typed.   *)
THEOREM PolicyTypeCorrect == Spec => []TypeOK
  <1>1. IInv => TypeOK
    BY DEF IInv
  <1> QED BY <1>1, PolicyInit, PolicyStep, PTL DEF Spec

LEMMA PolicySafety ==
  Spec => [](NewestActive /\ SupersededByNewer /\ CommandOnce /\ AppliedRetiresOlder /\ AnswersTruthful)
  BY PolicyInit, PolicyStep, PolicySafe, PTL DEF Spec

(* However pushes interleave, fail, crash and are retried, the newest      *)
(* version of a rule stays in force.                                       *)
THEOREM PolicyNewest == Spec => []NewestActive
BY PolicySafety, PTL

(* A mark names a stored, newer version of the same rule.                  *)
THEOREM PolicyMarks == Spec => []SupersededByNewer
BY PolicySafety, PTL

(* A command takes effect once, however often and wherever it is pushed.   *)
THEOREM PolicyCommandOnce == Spec => []CommandOnce
BY PolicySafety, PTL

(* A push that is answered as applied has retired the older versions it    *)
(* found.                                                                  *)
THEOREM PolicyRetires == Spec => []AppliedRetiresOlder
BY PolicySafety, PTL

(* What the producer is told of a push is true of the table.               *)
THEOREM PolicyAnswers == Spec => []AnswersTruthful
BY PolicySafety, PTL

(* No step rewrites or removes a stored policy; one mark per row is all.   *)
THEOREM PolicyRowsKept == Spec => RowsOnlySuperseded
  BY PolicyInit, PolicyStep, RowsKeptStep, PTL DEF Spec, RowsOnlySuperseded

-----------------------------------------------------------------------------
(* PolicyStore implements PolicyTable.                                     *)

Stored == {log[n].cmd : n \in DOMAIN log}
Marked == {log[n].cmd : n \in {m \in DOMAIN log : ~IsActive(m)}}

LEMMA TableSame ==
  ASSUME log' = log
  PROVE  Stored' = Stored /\ Marked' = Marked
BY DEF Stored, Marked, IsActive

(* An INSERT that the indexes let pass is a Push of its command.           *)
LEMMA TablePush ==
  ASSUME LogInv, NEW c \in Commands, ~Conflicts(c), log' = Append(log, NewRow(c))
  PROVE  Table!Push(c)
<1>1. /\ Len(log) \in Nat /\ DOMAIN log = 1..Len(log)
      /\ \A n \in 1..Len(log) : log[n] \in PolicyRow
  BY LogShape DEF LogInv
<1>2. /\ NewRow(c) \in PolicyRow
      /\ NewRow(c).cmd = c /\ NewRow(c).supersededBy = NotSuperseded
  BY NewRowTyped
<1>3. /\ DOMAIN log' = 1..(Len(log) + 1) /\ log'[Len(log) + 1] = NewRow(c)
      /\ \A n \in 1..Len(log) : log'[n] = log[n]
  BY <1>1, <1>2
<1>4. Stored' = Stored \cup {c}
  BY <1>1, <1>2, <1>3 DEF Stored
<1>5. Marked' = Marked
  BY <1>1, <1>2, <1>3 DEF Marked, IsActive
<1>6. c \notin Stored
  BY DEF Stored, Conflicts, HasCommand
<1>7. \A o \in Stored : RuleOf[o] = RuleOf[c] => VersionOf[o] # VersionOf[c]
  BY DEF Stored, Conflicts, VersionsOf, RowsOf, LogInv, RowsMatch
<1> QED BY <1>4, <1>5, <1>6, <1>7 DEF Table!Push, Stored, Marked

(* The UPDATE of a push whose row is stored retires the older rows of the  *)
(* rule, or finds none.                                                    *)
LEMMA TableRetire ==
  ASSUME LogInv, NEW p \in Pushes, NEW c \in Commands, c = cmd[p], HasCommand(c), Supersede(p)
  PROVE  Table!Retire(c) \/ (Stored' = Stored /\ Marked' = Marked)
<1> DEFINE Older(n) == /\ log[n].rule = RuleOf[c] /\ log[n].version < VersionOf[c]
                       /\ IsActive(n)
           older == {o \in Table!InForce : Table!Newer(c, o)}
<1>1. /\ \A n \in DOMAIN log : /\ log[n] \in PolicyRow /\ log[n].cmd \in Commands
                               /\ log[n].rule = RuleOf[log[n].cmd]
                               /\ log[n].version = VersionOf[log[n].cmd]
      /\ \A n, m \in DOMAIN log : log[n].cmd = log[m].cmd => n = m
  BY LogShape DEF LogInv, RowsMatch, RowsUnique
<1>2. \A d \in Commands : VersionOf[d] \in Int
  BY PolicyConstants
<1>3. /\ DOMAIN log' = DOMAIN log
      /\ \A n \in DOMAIN log :
            /\ log'[n].cmd = log[n].cmd
            /\ IsActive(n)' <=> IsActive(n) /\ ~Older(n)
  <2>1. log' = [n \in DOMAIN log |->
                  IF Older(n) THEN [log[n] EXCEPT !.supersededBy = VersionOf[c]] ELSE log[n]]
    BY DEF Supersede
  <2>2. ASSUME NEW n \in DOMAIN log, Older(n)
        PROVE  /\ log'[n].cmd = log[n].cmd
               /\ log'[n].supersededBy = VersionOf[c]
    BY <1>1, <2>1, <2>2 DEF PolicyRow
  <2>3. VersionOf[c] # NotSuperseded
    BY <1>2, PolicyConstants
  <2> QED BY <2>1, <2>2, <2>3 DEF IsActive
<1>4. Stored' = Stored
  BY <1>3 DEF Stored
<1>5. \A n \in DOMAIN log : log[n].cmd \in older <=> Older(n)
  <2>1. \A n \in DOMAIN log : log[n].cmd \in Table!InForce <=> IsActive(n)
    BY <1>1 DEF Table!InForce
  <2> QED BY <1>1, <1>2, <2>1 DEF Table!Newer
<1>6. older \subseteq Stored
  BY DEF Table!InForce, Stored
<1>7. Marked' = Marked \cup older
  <2>1. ASSUME NEW d \in Marked' PROVE d \in Marked \cup older
    BY <1>3, <1>5, <2>1 DEF Marked
  <2>2. ASSUME NEW d \in Marked PROVE d \in Marked'
    BY <1>3, <2>2 DEF Marked
  <2>3. ASSUME NEW d \in older PROVE d \in Marked'
    BY <1>3, <1>5, <1>6, <2>3 DEF Marked, Stored
  <2> QED BY <2>1, <2>2, <2>3
<1>8. c \in Stored
  BY DEF HasCommand, Stored
<1>9. CASE older = {}
  BY <1>4, <1>7, <1>9
<1>10. CASE older # {}
  BY <1>4, <1>7, <1>8, <1>10 DEF Table!Retire, Stored, Marked
<1> QED BY <1>9, <1>10

LEMMA TableStep == IInv /\ [Next]_vars => [Table!Next]_(Table!policyVars)
<1> SUFFICES ASSUME IInv, [Next]_vars
             PROVE  Table!Next \/ (Stored' = Stored /\ Marked' = Marked)
  BY DEF Table!policyVars, Stored, Marked
<1>0. LogInv /\ \A p \in Pushes : pc[p] # "new" => cmd[p] \in Commands
  BY DEF IInv, PushInv
<1>1. CASE log' = log
  BY <1>1, TableSame
<1>2. ASSUME NEW c \in Commands, ~Conflicts(c), log' = Append(log, NewRow(c))
      PROVE  Table!Next
  BY <1>0, <1>2, TablePush DEF Table!Next
<1>3. ASSUME NEW p \in Pushes, Supersede(p)
      PROVE  Table!Next \/ (Stored' = Stored /\ Marked' = Marked)
  <2>1. cmd[p] \in Commands /\ HasCommand(cmd[p])
    BY <1>0, <1>3 DEF Supersede, Goto, IInv, PushInv, Wrote
  <2>2. PICK c \in Commands : c = cmd[p]
    BY <2>1
  <2>3. Table!Retire(c) \/ (Stored' = Stored /\ Marked' = Marked)
    BY <1>0, <1>3, <2>1, <2>2, TableRetire
  <2> QED BY <2>2, <2>3 DEF Table!Next
<1>4. ASSUME NEW p \in Pushes, Step(p), ~Supersede(p)
      PROVE  log' = log \/ \E c \in Commands : ~Conflicts(c) /\ log' = Append(log, NewRow(c))
  BY <1>0, <1>4 DEF Step, Receive, Refuse, LookupCommand, ReadMax, Insert, InsertConflict,
                    InsertUnknown, Relookup, Applied, StatementFails, Goto
<1> QED BY <1>1, <1>2, <1>3, <1>4 DEF Next, Crash, vars

(* To its readers the table behaves as PolicyTable says: whatever pushes   *)
(* overlap, fail or are repeated, rows appear and are retired one atomic   *)
(* step at a time, and only by newer rows that are there.                  *)
THEOREM PolicyImplements == Spec => Implements
<1>1. Init => Table!Init
  BY DEF Init, Table!Init
<1> QED BY <1>1, PolicyInit, PolicyStep, TableStep, PTL DEF Spec, Implements, Table!Spec

-----------------------------------------------------------------------------
(* Without faults.                                                         *)

(* Every row has its writer among the pushes that finish or have finished. *)
HasWriter == \A n \in DOMAIN log : \E q \in Pushes : Wrote(q) /\ cmd[q] = log[n].cmd

LEMMA WriterStep ==
  ASSUME ~FaultsOn, IInv, HasWriter, [Next]_vars
  PROVE  HasWriter'
<1>0. /\ log \in Seq(PolicyRow) /\ Len(log) \in Nat /\ DOMAIN log = 1..Len(log)
      /\ pc \in [Pushes -> PcValues] /\ cmd \in [Pushes -> Commands \cup {NoCmd}]
      /\ result \in [Pushes -> Results]
      /\ \A p \in Pushes : /\ pc[p] # "new" => cmd[p] \in Commands
                           /\ pc[p] = "done" <=> result[p] # "none"
  BY LogShape DEF IInv, TypeOK, PushInv
<1>1. ASSUME \A q \in Pushes : Wrote(q) => Wrote(q)' /\ cmd'[q] = cmd[q],
             \A n \in DOMAIN log' :
                \/ n \in DOMAIN log /\ log'[n].cmd = log[n].cmd
                \/ \E q \in Pushes : Wrote(q)' /\ cmd'[q] = log'[n].cmd
      PROVE  HasWriter'
  BY <1>1 DEF HasWriter
<1>2. ASSUME NEW p \in Pushes, Insert(p)
      PROVE  HasWriter'
  <2>1. /\ pc[p] = "insert" /\ pc' = [pc EXCEPT ![p] = "supersede"]
        /\ log' = Append(log, NewRow(cmd[p])) /\ cmd' = cmd /\ result' = result
        /\ cmd[p] \in Commands
    BY <1>0, <1>2 DEF Insert, Goto
  <2>2. /\ DOMAIN log' = 1..(Len(log) + 1) /\ log'[Len(log) + 1].cmd = cmd[p]
        /\ \A n \in 1..Len(log) : log'[n] = log[n]
    <3>1. NewRow(cmd[p]) \in PolicyRow /\ NewRow(cmd[p]).cmd = cmd[p]
      BY <2>1, NewRowTyped
    <3> QED BY <1>0, <2>1, <3>1
  <2>3. Wrote(p)' /\ \A q \in Pushes : Wrote(q) => Wrote(q)' /\ cmd'[q] = cmd[q]
    BY <1>0, <2>1 DEF Wrote
  <2> QED BY <1>0, <1>1, <2>1, <2>2, <2>3
<1>3. ASSUME NEW p \in Pushes, Supersede(p)
      PROVE  HasWriter'
  <2>1. /\ pc[p] = "supersede" /\ pc' = [pc EXCEPT ![p] = "ack"] /\ cmd' = cmd /\ result' = result
        /\ cmd[p] \in Commands /\ HasCommand(cmd[p])
    BY <1>0, <1>3 DEF Supersede, Goto, IInv, PushInv, Wrote
  <2>2. DOMAIN log' = DOMAIN log /\ \A n \in DOMAIN log : log'[n].cmd = log[n].cmd
    BY <1>0, <1>3, <2>1, SupersedeRows DEF IInv, Grows
  <2>3. \A q \in Pushes : Wrote(q) => Wrote(q)' /\ cmd'[q] = cmd[q]
    BY <1>0, <2>1 DEF Wrote
  <2> QED BY <1>1, <2>2, <2>3
<1>4. ASSUME NEW p \in Pushes, Step(p), ~Insert(p), ~Supersede(p)
      PROVE  HasWriter'
  <2>1. log' = log
    BY <1>4 DEF Step, Receive, Refuse, LookupCommand, ReadMax, InsertConflict, InsertUnknown,
                Relookup, Applied, StatementFails
  <2>2. \A q \in Pushes : Wrote(q) => Wrote(q)' /\ cmd'[q] = cmd[q]
    BY <1>0, <1>4 DEF Step, Receive, Refuse, LookupCommand, ReadMax, InsertConflict,
       InsertUnknown, Relookup, Applied, StatementFails, Goto, Answer, Wrote
  <2> QED BY <1>1, <2>1, <2>2
<1>5. CASE UNCHANGED vars
  BY <1>5 DEF vars, HasWriter, Wrote
<1> QED BY <1>2, <1>3, <1>4, <1>5 DEF Next, Crash

(* Where no statement fails and the process does not crash, "duplicate"    *)
(* does mean that the command has taken full effect, however pushes        *)
(* interleave: a fault between INSERT and UPDATE is the only way to what   *)
(* the retry run shows.                                                    *)
THEOREM PolicyDuplicates ==
  ASSUME ~FaultsOn
  PROVE  Spec => []DuplicateIsComplete
<1>1. Init => HasWriter
  BY DEF Init, HasWriter
<1>2. IInv /\ HasWriter => DuplicateIsComplete
  <2> SUFFICES ASSUME IInv, HasWriter, NEW p \in Pushes, NEW n \in DOMAIN log,
                      log[n].cmd = cmd[p], \A q \in Running : cmd[q] # cmd[p],
                      NEW m \in RowsOf(log[n].rule), m < n, log[m].version < log[n].version
               PROVE  ~IsActive(m)
    BY DEF DuplicateIsComplete
  <2>1. PICK q \in Pushes : Wrote(q) /\ cmd[q] = log[n].cmd
    BY DEF HasWriter
  <2>2. result[q] = "applied"
    BY <2>1 DEF Wrote, Running
  <2>3. Retired(q)
    BY <2>2 DEF IInv, PushInv
  <2> QED BY <2>1, <2>3 DEF Retired
<1>3. ASSUME ~FaultsOn PROVE HasWriter /\ IInv /\ [Next]_vars => HasWriter'
  BY WriterStep
<1> QED BY <1>1, <1>2, <1>3, PolicyInit, PolicyStep, PTL DEF Spec
=============================================================================
