-------------------------- MODULE TestRunnerProofs --------------------------
(***************************************************************************)
(* Proofs about the mock endpoint and the test runner.  Each connection is  *)
(* first looked at alone, by the values it has: what has been received, the *)
(* chain of its tasks and what was written always fit together (Served).    *)
(* The hits keep up with the answers begun in the name of a rule, and the   *)
(* runner's result describes what it had read when it was made (Told).      *)
(***************************************************************************)
EXTENDS TestRunner, FiniteSetTheorems, SequenceTheorems, WellFoundedInduction, TLAPS

-----------------------------------------------------------------------------
(* One connection of the endpoint, by the values it has.                    *)

States == Live \cup {"none", "destroyed", "closed"}
AnswerCodes == {"none", "rule", "400", "410", "500", "close"}
Unit == [to : Nat, part : 1 .. Units,
         code : AnswerCodes \cup {"other", "fault", "fatal"}, edition : Nat]
TaskRecord == [kind : Kinds \cup {"end"}, id : Nat,
               at : {"waiting", "delaying", "writing", "gap"},
               ends : SUBSET (1 .. Units), done : 0 .. Units, cut : BOOLEAN, gap : BOOLEAN,
               code : AnswerCodes, edition : Nat]

\* The tasks that answer something; the end of a connection answers nothing.
Backlog(ch) == IF Len(ch) > 0 /\ ch[Len(ch)].kind = "end" THEN Len(ch) - 1 ELSE Len(ch)
Done(ch) == IF Len(ch) > 0 THEN ch[1].done ELSE 0

Typed(s, it, po, ch, w) ==
  /\ s \in States /\ it \in Seq(Kinds) /\ po \in BOOLEAN
  /\ ch \in Seq(TaskRecord) /\ w \in Seq(Unit)

Fresh(s, it, po, ch, w) ==
  s = "none" => it = <<>> /\ ~po /\ ch = <<>> /\ w = <<>>

\* The chain answers the last of the items, in order, and only its first
\* task has begun.
Queued(it, po, ch) ==
  /\ Backlog(ch) <= Len(it) /\ (po => Len(it) > 0)
  /\ \A i \in 1 .. Len(ch) :
       /\ i <= Backlog(ch) => /\ ch[i].kind # "end"
                              /\ ch[i].id = Len(it) - Backlog(ch) + i
       /\ i > Backlog(ch) => ch[i].kind = "end" /\ ch[i].id = Len(it)
       /\ i > 1 => ch[i].at = "waiting"
       /\ ch[i].at = "waiting" => ch[i].done = 0
       /\ ch[i].kind = "end" => ch[i].at = "waiting" /\ po
       /\ ch[i].kind = "fatal" => po /\ ch[i].id = Len(it)

\* An open connection has been written all answers before those of the chain,
\* and of the first of these what its task has done.
WrittenSoFar(s, it, ch, w) ==
  s = "open" => Len(w) = Units * (Len(it) - Backlog(ch)) + Done(ch)

Ordered(w) == \A k \in 1 .. Len(w) : k = Units * (w[k].to - 1) + w[k].part

\* What is on the wire answers what was received; after the last word comes
\* nothing else, and editions do not go back.
WireSound(it, po, w, ed) ==
  /\ Ordered(w)
  /\ \A k \in 1 .. Len(w) :
       /\ w[k].to \in 1 .. Len(it)
       /\ w[k].code \in AnswerCodes
       /\ w[k].code = "close" => po /\ w[k].to = Len(it)
       /\ w[k].code = "rule" => w[k].edition <= ed
  /\ \A j, k \in 1 .. Len(w) :
       j < k /\ w[j].code = "rule" /\ w[k].code = "rule" => w[j].edition <= w[k].edition

\* A task that has begun.
Begun(t, w, ed) ==
  /\ t.code = "close" => t.kind = "fatal"
  /\ t.code = "rule" => /\ t.edition <= ed
                        /\ \A k \in 1 .. Len(w) : w[k].code = "rule" => w[k].edition <= t.edition
  /\ t.at = "delaying" => /\ t.done = 0 /\ t.code = "rule"
                          /\ t.edition \in 1 .. Len(Edits) /\ Edits[t.edition] # NoRule
  /\ t.at \in {"writing", "gap"} => t.done > 0 /\ (~t.cut => Units \in t.ends)
  /\ t.at = "gap" => ~t.cut

HeadBegun(ch, w, ed) ==
  Len(ch) > 0 /\ ch[1].at # "waiting" => Begun(ch[1], w, ed)

Served(s, it, po, ch, w, ed) ==
  /\ Typed(s, it, po, ch, w)
  /\ Fresh(s, it, po, ch, w)
  /\ Queued(it, po, ch)
  /\ WrittenSoFar(s, it, ch, w)
  /\ WireSound(it, po, w, ed)
  /\ HeadBegun(ch, w, ed)

\* Answer n has been begun in the name of a rule.
ByRule(n, ch, w) ==
  \/ \E k \in 1 .. Len(w) : w[k].code = "rule" /\ w[k].to = n
  \/ Len(ch) > 0 /\ ch[1].at # "waiting" /\ ch[1].code = "rule" /\ ch[1].id = n

LEMMA ServedTypes ==
  ASSUME NEW s, NEW it, NEW po, NEW ch, NEW w, Typed(s, it, po, ch, w)
  PROVE  /\ Len(it) \in Nat /\ Len(ch) \in Nat /\ Len(w) \in Nat
         /\ DOMAIN it = 1 .. Len(it) /\ DOMAIN ch = 1 .. Len(ch) /\ DOMAIN w = 1 .. Len(w)
         /\ \A i \in 1 .. Len(ch) : ch[i] \in TaskRecord
         /\ \A k \in 1 .. Len(w) : w[k] \in Unit
         /\ Backlog(ch) \in Int /\ Done(ch) \in 0 .. Units
<1>1. /\ Len(it) \in Nat /\ Len(ch) \in Nat /\ Len(w) \in Nat
      /\ DOMAIN it = 1 .. Len(it) /\ DOMAIN ch = 1 .. Len(ch) /\ DOMAIN w = 1 .. Len(w)
  BY LenProperties DEF Typed
<1>2. /\ \A i \in 1 .. Len(ch) : ch[i] \in TaskRecord
      /\ \A k \in 1 .. Len(w) : w[k] \in Unit
  BY ElementOfSeq DEF Typed
<1>3. Backlog(ch) \in Int
  BY <1>1 DEF Backlog
<1>4. Done(ch) \in 0 .. Units
  BY <1>1, <1>2 DEF Done, TaskRecord, Units
<1> QED BY <1>1, <1>2, <1>3, <1>4

\* The first task is finished, or given up on a connection that is not open.
LEMMA FirstRemoved ==
  ASSUME NEW ch \in Seq(TaskRecord), Len(ch) > 0
  PROVE  /\ RemoveAt(ch, 1) \in Seq(TaskRecord)
         /\ Len(RemoveAt(ch, 1)) = Len(ch) - 1
         /\ \A i \in 1 .. Len(ch) - 1 : RemoveAt(ch, 1)[i] = ch[i + 1]
<1>1. Len(ch) \in Nat /\ ch # <<>>
  BY LenProperties, EmptySeq
<1>2. SubSeq(ch, 1, 1 - 1) = <<>>
  BY SubSeqEmpty
<1>3. SubSeq(ch, 1 + 1, Len(ch)) = Tail(ch)
  BY <1>1, TailIsSubSeq
<1>4. Tail(ch) \in Seq(TaskRecord)
  BY <1>1, HeadTailProperties
<1>5. RemoveAt(ch, 1) = <<>> \o Tail(ch)
  BY <1>2, <1>3 DEF RemoveAt
<1>6. RemoveAt(ch, 1) = Tail(ch)
  BY <1>4, <1>5, ConcatEmptySeq
<1> QED BY <1>1, <1>6, HeadTailProperties

LEMMA DropIsSound ==
  ASSUME NEW s, NEW it, NEW po, NEW ch, NEW w, NEW ed \in Nat, Served(s, it, po, ch, w, ed),
         Len(ch) > 0, NEW s2 \in States \ {"none"},
         \/ s2 # "open"
         \/ s = "open" /\ ch[1].kind # "end" /\ ch[1].done = Units
  PROVE  Served(s2, it, po, RemoveAt(ch, 1), w, ed)
<1> DEFINE rest == RemoveAt(ch, 1)
<1>1. /\ rest \in Seq(TaskRecord)
      /\ Len(rest) = Len(ch) - 1
      /\ \A i \in 1 .. Len(ch) - 1 : rest[i] = ch[i + 1]
      /\ Len(ch) \in Nat /\ Len(it) \in Nat /\ Len(w) \in Nat
  BY FirstRemoved, ServedTypes DEF Served, Typed
<1>2. Typed(s2, it, po, rest, w)
  BY <1>1 DEF Served, Typed
<1> HIDE DEF rest
<1>3. /\ Len(ch) = 1 /\ ch[1].kind = "end" => Backlog(rest) = 0 /\ Backlog(ch) = 0
      /\ Len(ch) > 1 \/ ch[1].kind # "end" => Backlog(rest) = Backlog(ch) - 1
  BY <1>1 DEF Backlog
<1>4. Backlog(ch) <= Len(it) /\ Backlog(ch) \in Int /\ Backlog(rest) \in Int
  BY <1>1, <1>2, ServedTypes DEF Served, Queued
<1>5. Queued(it, po, rest)
  <2>1. \A i \in 1 .. Len(rest) :
          /\ i + 1 \in 1 .. Len(ch) /\ rest[i] = ch[i + 1] /\ Len(ch) > 1
          /\ i <= Backlog(rest) <=> i + 1 <= Backlog(ch)
          /\ i > Backlog(rest) <=> i + 1 > Backlog(ch)
          /\ Len(it) - Backlog(rest) + i = Len(it) - Backlog(ch) + (i + 1)
    BY <1>1, <1>3, <1>4
  <2>2. Backlog(rest) <= Len(it)
    BY <1>1, <1>3, <1>4
  <2> QED BY <1>1, <2>1, <2>2 DEF Served, Queued
<1>6. WrittenSoFar(s2, it, rest, w)
  <2>1. SUFFICES ASSUME s2 = "open"
                 PROVE  Len(w) = Units * (Len(it) - Backlog(rest)) + Done(rest)
    BY DEF WrittenSoFar
  <2>2. Len(w) = Units * (Len(it) - Backlog(ch)) + Units
    BY <2>1 DEF Served, WrittenSoFar, Done
  <2>3. Done(rest) = 0
    BY <1>1 DEF Served, Queued, Done
  <2>4. Backlog(rest) = Backlog(ch) - 1
    BY <1>3, <2>1
  <2> QED BY <1>1, <1>4, <2>2, <2>3, <2>4 DEF Units
<1>7. HeadBegun(rest, w, ed)
  BY <1>1 DEF HeadBegun, Served, Queued
<1> QED BY <1>2, <1>5, <1>6, <1>7 DEF Served, Fresh, rest

\* The first task goes on without writing: it waits, or the connection is not
\* open any more.
LEMMA ChangeIsSound ==
  ASSUME NEW s, NEW it, NEW po, NEW ch, NEW w, NEW ed \in Nat, Served(s, it, po, ch, w, ed),
         Len(ch) > 0, NEW t \in TaskRecord, t.id = ch[1].id, t.kind = ch[1].kind,
         t.kind # "end", t.at # "waiting", Begun(t, w, ed),
         NEW s2 \in States \ {"none"}, s2 = "open" => s = "open" /\ t.done = ch[1].done
  PROVE  Served(s2, it, po, [ch EXCEPT ![1] = t], w, ed)
<1>1. PICK ch2 : ch2 = [ch EXCEPT ![1] = t]
  OBVIOUS
<1>2. /\ ch2 \in Seq(TaskRecord) /\ Len(ch2) = Len(ch) /\ ch2[1] = t
      /\ \A i \in 1 .. Len(ch) : i > 1 => ch2[i] = ch[i]
      /\ Len(ch) \in Nat /\ Len(it) \in Nat /\ Len(w) \in Nat
  BY <1>1, ServedTypes, ExceptSeq DEF Served, Typed
<1>3. Backlog(ch2) = Backlog(ch)
  BY <1>2 DEF Backlog
<1>4. Typed(s2, it, po, ch2, w)
  BY <1>2 DEF Served, Typed
<1>5. Queued(it, po, ch2)
  <2>1. \A i \in 1 .. Len(ch2) : i # 1 => i > 1
    BY <1>2
  <2>2. \A i \in 1 .. Len(ch2) :
          ch2[i].kind = ch[i].kind /\ ch2[i].id = ch[i].id
    BY <1>2, <2>1
  <2>3. 1 \in 1 .. Len(ch2)
    BY <1>2
  <2> QED BY <1>2, <1>3, <2>1, <2>2, <2>3 DEF Served, Queued
<1>6. WrittenSoFar(s2, it, ch2, w)
  BY <1>2, <1>3 DEF Served, WrittenSoFar, Done
<1>7. HeadBegun(ch2, w, ed)
  BY <1>2 DEF HeadBegun
<1> QED BY <1>1, <1>4, <1>5, <1>6, <1>7 DEF Served, Fresh

Shows(u, t, part) ==
  u.to = t.id /\ u.part = part /\ u.code = t.code /\ u.edition = t.edition

\* What a piece adds to the wire.
LEMMA PieceUnits ==
  ASSUME NEW t \in TaskRecord, NEW end \in 1 .. Units, t.done < end, NEW w \in Seq(Unit)
  PROVE  /\ w \o UnitsOf(t, end) \in Seq(Unit)
         /\ Len(w \o UnitsOf(t, end)) = Len(w) + (end - t.done)
         /\ \A k \in 1 .. Len(w) : (w \o UnitsOf(t, end))[k] = w[k]
         /\ \A k \in Len(w) + 1 .. Len(w) + (end - t.done) :
              Shows((w \o UnitsOf(t, end))[k], t, t.done + (k - Len(w)))
<1>1. /\ t.id \in Nat /\ t.done \in 0 .. Units /\ t.code \in AnswerCodes /\ t.edition \in Nat
      /\ end \in 1 .. Units /\ Len(w) \in Nat
  BY LenProperties DEF TaskRecord
<1>2. PICK n \in Nat : n = end - t.done
  BY <1>1 DEF Units
<1>3. \A k \in 1 .. n : [to |-> t.id, part |-> t.done + k, code |-> t.code,
                         edition |-> t.edition] \in Unit
  <2>1. \A k \in 1 .. n : t.done + k \in 1 .. Units
    BY <1>1, <1>2 DEF Units
  <2> QED BY <1>1, <2>1 DEF Unit
<1>4. UnitsOf(t, end) = [k \in 1 .. n |-> [to |-> t.id, part |-> t.done + k, code |-> t.code,
                                           edition |-> t.edition]]
  BY <1>2 DEF UnitsOf
<1>5. UnitsOf(t, end) \in Seq(Unit) /\ Len(UnitsOf(t, end)) = n
  BY <1>3, <1>4, IsASeq
<1>6. \A k \in 1 .. n : UnitsOf(t, end)[k] = [to |-> t.id, part |-> t.done + k,
                                             code |-> t.code, edition |-> t.edition]
  BY <1>4
<1>7. /\ w \o UnitsOf(t, end) \in Seq(Unit)
      /\ Len(w \o UnitsOf(t, end)) = Len(w) + n
      /\ \A k \in 1 .. Len(w) + n :
           (w \o UnitsOf(t, end))[k] = IF k <= Len(w) THEN w[k] ELSE UnitsOf(t, end)[k - Len(w)]
  BY <1>5, ConcatProperties
<1>8. \A k \in 1 .. Len(w) : (w \o UnitsOf(t, end))[k] = w[k]
  BY <1>1, <1>7
<1>9. ASSUME NEW k \in Len(w) + 1 .. Len(w) + n
      PROVE  Shows((w \o UnitsOf(t, end))[k], t, t.done + (k - Len(w)))
  <2>1. k \in 1 .. Len(w) + n /\ ~(k <= Len(w)) /\ k - Len(w) \in 1 .. n
    BY <1>1, <1>9
  <2>2. (w \o UnitsOf(t, end))[k] = UnitsOf(t, end)[k - Len(w)]
    BY <1>7, <2>1
  <2>3. PICK u : u = UnitsOf(t, end)[k - Len(w)]
    OBVIOUS
  <2>4. u = [to |-> t.id, part |-> t.done + (k - Len(w)), code |-> t.code,
             edition |-> t.edition]
    BY <1>6, <2>1, <2>3
  <2> QED BY <2>2, <2>3, <2>4 DEF Shows
<1> QED BY <1>2, <1>7, <1>8, <1>9

\* A task that may write, in the place of the first one.
Writes(t, ch, w, ed) ==
  /\ t \in TaskRecord /\ t.id = ch[1].id /\ t.kind = ch[1].kind /\ t.done = ch[1].done
  /\ t.kind # "end"
  /\ t.code = "close" => t.kind = "fatal"
  /\ t.code = "rule" => /\ t.edition <= ed
                        /\ \A k \in 1 .. Len(w) : w[k].code = "rule" => w[k].edition <= t.edition
  /\ ~t.cut => Units \in t.ends

\* The first task writes its next piece on an open connection.
LEMMA PieceIsSound ==
  ASSUME NEW it, NEW po, NEW ch, NEW w, NEW ed \in Nat, Served("open", it, po, ch, w, ed),
         Len(ch) > 0, NEW t, Writes(t, ch, w, ed),
         NEW end \in NextEnd(t.ends, t.done)
  PROVE  Served("open", it, po, [ch EXCEPT ![1] = [t EXCEPT !.at = "writing", !.done = end]],
                w \o UnitsOf(t, end), ed)
<1>0. /\ t \in TaskRecord /\ t.id = ch[1].id /\ t.kind = ch[1].kind /\ t.done = ch[1].done
      /\ t.kind # "end" /\ (t.code = "close" => t.kind = "fatal")
      /\ end \in 1 .. Units /\ t.done < end
  BY DEF Writes, NextEnd, TaskRecord
<1>1. PICK u : u = [t EXCEPT !.at = "writing", !.done = end]
  OBVIOUS
<1>2. /\ u \in TaskRecord /\ u.id = t.id /\ u.kind = t.kind /\ u.at = "writing"
      /\ u.done = end /\ u.ends = t.ends /\ u.code = t.code
      /\ u.edition = t.edition
  <2>1. /\ u = [t EXCEPT !.at = "writing", !.done = end] /\ end \in 0 .. Units
        /\ "writing" \in {"waiting", "delaying", "writing", "gap"}
    BY <1>0, <1>1 DEF Units
  <2>2. u \in TaskRecord
    BY <1>0, <2>1, Zenon DEF TaskRecord
  <2> QED BY <1>0, <2>1, <2>2 DEF TaskRecord
<1>3. u.cut <=> t.cut
  BY <1>0, <1>1, Zenon DEF TaskRecord
<1>4. PICK v : v = w \o UnitsOf(t, end)
  OBVIOUS
<1>5. /\ v \in Seq(Unit) /\ Len(v) = Len(w) + (end - t.done)
      /\ \A k \in 1 .. Len(w) : v[k] = w[k]
      /\ \A k \in Len(w) + 1 .. Len(v) : Shows(v[k], t, t.done + (k - Len(w)))
  BY <1>0, <1>4, PieceUnits DEF Served, Typed
<1>6. PICK ch2 : ch2 = [ch EXCEPT ![1] = u]
  OBVIOUS
<1>7. /\ ch2 \in Seq(TaskRecord) /\ Len(ch2) = Len(ch) /\ ch2[1] = u
      /\ \A i \in 1 .. Len(ch) : i > 1 => ch2[i] = ch[i]
      /\ Len(ch) \in Nat /\ Len(it) \in Nat /\ Len(w) \in Nat
  BY <1>2, <1>6, ServedTypes, ExceptSeq DEF Served, Typed
<1>8. Backlog(ch2) = Backlog(ch) /\ Backlog(ch) \in Int
  BY <1>0, <1>2, <1>7 DEF Backlog
<1>9. Typed("open", it, po, ch2, v)
  BY <1>5, <1>7 DEF Served, Typed
<1>10. Queued(it, po, ch2)
  <2>1. \A i \in 1 .. Len(ch2) : i # 1 => i > 1
    BY <1>7
  <2>2. \A i \in 1 .. Len(ch2) :
          ch2[i].kind = ch[i].kind /\ ch2[i].id = ch[i].id
    BY <1>0, <1>2, <1>7, <2>1
  <2>3. 1 \in 1 .. Len(ch2)
    BY <1>7
  <2> QED BY <1>0, <1>2, <1>7, <1>8, <2>1, <2>2, <2>3 DEF Served, Queued
<1>11. 1 <= Backlog(ch) /\ t.id = Len(it) - Backlog(ch) + 1 /\ Backlog(ch) <= Len(it)
  BY <1>0, <1>7, <1>8 DEF Served, Queued
<1>12. /\ t.done \in 0 .. Units /\ t.id \in Nat
       /\ Len(w) = Units * (Len(it) - Backlog(ch)) + t.done
  <2>1. t.done \in 0 .. Units /\ t.id \in Nat
    BY <1>0 DEF TaskRecord
  <2>2. Done(ch) = t.done
    BY <1>0 DEF Done
  <2>3. Len(w) = Units * (Len(it) - Backlog(ch)) + Done(ch)
    BY DEF Served, WrittenSoFar
  <2> QED BY <2>1, <2>2, <2>3
<1>13. WrittenSoFar("open", it, ch2, v)
  <2>1. Done(ch2) = end
    BY <1>2, <1>7 DEF Done
  <2>2. Len(v) = Units * (Len(it) - Backlog(ch)) + end
    BY <1>0, <1>5, <1>7, <1>8, <1>12 DEF Units
  <2> QED BY <1>8, <2>1, <2>2 DEF WrittenSoFar
<1>14. /\ Len(v) \in Nat /\ Len(w) < Len(v) /\ Len(w) \in Nat
       /\ Len(w) = Units * (t.id - 1) + t.done
  <2>1. /\ Len(w) \in Nat /\ Len(it) \in Nat /\ end \in 1 .. Units /\ t.done < end
        /\ Len(v) = Len(w) + (end - t.done)
    BY <1>0, <1>5, <1>7
  <2>2. Len(v) \in Nat /\ Len(w) < Len(v)
    BY <1>12, <2>1 DEF Units
  <2> QED BY <1>8, <1>11, <1>12, <2>1, <2>2 DEF Units
<1>15. \A k \in Len(w) + 1 .. Len(v) :
         /\ v[k].to = t.id /\ v[k].part = t.done + (k - Len(w))
         /\ v[k].code = t.code /\ v[k].edition = t.edition
  BY <1>5 DEF Shows
<1>16. Ordered(v)
  <2>1. \A k \in 1 .. Len(w) : k = Units * (v[k].to - 1) + v[k].part
    BY <1>5 DEF Served, WireSound, Ordered
  <2>2. ASSUME NEW k \in Len(w) + 1 .. Len(v)
        PROVE  k = Units * (v[k].to - 1) + v[k].part
    <3>1. v[k].to = t.id /\ v[k].part = t.done + (k - Len(w))
      BY <1>15
    <3>2. k \in Int
      BY <1>14
    <3>3. PICK n \in Int, d \in Int, l \in Int : n = t.id /\ d = t.done /\ l = Len(w)
      BY <1>12, <1>14 DEF Units
    <3>4. l = Units * (n - 1) + d
      BY <1>14, <3>3
    <3>5. k = Units * (n - 1) + (d + (k - l))
      BY <3>2, <3>4 DEF Units
    <3> QED BY <3>1, <3>3, <3>5
  <2>3. \A k \in 1 .. Len(v) : k \in 1 .. Len(w) \/ k \in Len(w) + 1 .. Len(v)
    BY <1>7, <1>14
  <2> QED BY <2>1, <2>2, <2>3 DEF Ordered
<1>17. t.kind = "fatal" => po /\ t.id = Len(it)
  <2>1. 1 \in 1 .. Len(ch)
    BY <1>7
  <2>2. ch[1].kind = "fatal" => po /\ ch[1].id = Len(it)
    BY <2>1 DEF Served, Queued
  <2> QED BY <1>0, <2>2
<1>18. t.id \in 1 .. Len(it) /\ t.code \in AnswerCodes
  BY <1>0, <1>7, <1>8, <1>11 DEF TaskRecord
<1>19. \A k \in 1 .. Len(v) : k \notin 1 .. Len(w) => k \in Len(w) + 1 .. Len(v)
  BY <1>7, <1>14
<1>20. /\ t.code = "close" => po /\ t.id = Len(it)
       /\ t.code = "rule" => t.edition <= ed
  BY <1>0, <1>17 DEF Writes
<1>21. WireSound(it, po, v, ed)
  <2>1. ASSUME NEW k \in 1 .. Len(v)
        PROVE  /\ v[k].to \in 1 .. Len(it)
               /\ v[k].code \in AnswerCodes
               /\ v[k].code = "close" => po /\ v[k].to = Len(it)
               /\ v[k].code = "rule" => v[k].edition <= ed
    <3>1. CASE k \in 1 .. Len(w)
      BY <1>5, <3>1 DEF Served, WireSound
    <3>2. CASE k \notin 1 .. Len(w)
      <4>1. /\ v[k].to = t.id /\ v[k].code = t.code /\ v[k].edition = t.edition
        BY <1>15, <1>19, <3>2
      <4> QED BY <1>18, <1>20, <4>1
    <3> QED BY <3>1, <3>2
  <2>2. ASSUME NEW j \in 1 .. Len(v), NEW k \in 1 .. Len(v), j < k,
               v[j].code = "rule", v[k].code = "rule"
        PROVE  v[j].edition <= v[k].edition
    <3>1. CASE k \in 1 .. Len(w)
      <4>1. j \in 1 .. Len(w)
        BY <1>7, <2>2, <3>1
      <4> QED BY <1>5, <2>2, <3>1, <4>1 DEF Served, WireSound
    <3>2. CASE k \notin 1 .. Len(w)
      <4>1. v[k].code = t.code /\ v[k].edition = t.edition /\ t.code = "rule"
        BY <1>15, <1>19, <2>2, <3>2
      <4>2. CASE j \in 1 .. Len(w)
        BY <1>5, <2>2, <4>1, <4>2 DEF Writes
      <4>3. CASE j \notin 1 .. Len(w)
        <5>1. v[j].edition = t.edition /\ t.edition \in Nat
          BY <1>0, <1>15, <1>19, <2>2, <4>3 DEF TaskRecord
        <5> QED BY <4>1, <5>1
      <4> QED BY <4>2, <4>3
    <3> QED BY <3>1, <3>2
  <2> QED BY <1>16, <2>1, <2>2 DEF WireSound
<1>22. HeadBegun(ch2, v, ed)
  <2>1. ASSUME t.code = "rule", NEW k \in 1 .. Len(v), v[k].code = "rule"
        PROVE  v[k].edition <= t.edition
    <3>1. t.edition \in Nat
      BY <1>0 DEF TaskRecord
    <3>2. CASE k \in 1 .. Len(w)
      BY <1>5, <2>1, <3>2 DEF Writes
    <3>3. CASE k \notin 1 .. Len(w)
      BY <1>15, <1>19, <2>1, <3>1, <3>3
    <3> QED BY <3>2, <3>3
  <2>2. end > 0
    BY <1>0 DEF Units
  <2>3. Begun(u, v, ed)
    BY <1>0, <1>2, <1>3, <2>1, <2>2 DEF Begun, Writes
  <2> QED BY <1>7, <2>3 DEF HeadBegun
<1> QED BY <1>1, <1>4, <1>6, <1>9, <1>10, <1>13, <1>21, <1>22 DEF Served, Fresh

-----------------------------------------------------------------------------
(* What else happens to a connection.                                       *)

LEMMA TaskTypes ==
  ASSUME NEW kind \in Kinds \cup {"end"}, NEW id \in Nat
  PROVE  /\ Task(kind, id) \in TaskRecord
         /\ Task(kind, id).kind = kind /\ Task(kind, id).id = id
         /\ Task(kind, id).at = "waiting" /\ Task(kind, id).done = 0
<1>1. 0 \in 0 .. Units /\ 0 \in Nat /\ {} \in SUBSET (1 .. Units) /\ "none" \in AnswerCodes
  BY DEF Units, AnswerCodes
<1> QED BY <1>1 DEF Task, TaskRecord

\* A request, or a fault, has been received: the chain grows.
LEMMA ReceiveIsSound ==
  ASSUME NEW s, NEW it, NEW po, NEW ch, NEW w, NEW ed \in Nat, Served(s, it, po, ch, w, ed),
         s # "none", ~po, NEW kind \in Kinds,
         NEW more, more = IF kind = "fatal"
                            THEN <<Task(kind, Len(it) + 1), Task("end", Len(it) + 1)>>
                            ELSE <<Task(kind, Len(it) + 1)>>
  PROVE  /\ Served(s, Append(it, kind), kind = "fatal", ch \o more, w, ed)
         /\ \A n : ByRule(n, ch \o more, w) => ByRule(n, ch, w)
<1>1. PICK id \in Nat : id = Len(it) + 1
  BY ServedTypes DEF Served
<1>2. PICK a \in TaskRecord : /\ a = Task(kind, id) /\ a.kind = kind /\ a.id = id
                              /\ a.at = "waiting" /\ a.done = 0
  BY TaskTypes
<1>3. PICK z \in TaskRecord : /\ z = Task("end", id) /\ z.kind = "end" /\ z.id = id
                              /\ z.at = "waiting" /\ z.done = 0
  BY TaskTypes
<1>4. more = IF kind = "fatal" THEN <<a, z>> ELSE <<a>>
  BY <1>1, <1>2, <1>3
<1>5. /\ more \in Seq(TaskRecord) /\ more[1] = a
      /\ kind = "fatal" => Len(more) = 2 /\ more[2] = z
      /\ kind # "fatal" => Len(more) = 1
  BY <1>2, <1>3, <1>4
<1>6. /\ Len(it) \in Nat /\ Len(ch) \in Nat /\ Len(w) \in Nat /\ ch \in Seq(TaskRecord)
      /\ it \in Seq(Kinds)
  BY ServedTypes DEF Served, Typed
<1>7. PICK ch2 : ch2 = ch \o more
  OBVIOUS
<1>8. /\ ch2 \in Seq(TaskRecord) /\ Len(ch2) = Len(ch) + Len(more)
      /\ \A i \in 1 .. Len(ch) : ch2[i] = ch[i]
      /\ ch2[Len(ch) + 1] = a
      /\ kind = "fatal" => ch2[Len(ch) + 2] = z
  <2>1. /\ ch2 \in Seq(TaskRecord) /\ Len(ch2) = Len(ch) + Len(more)
        /\ \A i \in 1 .. Len(ch) + Len(more) :
             ch2[i] = IF i <= Len(ch) THEN ch[i] ELSE more[i - Len(ch)]
    BY <1>5, <1>6, <1>7, ConcatProperties
  <2>2. \A i \in 1 .. Len(ch) : ch2[i] = ch[i]
    BY <1>5, <1>6, <2>1
  <2>3. ch2[Len(ch) + 1] = a
    BY <1>5, <1>6, <2>1
  <2>4. ASSUME kind = "fatal" PROVE ch2[Len(ch) + 2] = z
    BY <1>5, <1>6, <2>1, <2>4
  <2> QED BY <2>1, <2>2, <2>3, <2>4
<1>9. PICK it2 : it2 = Append(it, kind)
  OBVIOUS
<1>10. it2 \in Seq(Kinds) /\ Len(it2) = Len(it) + 1
  BY <1>6, <1>9, AppendProperties
<1>11. Backlog(ch) = Len(ch)
  <2>1. Len(ch) > 0 => Len(ch) \in 1 .. Len(ch)
    BY <1>6
  <2>2. \A i \in 1 .. Len(ch) : ch[i].kind # "end"
    BY DEF Served, Queued
  <2> QED BY <2>1, <2>2 DEF Backlog
<1>12. Backlog(ch2) = Len(ch) + 1
  <2>1. CASE kind = "fatal"
    BY <1>3, <1>5, <1>6, <1>8, <2>1 DEF Backlog
  <2>2. CASE kind # "fatal"
    <3>1. Len(ch2) = Len(ch) + 1 /\ ch2[Len(ch2)] = a /\ a.kind # "end"
      BY <1>2, <1>5, <1>8, <2>2 DEF Kinds
    <3> QED BY <1>6, <3>1 DEF Backlog
  <2> QED BY <2>1, <2>2
<1>13. Typed(s, it2, kind = "fatal", ch2, w)
  BY <1>8, <1>10 DEF Served, Typed
<1>14. Queued(it2, kind = "fatal", ch2)
  <2>1. ASSUME NEW i \in 1 .. Len(ch)
        PROVE  /\ i <= Backlog(ch2) /\ ch2[i].kind # "end" /\ ch2[i].kind # "fatal"
               /\ ch2[i].id = Len(it2) - Backlog(ch2) + i
               /\ i > 1 => ch2[i].at = "waiting"
               /\ ch2[i].at = "waiting" => ch2[i].done = 0
    <3>1. ch2[i] = ch[i] /\ i <= Backlog(ch) /\ i \in Nat
      BY <1>6, <1>8, <1>11
    <3>2. /\ ch[i].kind # "end" /\ ch[i].id = Len(it) - Backlog(ch) + i
          /\ ch[i].kind # "fatal"
          /\ i > 1 => ch[i].at = "waiting"
          /\ ch[i].at = "waiting" => ch[i].done = 0
      BY <3>1 DEF Served, Queued
    <3>3. Len(it2) - Backlog(ch2) = Len(it) - Backlog(ch)
      BY <1>6, <1>10, <1>11, <1>12
    <3> QED BY <1>6, <1>11, <1>12, <3>1, <3>2, <3>3
  <2>2. Len(it2) - Backlog(ch2) + (Len(ch) + 1) = id
    BY <1>1, <1>6, <1>10, <1>12
  <2>3. \A i \in 1 .. Len(ch2) :
          \/ i \in 1 .. Len(ch)
          \/ i = Len(ch) + 1
          \/ i = Len(ch) + 2 /\ kind = "fatal" /\ i > Backlog(ch2)
    BY <1>5, <1>6, <1>8, <1>12
  <2>4. Backlog(ch2) <= Len(it2) /\ id = Len(it2) /\ Len(it2) > 0
    BY <1>1, <1>6, <1>10, <1>11, <1>12 DEF Served, Queued
  <2>5. a.kind # "end"
    BY <1>2 DEF Kinds
  <2> DEFINE Holds(i) ==
         /\ i <= Backlog(ch2) => /\ ch2[i].kind # "end"
                                 /\ ch2[i].id = Len(it2) - Backlog(ch2) + i
         /\ i > Backlog(ch2) => ch2[i].kind = "end" /\ ch2[i].id = Len(it2)
         /\ i > 1 => ch2[i].at = "waiting"
         /\ ch2[i].at = "waiting" => ch2[i].done = 0
         /\ ch2[i].kind = "end" => ch2[i].at = "waiting" /\ kind = "fatal"
         /\ ch2[i].kind = "fatal" => kind = "fatal" /\ ch2[i].id = Len(it2)
  <2>6. ASSUME NEW i \in 1 .. Len(ch) PROVE Holds(i)
    BY <1>6, <1>12, <2>1
  <2>7. Holds(Len(ch) + 1)
    BY <1>2, <1>6, <1>8, <1>12, <2>2, <2>4, <2>5
  <2>8. kind = "fatal" => Holds(Len(ch) + 2)
    BY <1>3, <1>6, <1>8, <1>12, <2>4
  <2>9. \A i \in 1 .. Len(ch2) : Holds(i)
    BY <2>3, <2>6, <2>7, <2>8
  <2> QED BY <2>4, <2>9 DEF Queued
<1>15. Done(ch2) = Done(ch)
  <2>1. CASE Len(ch) = 0
    BY <1>2, <1>5, <1>8, <2>1 DEF Done
  <2>2. CASE Len(ch) > 0
    BY <1>5, <1>6, <1>8, <2>2 DEF Done
  <2> QED BY <1>6, <2>1, <2>2
<1>16. WrittenSoFar(s, it2, ch2, w)
  <2>1. Len(it2) - Backlog(ch2) = Len(it) - Backlog(ch)
    BY <1>6, <1>10, <1>11, <1>12
  <2> QED BY <1>15, <2>1 DEF Served, WrittenSoFar
<1>17. WireSound(it2, kind = "fatal", w, ed)
  <2>1. \A k \in 1 .. Len(w) : w[k].to \in 1 .. Len(it2)
    BY <1>6, <1>10 DEF Served, WireSound
  <2> QED BY <2>1 DEF Served, WireSound
<1>18. HeadBegun(ch2, w, ed)
  <2>1. CASE Len(ch) = 0
    BY <1>2, <1>8, <2>1 DEF HeadBegun
  <2>2. CASE Len(ch) > 0
    <3>1. ch2[1] = ch[1]
      BY <1>6, <1>8, <2>2
    <3> QED BY <2>2, <3>1 DEF HeadBegun, Served
  <2> QED BY <1>6, <2>1, <2>2
<1>19. ASSUME NEW n, ByRule(n, ch2, w) PROVE ByRule(n, ch, w)
  <2>1. CASE Len(ch) = 0
    BY <1>2, <1>8, <1>19, <2>1 DEF ByRule
  <2>2. CASE Len(ch) > 0
    <3>1. ch2[1] = ch[1]
      BY <1>6, <1>8, <2>2
    <3> QED BY <1>19, <2>2, <3>1 DEF ByRule
  <2> QED BY <1>6, <2>1, <2>2
<1> QED BY <1>7, <1>9, <1>13, <1>14, <1>16, <1>17, <1>18, <1>19 DEF Served, Fresh

\* A connection is made, or ends.
LEMMA SockIsSound ==
  ASSUME NEW s, NEW it, NEW po, NEW ch, NEW w, NEW ed \in Nat, Served(s, it, po, ch, w, ed),
         NEW s2 \in States \ {"none"}, s2 = "open" => s \in {"none", "open"}
  PROVE  Served(s2, it, po, ch, w, ed)
<1>1. WrittenSoFar(s2, it, ch, w)
  <2>1. CASE s2 = "open" /\ s = "none"
    <3>1. Len(it) = 0 /\ Len(ch) = 0 /\ Len(w) = 0
      BY <2>1 DEF Served, Fresh
    <3> QED BY <3>1 DEF WrittenSoFar, Backlog, Done, Units
  <2>2. CASE ~(s2 = "open" /\ s = "none")
    BY <2>2 DEF Served, WrittenSoFar
  <2> QED BY <2>1, <2>2
<1> QED BY <1>1 DEF Served, Typed, Fresh

\* The rule is edited.
LEMMA EditIsSound ==
  ASSUME NEW s, NEW it, NEW po, NEW ch, NEW w, NEW ed \in Nat, Served(s, it, po, ch, w, ed)
  PROVE  Served(s, it, po, ch, w, ed + 1)
<1>1. \A k \in 1 .. Len(w) : w[k].edition \in Nat
  BY ServedTypes DEF Served, Unit
<1>2. WireSound(it, po, w, ed + 1)
  BY <1>1 DEF Served, WireSound
<1>3. HeadBegun(ch, w, ed + 1)
  <2>1. Len(ch) > 0 => ch[1].edition \in Nat
    <3>1. Len(ch) > 0 => 1 \in 1 .. Len(ch)
      BY ServedTypes DEF Served
    <3> QED BY <3>1, ServedTypes DEF Served, TaskRecord
  <2> QED BY <2>1 DEF Served, HeadBegun, Begun
<1> QED BY <1>2, <1>3 DEF Served

-----------------------------------------------------------------------------
(* The steps of the first task of a connection.                             *)

Extends(w2, w) == Len(w) <= Len(w2) /\ \A k \in 1 .. Len(w) : w2[k] = w[k]

\* The connection becomes another one that is served; only the answers in x
\* are begun in the name of a rule.
MovesTo(c, s2, ch2, w2, x) ==
  /\ sock' = [sock EXCEPT ![c] = s2]
  /\ chain' = [chain EXCEPT ![c] = ch2]
  /\ wire' = [wire EXCEPT ![c] = w2]
  /\ Served(s2, items[c], poisoned[c], ch2, w2, edition)
  /\ Extends(w2, wire[c])
  /\ \A n : ByRule(n, ch2, w2) => ByRule(n, chain[c], wire[c]) \/ n \in x

Moves(c, x) == \E s2, ch2, w2 : MovesTo(c, s2, ch2, w2, x)

\* A connection whose first task may make a step.
Busy(c) ==
  /\ c \in Conns /\ edition \in 1 .. Len(Edits)
  /\ sock \in [Conns -> States]
  /\ chain \in [Conns -> Seq(TaskRecord)]
  /\ wire \in [Conns -> Seq(Unit)]
  /\ Served(sock[c], items[c], poisoned[c], chain[c], wire[c], edition)
  /\ Len(chain[c]) > 0

LEMMA BusyFacts ==
  ASSUME NEW c, Busy(c)
  PROVE  /\ chain[c] \in Seq(TaskRecord) /\ wire[c] \in Seq(Unit)
         /\ Len(chain[c]) \in Nat /\ Len(wire[c]) \in Nat /\ edition \in Nat
         /\ sock[c] \in States \ {"none"}
         /\ chain[c][1] \in TaskRecord
         /\ sock = [sock EXCEPT ![c] = sock[c]] /\ wire = [wire EXCEPT ![c] = wire[c]]
<1>1. chain[c] \in Seq(TaskRecord) /\ wire[c] \in Seq(Unit) /\ Len(Edits) \in Nat
  BY EditsAssumption, LenProperties DEF Busy
<1>2. Len(chain[c]) \in Nat /\ Len(wire[c]) \in Nat /\ edition \in Nat
  BY <1>1, LenProperties DEF Busy
<1>3. sock[c] \in States \ {"none"}
  BY DEF Busy, Served, Fresh
<1>4. chain[c][1] \in TaskRecord
  BY <1>1, <1>2, ElementOfSeq DEF Busy
<1>5. sock = [sock EXCEPT ![c] = sock[c]] /\ wire = [wire EXCEPT ![c] = wire[c]]
  BY DEF Busy
<1> QED BY <1>1, <1>2, <1>3, <1>4, <1>5

LEMMA DropMoves ==
  ASSUME NEW c, Busy(c), Drop(c, 1), UNCHANGED wire,
         NEW s2 \in States \ {"none"}, sock' = [sock EXCEPT ![c] = s2],
         \/ s2 # "open"
         \/ sock[c] = "open" /\ chain[c][1].kind # "end" /\ chain[c][1].done = Units
  PROVE  Moves(c, {})
<1>1. PICK ch : ch = chain[c]
  OBVIOUS
<1>2. PICK rest : rest = RemoveAt(ch, 1)
  OBVIOUS
<1>3. /\ ch \in Seq(TaskRecord) /\ Len(ch) > 0 /\ Len(ch) \in Nat
      /\ Served(sock[c], items[c], poisoned[c], ch, wire[c], edition)
  BY <1>1, BusyFacts DEF Busy
<1>4. Served(s2, items[c], poisoned[c], rest, wire[c], edition)
  BY <1>1, <1>2, <1>3, BusyFacts, DropIsSound
<1>5. chain' = [chain EXCEPT ![c] = rest]
  BY <1>1, <1>2 DEF Drop, Busy
<1>6. \A n : ByRule(n, rest, wire[c]) => ByRule(n, ch, wire[c])
  <2>1. Len(rest) = Len(ch) - 1 /\ \A i \in 1 .. Len(ch) - 1 : rest[i] = ch[i + 1]
    BY <1>2, <1>3, FirstRemoved
  <2>2. Len(rest) > 0 => rest[1] = ch[2] /\ 2 \in 1 .. Len(ch)
    BY <1>3, <2>1
  <2>3. Len(rest) > 0 => rest[1].at = "waiting"
    BY <1>3, <2>2 DEF Served, Queued
  <2> QED BY <2>3 DEF ByRule
<1>7. wire' = [wire EXCEPT ![c] = wire[c]] /\ Extends(wire[c], wire[c])
  BY BusyFacts DEF Extends
<1>8. MovesTo(c, s2, rest, wire[c], {})
  BY <1>1, <1>4, <1>5, <1>6, <1>7 DEF MovesTo
<1> QED BY <1>8 DEF Moves

\* The first task goes on to t without writing.
LEMMA HoldMoves ==
  ASSUME NEW c, Busy(c), NEW t \in TaskRecord, Update(c, 1, t), UNCHANGED wire,
         t.id = chain[c][1].id, t.kind = chain[c][1].kind,
         t.kind # "end", t.at # "waiting", Begun(t, wire[c], edition),
         NEW s2 \in States \ {"none"}, sock' = [sock EXCEPT ![c] = s2],
         s2 = "open" => sock[c] = "open" /\ t.done = chain[c][1].done,
         NEW x, t.code = "rule" => t.id \in x \/ ByRule(t.id, chain[c], wire[c])
  PROVE  Moves(c, x)
<1>1. PICK ch : ch = chain[c]
  OBVIOUS
<1>2. PICK ch2 : ch2 = [ch EXCEPT ![1] = t]
  OBVIOUS
<1>3. /\ ch \in Seq(TaskRecord) /\ Len(ch) > 0 /\ Len(ch) \in Nat
      /\ Served(sock[c], items[c], poisoned[c], ch, wire[c], edition)
  BY <1>1, BusyFacts DEF Busy
<1>4. Served(s2, items[c], poisoned[c], ch2, wire[c], edition)
  BY <1>1, <1>2, <1>3, BusyFacts, ChangeIsSound
<1>5. chain' = [chain EXCEPT ![c] = ch2]
  BY <1>1, <1>2 DEF Update, Busy
<1>6. Len(ch2) = Len(ch) /\ ch2[1] = t
  BY <1>2, <1>3, ExceptSeq
<1>7. \A n : ByRule(n, ch2, wire[c]) => ByRule(n, ch, wire[c]) \/ n \in x
  BY <1>1, <1>6 DEF ByRule
<1>8. wire' = [wire EXCEPT ![c] = wire[c]] /\ Extends(wire[c], wire[c])
  BY BusyFacts DEF Extends
<1>9. MovesTo(c, s2, ch2, wire[c], x)
  BY <1>1, <1>4, <1>5, <1>7, <1>8 DEF MovesTo
<1> QED BY <1>9 DEF Moves

LEMMA WriteMoves ==
  ASSUME NEW c, Busy(c), NEW t, Writes(t, chain[c], wire[c], edition), WritePiece(c, 1, t),
         NEW x, t.code = "rule" => t.id \in x \/ ByRule(t.id, chain[c], wire[c])
  PROVE  Moves(c, x)
<1>1. PICK end \in NextEnd(t.ends, t.done) :
        /\ wire' = IF sock[c] = "open" THEN [wire EXCEPT ![c] = @ \o UnitsOf(t, end)] ELSE wire
        /\ sock' = IF sock[c] \in Live \ {"open"}
                     THEN [sock EXCEPT ![c] = "destroyed"] ELSE sock
        /\ Update(c, 1, [t EXCEPT !.at = "writing", !.done = end])
  BY DEF WritePiece
<1>2. PICK u : u = [t EXCEPT !.at = "writing", !.done = end]
  OBVIOUS
<1>3. /\ t \in TaskRecord /\ end \in 1 .. Units /\ t.done < end
      /\ t.id = chain[c][1].id /\ t.kind = chain[c][1].kind /\ t.kind # "end"
  BY DEF Writes, NextEnd, TaskRecord
<1>4. /\ u \in TaskRecord /\ u.id = t.id /\ u.kind = t.kind /\ u.at = "writing"
      /\ u.done = end /\ u.ends = t.ends /\ u.code = t.code /\ u.edition = t.edition
  <2>1. /\ u = [t EXCEPT !.at = "writing", !.done = end] /\ end \in 0 .. Units
        /\ "writing" \in {"waiting", "delaying", "writing", "gap"}
    BY <1>2, <1>3 DEF Units
  <2>2. u \in TaskRecord
    BY <1>3, <2>1, Zenon DEF TaskRecord
  <2> QED BY <1>3, <2>1, <2>2 DEF TaskRecord
<1>5. u.cut <=> t.cut
  BY <1>2, <1>3, Zenon DEF TaskRecord
<1>6. Update(c, 1, u)
  BY <1>1, <1>2
<1>7. CASE sock[c] # "open"
  <2>1. Begun(u, wire[c], edition)
    BY <1>3, <1>4, <1>5 DEF Begun, Writes, Units
  <2>2. PICK s2 \in States \ {"none"} : s2 # "open" /\ sock' = [sock EXCEPT ![c] = s2]
    <3>1. CASE sock[c] \in Live
      BY <1>1, <1>7, <3>1 DEF States
    <3>2. CASE sock[c] \notin Live
      BY <1>1, <1>7, <3>2, BusyFacts
    <3> QED BY <3>1, <3>2
  <2>3. UNCHANGED wire
    BY <1>1, <1>7
  <2> QED BY <1>3, <1>4, <1>6, <2>1, <2>2, <2>3, HoldMoves
<1>8. CASE sock[c] = "open"
  <2>1. PICK ch : ch = chain[c]
    OBVIOUS
  <2>2. PICK w : w = wire[c]
    OBVIOUS
  <2>3. /\ ch \in Seq(TaskRecord) /\ Len(ch) > 0 /\ Len(ch) \in Nat /\ w \in Seq(Unit)
        /\ Served("open", items[c], poisoned[c], ch, w, edition) /\ edition \in Nat
        /\ Writes(t, ch, w, edition)
    BY <1>8, <2>1, <2>2, BusyFacts DEF Busy
  <2>4. PICK v : v = w \o UnitsOf(t, end)
    OBVIOUS
  <2>5. PICK ch2 : ch2 = [ch EXCEPT ![1] = u]
    OBVIOUS
  <2>6. Served("open", items[c], poisoned[c], ch2, v, edition)
    BY <1>2, <2>3, <2>4, <2>5, PieceIsSound
  <2>7. /\ sock' = [sock EXCEPT ![c] = "open"]
        /\ chain' = [chain EXCEPT ![c] = ch2]
        /\ wire' = [wire EXCEPT ![c] = v]
    <3>1. sock' = [sock EXCEPT ![c] = "open"]
      BY <1>1, <1>8, BusyFacts DEF Live
    <3>2. chain' = [chain EXCEPT ![c] = ch2]
      BY <1>6, <2>1, <2>5 DEF Update, Busy
    <3>3. wire' = [wire EXCEPT ![c] = v]
      BY <1>1, <1>8, <2>2, <2>4 DEF Busy
    <3> QED BY <3>1, <3>2, <3>3
  <2>8. /\ Len(v) = Len(w) + (end - t.done) /\ Len(w) \in Nat
        /\ \A k \in 1 .. Len(w) : v[k] = w[k]
        /\ \A k \in Len(w) + 1 .. Len(v) : Shows(v[k], t, t.done + (k - Len(w)))
    BY <1>3, <2>3, <2>4, PieceUnits, LenProperties
  <2>9. Len(v) \in Nat /\ Len(w) <= Len(v)
    <3>1. t.done \in 0 .. Units
      BY <1>3 DEF TaskRecord
    <3>2. Len(v) = Len(w) + (end - t.done) /\ Len(w) \in Nat
      BY <2>8
    <3> QED BY <1>3, <3>1, <3>2 DEF Units
  <2>10. Extends(v, w)
    BY <2>8, <2>9 DEF Extends
  <2>11. ASSUME NEW n, ByRule(n, ch2, v) PROVE ByRule(n, ch, w) \/ n \in x
    <3>1. Len(ch2) = Len(ch) /\ ch2[1] = u
      BY <2>3, <2>5, ExceptSeq
    <3>2. ASSUME n = t.id, t.code = "rule" PROVE ByRule(n, ch, w) \/ n \in x
      BY <2>1, <2>2, <3>2
    <3>3. ASSUME NEW k \in 1 .. Len(v), v[k].code = "rule", v[k].to = n
          PROVE  ByRule(n, ch, w) \/ n \in x
      <4>1. CASE k \in 1 .. Len(w)
        BY <2>8, <3>3, <4>1 DEF ByRule
      <4>2. CASE k \notin 1 .. Len(w)
        <5>1. k \in Len(w) + 1 .. Len(v)
          BY <2>8, <2>9, <4>2
        <5>2. n = t.id /\ t.code = "rule"
          BY <2>8, <3>3, <5>1 DEF Shows
        <5> QED BY <3>2, <5>2
      <4> QED BY <4>1, <4>2
    <3> QED BY <1>4, <2>11, <3>1, <3>2, <3>3 DEF ByRule
  <2>12. MovesTo(c, "open", ch2, v, x)
    BY <2>1, <2>2, <2>6, <2>7, <2>10, <2>11 DEF MovesTo
  <2> QED BY <2>12 DEF Moves
<1> QED BY <1>7, <1>8

\* What is written is a response in pieces, a part of one, or an error.
LEMMA TaskForms ==
  ASSUME NEW t \in TaskRecord, NEW code \in AnswerCodes,
         NEW r \in RuleResponse
  PROVE  /\ ErrorTask(t, code) \in TaskRecord
         /\ ErrorTask(t, code).id = t.id /\ ErrorTask(t, code).kind = t.kind
         /\ ErrorTask(t, code).done = t.done /\ ErrorTask(t, code).code = code
         /\ Units \in ErrorTask(t, code).ends
         /\ r.cut < NoCut =>
              /\ CutTask(t, r) \in TaskRecord
              /\ CutTask(t, r).id = t.id /\ CutTask(t, r).kind = t.kind
              /\ CutTask(t, r).done = t.done /\ CutTask(t, r).code = t.code
              /\ CutTask(t, r).edition = t.edition /\ CutTask(t, r).cut
         /\ PieceTask(t, r) \in TaskRecord
         /\ PieceTask(t, r).id = t.id /\ PieceTask(t, r).kind = t.kind
         /\ PieceTask(t, r).done = t.done /\ PieceTask(t, r).code = t.code
         /\ PieceTask(t, r).edition = t.edition /\ Units \in PieceTask(t, r).ends
<1>1. Units \in 1 .. Units /\ {Units} \in SUBSET (1 .. Units)
  BY DEF Units
<1>2. /\ ErrorTask(t, code) \in TaskRecord
      /\ ErrorTask(t, code).id = t.id /\ ErrorTask(t, code).kind = t.kind
      /\ ErrorTask(t, code).done = t.done /\ ErrorTask(t, code).code = code
      /\ Units \in ErrorTask(t, code).ends
  <2>1. PICK w : w = [t EXCEPT !.ends = {Units}, !.cut = FALSE, !.gap = FALSE, !.code = code]
    OBVIOUS
  <2>2. w \in TaskRecord
    BY <1>1, <2>1, Zenon DEF TaskRecord
  <2>3. w.id = t.id /\ w.kind = t.kind /\ w.done = t.done /\ w.code = code /\ w.ends = {Units}
    BY <2>1 DEF TaskRecord
  <2> QED BY <2>1, <2>2, <2>3 DEF ErrorTask
<1>3. ASSUME r.cut < NoCut
      PROVE  /\ CutTask(t, r) \in TaskRecord
             /\ CutTask(t, r).id = t.id /\ CutTask(t, r).kind = t.kind
             /\ CutTask(t, r).done = t.done /\ CutTask(t, r).code = t.code
             /\ CutTask(t, r).edition = t.edition /\ CutTask(t, r).cut
  <2>1. PICK ends : ends = {r.cut} \ {0}
    OBVIOUS
  <2>2. ends \in SUBSET (1 .. Units)
    <3>1. r.cut \in 0 .. NoCut
      BY DEF RuleResponse
    <3> QED BY <1>3, <2>1, <3>1 DEF NoCut, Units
  <2>3. PICK w : w = [t EXCEPT !.ends = ends, !.cut = TRUE, !.gap = FALSE]
    OBVIOUS
  <2>4. w \in TaskRecord
    BY <2>2, <2>3, Zenon DEF TaskRecord
  <2>5. /\ w.id = t.id /\ w.kind = t.kind /\ w.done = t.done /\ w.code = t.code
        /\ w.edition = t.edition
    BY <2>3 DEF TaskRecord
  <2>6. w.cut
    BY <2>3, Zenon DEF TaskRecord
  <2> QED BY <2>1, <2>3, <2>4, <2>5, <2>6 DEF CutTask
<1>4. /\ PieceTask(t, r) \in TaskRecord
      /\ PieceTask(t, r).id = t.id /\ PieceTask(t, r).kind = t.kind
      /\ PieceTask(t, r).done = t.done /\ PieceTask(t, r).code = t.code
      /\ PieceTask(t, r).edition = t.edition /\ Units \in PieceTask(t, r).ends
  <2>1. PICK ends : ends = SplitBuffer(Units, r.sizes)
    OBVIOUS
  <2>2. ends \in SUBSET (1 .. Units) /\ Units \in ends
    BY <1>1, <2>1 DEF SplitBuffer, Sums
  <2>3. PICK w : w = [t EXCEPT !.ends = ends, !.cut = FALSE, !.gap = r.gap]
    OBVIOUS
  <2>4. r.gap \in BOOLEAN
    BY DEF RuleResponse
  <2>5. w \in TaskRecord
    BY <2>2, <2>3, <2>4, Zenon DEF TaskRecord
  <2>6. /\ w.id = t.id /\ w.kind = t.kind /\ w.done = t.done /\ w.code = t.code
        /\ w.edition = t.edition /\ w.ends = ends
    BY <2>3 DEF TaskRecord
  <2> QED BY <2>1, <2>2, <2>3, <2>5, <2>6 DEF PieceTask
<1> QED BY <1>2, <1>3, <1>4

\* Task t of the connection is about to be answered by its rule.
ByItsRule(c, t) ==
  /\ t \in TaskRecord /\ t.id = chain[c][1].id /\ t.kind = chain[c][1].kind /\ t.kind # "end"
  /\ t.done = 0 /\ chain[c][1].done = 0 /\ t.code = "rule"
  /\ t.edition \in 1 .. Len(Edits) /\ Edits[t.edition] # NoRule /\ t.edition <= edition
  /\ \A k \in 1 .. Len(wire[c]) : wire[c][k].code = "rule" => wire[c][k].edition <= t.edition

LEMMA RespondMoves ==
  ASSUME NEW c, Busy(c), NEW t, ByItsRule(c, t), WriteResponse(c, 1, t),
         NEW x, t.id \in x \/ ByRule(t.id, chain[c], wire[c])
  PROVE  Moves(c, x)
<1>1. PICK r \in RuleResponse : r = Edits[t.edition]
  BY EditsAssumption, ElementOfSeq DEF ByItsRule
<1>2. PICK w : w = IF ~r.encodable THEN ErrorTask(t, "500")
                   ELSE IF r.cut < NoCut THEN CutTask(t, r) ELSE PieceTask(t, r)
  OBVIOUS
<1>3. Writes(w, chain[c], wire[c], edition) /\ w.id = t.id
  <2>1. t \in TaskRecord /\ "500" \in AnswerCodes
    BY DEF ByItsRule, AnswerCodes
  <2>2. CASE ~r.encodable
    BY <1>2, <2>1, <2>2, TaskForms DEF Writes, ByItsRule
  <2>3. CASE r.encodable /\ r.cut < NoCut
    BY <1>2, <2>1, <2>3, TaskForms DEF Writes, ByItsRule
  <2>4. CASE r.encodable /\ ~(r.cut < NoCut)
    BY <1>2, <2>1, <2>4, TaskForms DEF Writes, ByItsRule
  <2> QED BY <2>2, <2>3, <2>4
<1>4. IF Written(w)
        THEN /\ sock' = [sock EXCEPT ![c] = "destroyed"]
             /\ Drop(c, 1)
             /\ UNCHANGED wire
        ELSE WritePiece(c, 1, w)
  BY <1>1, <1>2 DEF WriteResponse
<1>5. CASE Written(w)
  <2>1. Moves(c, {})
    BY <1>4, <1>5, DropMoves DEF States
  <2> QED BY <2>1 DEF Moves, MovesTo
<1>6. CASE ~Written(w)
  BY <1>3, <1>4, <1>6, WriteMoves
<1> QED BY <1>5, <1>6

LEMMA BeginMoves ==
  ASSUME NEW c, Busy(c), hits \in Nat, NEW i, Begin(c, i)
  PROVE  \/ hits' = hits /\ Moves(c, {})
         \/ hits' = hits + 1 /\ Moves(c, {chain[c][1].id})
<1>1. i = 1
  BY DEF Begin, MayStart
<1>2. PICK t \in TaskRecord : t = chain[c][1]
  BY BusyFacts
<1>3. PICK matched \in BOOLEAN : matched <=> (t.kind = "request" /\ Edits[edition] # NoRule)
  OBVIOUS
<1>4. PICK started : started = [t EXCEPT !.code = "rule", !.edition = edition]
  OBVIOUS
<1>5. PICK code \in {"close", "410", "400"} :
         /\ code = CASE t.kind = "fatal" -> "close"
                     [] t.kind = "request" -> "410"
                     [] OTHER -> "400"
         /\ code = "close" <=> t.kind = "fatal"
  OBVIOUS
<1>6. /\ t.at = "waiting"
      /\ RecordHit(c, matched)
      /\ CASE sock[c] \notin Live \/ t.kind = "end" ->
                /\ Drop(c, 1)
                /\ sock' = IF sock[c] = "open" THEN [sock EXCEPT ![c] = "ended"] ELSE sock
                /\ UNCHANGED wire
           [] matched /\ Edits[edition].delay /\ sock[c] \in Live ->
                /\ Update(c, 1, [started EXCEPT !.at = "delaying"])
                /\ UNCHANGED <<sock, wire>>
           [] matched /\ ~Edits[edition].delay /\ sock[c] \in Live ->
                WriteResponse(c, 1, started)
           [] OTHER -> WritePiece(c, 1, ErrorTask(t, code))
  BY <1>1, <1>2, <1>3, <1>4, <1>5 DEF Begin
<1>7. t.done = 0
  <2>1. 1 \in 1 .. Len(chain[c])
    BY BusyFacts DEF Busy
  <2> QED BY <1>2, <1>6, <2>1 DEF Busy, Served, Queued
<1>8. CASE sock[c] \notin Live \/ t.kind = "end"
  <2>1. /\ Drop(c, 1)
        /\ sock' = IF sock[c] = "open" THEN [sock EXCEPT ![c] = "ended"] ELSE sock
        /\ UNCHANGED wire
    BY <1>3, <1>6, <1>8
  <2>2. PICK s2 \in States \ {"none"} : s2 # "open" /\ sock' = [sock EXCEPT ![c] = s2]
    <3>1. CASE sock[c] = "open"
      BY <2>1, <3>1 DEF States, Live
    <3>2. CASE sock[c] # "open"
      BY <2>1, <3>2, BusyFacts
    <3> QED BY <3>1, <3>2
  <2>3. Moves(c, {})
    BY <2>1, <2>2, DropMoves
  <2>4. hits' = hits
    BY <1>3, <1>6, <1>8 DEF RecordHit
  <2> QED BY <2>3, <2>4
<1>9. CASE sock[c] \in Live /\ t.kind # "end" /\ matched
  <2>1. hits' = hits + 1
    BY <1>6, <1>9 DEF RecordHit
  <2>2. /\ started \in TaskRecord /\ started.id = t.id /\ started.kind = t.kind
        /\ started.done = 0 /\ started.code = "rule" /\ started.edition = edition
        /\ edition \in Nat
    <3>1. edition \in Nat /\ "rule" \in AnswerCodes
      BY BusyFacts DEF AnswerCodes
    <3>2. started \in TaskRecord
      BY <1>4, <3>1, Zenon DEF TaskRecord
    <3> QED BY <1>4, <1>7, <3>1, <3>2 DEF TaskRecord
  <2>3. ByItsRule(c, started)
    <3>1. \A k \in 1 .. Len(wire[c]) :
            wire[c][k].code = "rule" => wire[c][k].edition <= edition
      BY DEF Busy, Served, WireSound
    <3>2. edition \in 1 .. Len(Edits) /\ Edits[edition] # NoRule /\ edition <= edition
      BY <1>3, <1>9, <2>2 DEF Busy
    <3> QED BY <1>2, <1>7, <1>9, <2>2, <3>1, <3>2 DEF ByItsRule
  <2>4. CASE Edits[edition].delay
    <3>1. /\ Update(c, 1, [started EXCEPT !.at = "delaying"])
          /\ UNCHANGED <<sock, wire>>
      BY <1>6, <1>9, <2>4
    <3>2. PICK u : u = [started EXCEPT !.at = "delaying"]
      OBVIOUS
    <3>3. /\ u \in TaskRecord /\ u.id = t.id /\ u.kind = t.kind /\ u.done = 0
          /\ u.code = "rule" /\ u.edition = edition /\ u.at = "delaying"
      <4>1. u \in TaskRecord
        BY <2>2, <3>2, Zenon DEF TaskRecord
      <4> QED BY <2>2, <3>2, <4>1 DEF TaskRecord
    <3>4. Begun(u, wire[c], edition)
      BY <2>2, <2>3, <3>3 DEF Begun, ByItsRule
    <3>5. Update(c, 1, u)
      BY <3>1, <3>2
    <3>6. sock[c] \in States \ {"none"} /\ sock' = [sock EXCEPT ![c] = sock[c]]
      BY <3>1, BusyFacts
    <3>7. Moves(c, {chain[c][1].id})
      BY <1>2, <1>7, <1>9, <3>1, <3>3, <3>4, <3>5, <3>6, HoldMoves
    <3> QED BY <2>1, <3>7
  <2>5. CASE ~Edits[edition].delay
    <3>1. WriteResponse(c, 1, started)
      BY <1>6, <1>9, <2>5
    <3>2. Moves(c, {chain[c][1].id})
      BY <1>2, <2>2, <2>3, <3>1, RespondMoves
    <3> QED BY <2>1, <3>2
  <2> QED BY <2>4, <2>5
<1>10. CASE sock[c] \in Live /\ t.kind # "end" /\ ~matched
  <2>1. WritePiece(c, 1, ErrorTask(t, code))
    BY <1>6, <1>10
  <2>2. code \in AnswerCodes
    BY <1>5 DEF AnswerCodes
  <2>3. PICK w : w = ErrorTask(t, code)
    OBVIOUS
  <2>4. /\ w \in TaskRecord /\ w.id = t.id /\ w.kind = t.kind /\ w.done = t.done
        /\ w.code = code /\ Units \in w.ends
    <3>1. PICK r : r \in RuleResponse
      <4>1. <<>> \in Seq(Nat \ {0}) /\ NoCut \in 0 .. NoCut
        BY DEF NoCut, Units
      <4>2. [delay |-> FALSE, sizes |-> <<>>, gap |-> FALSE, cut |-> NoCut,
             encodable |-> TRUE] \in RuleResponse
        BY <4>1 DEF RuleResponse
      <4> QED BY <4>2
    <3> QED BY <2>2, <2>3, <3>1, TaskForms
  <2>5. Writes(w, chain[c], wire[c], edition)
    BY <1>2, <1>5, <1>10, <2>4 DEF Writes
  <2>6. Moves(c, {})
    BY <1>5, <2>1, <2>3, <2>4, <2>5, WriteMoves
  <2>7. hits' = hits
    BY <1>6, <1>10 DEF RecordHit
  <2> QED BY <2>6, <2>7
<1> QED BY <1>8, <1>9, <1>10

\* The first task, if one has begun.
LEMMA FirstBegun ==
  ASSUME NEW c, Busy(c), NEW i \in DOMAIN chain[c], chain[c][i].at # "waiting"
  PROVE  /\ i = 1 /\ chain[c][1].kind # "end" /\ Begun(chain[c][1], wire[c], edition)
<1>1. i \in 1 .. Len(chain[c])
  BY BusyFacts, LenProperties
<1>2. i = 1
  <2>1. i > 1 => chain[c][i].at = "waiting"
    BY <1>1 DEF Busy, Served, Queued
  <2> QED BY <1>1, <2>1, BusyFacts
<1> QED BY <1>1, <1>2 DEF Busy, Served, Queued, HeadBegun

LEMMA DelayEndsMoves ==
  ASSUME NEW c, Busy(c), NEW i, DelayEnds(c, i)
  PROVE  Moves(c, {})
<1>1. /\ i = 1 /\ chain[c][1].kind # "end" /\ Begun(chain[c][1], wire[c], edition)
      /\ chain[c][1].at = "delaying"
  BY FirstBegun DEF DelayEnds
<1>2. PICK t \in TaskRecord : t = chain[c][1]
  BY BusyFacts
<1>3. CASE sock[c] \in Live
  <2>1. ByItsRule(c, t)
    BY <1>1, <1>2 DEF Begun, ByItsRule
  <2>2. WriteResponse(c, 1, t)
    BY <1>1, <1>2, <1>3 DEF DelayEnds
  <2>3. ByRule(t.id, chain[c], wire[c])
    BY <1>1, <1>2, <2>1 DEF ByRule, ByItsRule, Busy
  <2> QED BY <2>1, <2>2, <2>3, RespondMoves
<1>4. CASE sock[c] \notin Live
  <2>1. Drop(c, 1) /\ UNCHANGED <<sock, wire>>
    BY <1>1, <1>4 DEF DelayEnds
  <2>2. sock[c] # "open" /\ sock[c] \in States \ {"none"} /\ sock' = [sock EXCEPT ![c] = sock[c]]
    BY <1>4, <2>1, BusyFacts DEF Live
  <2> QED BY <2>1, <2>2, DropMoves
<1> QED BY <1>3, <1>4

\* The next piece of the first task.
LEMMA NextPieceMoves ==
  ASSUME NEW c, Busy(c), chain[c][1].at \in {"writing", "gap"}, ~chain[c][1].cut,
         chain[c][1].kind # "end", Begun(chain[c][1], wire[c], edition),
         WritePiece(c, 1, chain[c][1])
  PROVE  Moves(c, {})
<1>1. PICK t \in TaskRecord : t = chain[c][1]
  BY BusyFacts
<1>2. Writes(t, chain[c], wire[c], edition)
  BY <1>1 DEF Begun, Writes
<1>3. t.code = "rule" => ByRule(t.id, chain[c], wire[c])
  BY <1>1 DEF ByRule, Busy
<1> QED BY <1>1, <1>2, <1>3, WriteMoves

LEMMA WriteDoneMoves ==
  ASSUME NEW c, Busy(c), NEW i, WriteDone(c, i)
  PROVE  Moves(c, {})
<1>1. /\ i = 1 /\ chain[c][1].kind # "end" /\ Begun(chain[c][1], wire[c], edition)
      /\ chain[c][1].at = "writing"
  BY FirstBegun DEF WriteDone
<1>2. PICK t \in TaskRecord : t = chain[c][1]
  BY BusyFacts
<1>3. /\ t.kind # "end" /\ Begun(t, wire[c], edition) /\ t.at = "writing"
      /\ t.done \in 1 .. Units /\ t.ends \in SUBSET (1 .. Units)
      /\ ~t.cut => Units \in t.ends
  BY <1>1, <1>2 DEF Begun, TaskRecord, Units
<1>4. CASE t.cut
  <2>1. /\ Drop(c, 1)
        /\ sock' = IF sock[c] \in Live THEN [sock EXCEPT ![c] = "destroyed"] ELSE sock
        /\ UNCHANGED wire
    BY <1>1, <1>2, <1>4 DEF WriteDone
  <2>2. PICK s2 \in States \ {"none"} : s2 # "open" /\ sock' = [sock EXCEPT ![c] = s2]
    <3>1. CASE sock[c] \in Live
      BY <2>1, <3>1 DEF States
    <3>2. CASE sock[c] \notin Live
      BY <2>1, <3>2, BusyFacts DEF Live
    <3> QED BY <3>1, <3>2
  <2> QED BY <2>1, <2>2, DropMoves
<1>5. CASE ~t.cut /\ (Written(t) \/ sock[c] \notin Live)
  <2>1. Drop(c, 1) /\ UNCHANGED <<sock, wire>>
    BY <1>1, <1>2, <1>5 DEF WriteDone
  <2>2. sock[c] \in States \ {"none"} /\ sock' = [sock EXCEPT ![c] = sock[c]]
    BY <2>1, BusyFacts
  <2>3. sock[c] = "open" => t.done = Units
    <3>1. SUFFICES ASSUME sock[c] = "open", t.done # Units PROVE FALSE
      OBVIOUS
    <3>2. t.done = 1 /\ Units = 2
      BY <1>3, <3>1 DEF Units
    <3>3. 2 \in NextEnd(t.ends, t.done)
      BY <1>3, <1>5, <3>2 DEF NextEnd
    <3> QED BY <1>5, <3>1, <3>3 DEF Written, Live
  <2> QED BY <1>2, <1>3, <2>1, <2>2, <2>3, DropMoves
<1>6. CASE ~t.cut /\ ~Written(t) /\ sock[c] \in Live /\ t.gap
  <2>1. PICK u : u = [t EXCEPT !.at = "gap"]
    OBVIOUS
  <2>2. Update(c, 1, u) /\ UNCHANGED <<sock, wire>>
    BY <1>1, <1>2, <1>6, <2>1 DEF WriteDone
  <2>3. u \in TaskRecord
    BY <2>1, Zenon DEF TaskRecord
  <2>4. /\ u.id = t.id /\ u.kind = t.kind /\ u.done = t.done /\ u.code = t.code
        /\ u.edition = t.edition /\ u.at = "gap" /\ u.ends = t.ends
    BY <2>1 DEF TaskRecord
  <2>5. ~u.cut
    BY <1>6, <2>1, Zenon DEF TaskRecord
  <2>6. Begun(u, wire[c], edition)
    BY <1>3, <1>6, <2>4, <2>5 DEF Begun, Units
  <2>7. sock[c] \in States \ {"none"} /\ sock' = [sock EXCEPT ![c] = sock[c]]
    BY <2>2, BusyFacts
  <2>8. u.code = "rule" => ByRule(u.id, chain[c], wire[c])
    BY <1>2, <1>3, <2>4 DEF ByRule, Busy
  <2> QED BY <1>2, <1>3, <2>2, <2>3, <2>4, <2>6, <2>7, <2>8, HoldMoves
<1>7. CASE ~t.cut /\ ~Written(t) /\ sock[c] \in Live /\ ~t.gap
  <2>1. WritePiece(c, 1, t)
    BY <1>1, <1>2, <1>7 DEF WriteDone
  <2> QED BY <1>2, <1>3, <1>7, <2>1, NextPieceMoves
<1> QED BY <1>4, <1>5, <1>6, <1>7

LEMMA GapEndsMoves ==
  ASSUME NEW c, Busy(c), NEW i, GapEnds(c, i)
  PROVE  Moves(c, {})
<1>1. /\ i = 1 /\ chain[c][1].kind # "end" /\ Begun(chain[c][1], wire[c], edition)
      /\ chain[c][1].at = "gap"
  BY FirstBegun DEF GapEnds
<1>2. CASE sock[c] \in Live
  <2>1. WritePiece(c, 1, chain[c][1])
    BY <1>1, <1>2 DEF GapEnds
  <2>2. ~chain[c][1].cut
    BY <1>1 DEF Begun
  <2> QED BY <1>1, <2>1, <2>2, NextPieceMoves
<1>3. CASE sock[c] \notin Live
  <2>1. Drop(c, 1) /\ UNCHANGED <<sock, wire>>
    BY <1>1, <1>3 DEF GapEnds
  <2>2. sock[c] # "open" /\ sock[c] \in States \ {"none"} /\ sock' = [sock EXCEPT ![c] = sock[c]]
    BY <1>3, <2>1, BusyFacts DEF Live
  <2> QED BY <2>1, <2>2, DropMoves
<1> QED BY <1>2, <1>3

-----------------------------------------------------------------------------
(* All connections of the endpoint, and its hits.                           *)

\* The connection of a runner whose target is another service.
Stranger(s, it, po, ch, w, max) ==
  /\ s \in States /\ it = <<>> /\ po = FALSE /\ ch = <<>> /\ w \in Seq(Unit)
  /\ Ordered(w) /\ Len(w) <= Units * max
  /\ \A k \in 1 .. Len(w) : w[k].code \in {"other", "fault", "fatal"}

Good(c, s, it, po, ch, w, ed, mock) ==
  IF c = Runner /\ ~mock
    THEN Stranger(s, it, po, ch, w, MaxItems[c])
    ELSE Served(s, it, po, ch, w, ed) /\ Len(it) <= MaxItems[c]

Tables ==
  /\ sock \in [Conns -> States] /\ items \in [Conns -> Seq(Kinds)]
  /\ poisoned \in [Conns -> BOOLEAN] /\ chain \in [Conns -> Seq(TaskRecord)]
  /\ wire \in [Conns -> Seq(Unit)]

Endpoint ==
  /\ Tables
  /\ listener \in {"up", "closing", "down"} /\ edition \in 1 .. Len(Edits)
  /\ \A c \in Conns : Good(c, sock[c], items[c], poisoned[c], chain[c], wire[c], edition,
                           scenario.mock)

\* Among the answers counted by the hits are those a rule has begun.
HitsKept ==
  /\ hits \in Nat
  /\ \E P : /\ IsFiniteSet(P) /\ Cardinality(P) <= hits
            /\ \A c \in Conns : \A n : ByRule(n, chain[c], wire[c]) => <<c, n>> \in P

Sound == Endpoint /\ HitsKept
WireGrows == \A c \in Conns : Extends(wire'[c], wire[c])

LEMMA GoodTypes ==
  ASSUME NEW c \in Conns, NEW s, NEW it, NEW po, NEW ch, NEW w, NEW ed, NEW mock,
         Good(c, s, it, po, ch, w, ed, mock)
  PROVE  /\ s \in States /\ it \in Seq(Kinds) /\ po \in BOOLEAN
         /\ ch \in Seq(TaskRecord) /\ w \in Seq(Unit)
<1>1. CASE c = Runner /\ ~mock
  <2>1. Stranger(s, it, po, ch, w, MaxItems[c])
    BY <1>1 DEF Good
  <2>2. <<>> \in Seq(Kinds) /\ <<>> \in Seq(TaskRecord) /\ FALSE \in BOOLEAN
    OBVIOUS
  <2> QED BY <2>1, <2>2 DEF Stranger
<1>2. CASE ~(c = Runner /\ ~mock)
  BY <1>2 DEF Good, Served, Typed
<1> QED BY <1>1, <1>2

\* One connection changes.
LEMMA OneChanges ==
  ASSUME Endpoint, NEW c \in Conns, NEW s2, NEW it2, NEW po2, NEW ch2, NEW w2,
         sock' = [sock EXCEPT ![c] = s2], items' = [items EXCEPT ![c] = it2],
         poisoned' = [poisoned EXCEPT ![c] = po2], chain' = [chain EXCEPT ![c] = ch2],
         wire' = [wire EXCEPT ![c] = w2], UNCHANGED <<listener, edition, scenario>>,
         Good(c, s2, it2, po2, ch2, w2, edition, scenario.mock)
  PROVE  Endpoint'
<1>1. /\ s2 \in States /\ it2 \in Seq(Kinds) /\ po2 \in BOOLEAN
      /\ ch2 \in Seq(TaskRecord) /\ w2 \in Seq(Unit)
  BY GoodTypes
<1>2. Tables'
  BY <1>1 DEF Endpoint, Tables
<1>3. ASSUME NEW d \in Conns
      PROVE  Good(d, sock'[d], items'[d], poisoned'[d], chain'[d], wire'[d], edition,
                  scenario.mock)
  <2>1. CASE d = c
    <3>1. /\ sock'[c] = s2 /\ items'[c] = it2 /\ poisoned'[c] = po2
          /\ chain'[c] = ch2 /\ wire'[c] = w2
      BY DEF Endpoint, Tables
    <3> QED BY <2>1, <3>1
  <2>2. CASE d # c
    <3>1. /\ sock'[d] = sock[d] /\ items'[d] = items[d] /\ poisoned'[d] = poisoned[d]
          /\ chain'[d] = chain[d] /\ wire'[d] = wire[d]
      BY <2>2 DEF Endpoint, Tables
    <3> QED BY <3>1 DEF Endpoint
  <2> QED BY <2>1, <2>2
<1>4. UNCHANGED <<listener, edition, scenario>>
  OBVIOUS
<1> QED BY <1>2, <1>3, <1>4 DEF Endpoint

\* The hits keep up: a step begins at most one answer by a rule, and counts it.
LEMMA HitsStep ==
  ASSUME HitsKept, NEW c, NEW x,
         \A d \in Conns : \A n : ByRule(n, chain'[d], wire'[d]) =>
                               ByRule(n, chain[d], wire[d]) \/ (d = c /\ n \in x),
         \/ hits' = hits /\ x = {}
         \/ hits' = hits + 1 /\ \E n : x = {n}
  PROVE  HitsKept'
<1>1. PICK P : /\ IsFiniteSet(P) /\ Cardinality(P) <= hits
               /\ \A d \in Conns : \A n : ByRule(n, chain[d], wire[d]) => <<d, n>> \in P
  BY DEF HitsKept
<1>2. hits \in Nat /\ hits' \in Nat
  BY DEF HitsKept
<1>3. CASE hits' = hits /\ x = {}
  <2>1. /\ IsFiniteSet(P) /\ Cardinality(P) <= hits'
        /\ \A d \in Conns : \A n : ByRule(n, chain'[d], wire'[d]) => <<d, n>> \in P
    BY <1>1, <1>3
  <2> QED BY <1>2, <2>1 DEF HitsKept
<1>4. CASE hits' = hits + 1 /\ \E n : x = {n}
  <2>1. PICK m : x = {m}
    BY <1>4
  <2>2. PICK Q : Q = P \cup {<<c, m>>}
    OBVIOUS
  <2>3. /\ IsFiniteSet(Q)
        /\ Cardinality(Q) = IF <<c, m>> \in P THEN Cardinality(P) ELSE Cardinality(P) + 1
    BY <1>1, <2>2, FS_AddElement
  <2>4. Cardinality(P) \in Nat
    BY <1>1, FS_CardinalityType
  <2>5. Cardinality(Q) <= hits'
    BY <1>1, <1>2, <1>4, <2>3, <2>4
  <2>6. \A d \in Conns : \A n : ByRule(n, chain'[d], wire'[d]) => <<d, n>> \in Q
    BY <1>1, <2>1, <2>2
  <2> QED BY <1>2, <2>3, <2>5, <2>6 DEF HitsKept
<1> QED BY <1>3, <1>4

\* One connection changes, and with it at most one answer is begun.
LEMMA ConnectionStep ==
  ASSUME Sound, NEW c \in Conns, NEW s2, NEW it2, NEW po2, NEW ch2, NEW w2, NEW x,
         sock' = [sock EXCEPT ![c] = s2], items' = [items EXCEPT ![c] = it2],
         poisoned' = [poisoned EXCEPT ![c] = po2], chain' = [chain EXCEPT ![c] = ch2],
         wire' = [wire EXCEPT ![c] = w2], UNCHANGED <<listener, edition, scenario>>,
         Good(c, s2, it2, po2, ch2, w2, edition, scenario.mock),
         \A n : ByRule(n, ch2, w2) => ByRule(n, chain[c], wire[c]) \/ n \in x,
         Extends(w2, wire[c]),
         \/ hits' = hits /\ x = {}
         \/ hits' = hits + 1 /\ \E n : x = {n}
  PROVE  Sound' /\ WireGrows
<1>1. Endpoint'
  BY OneChanges DEF Sound
<1>2. ASSUME NEW d \in Conns
      PROVE  IF d = c THEN chain'[d] = ch2 /\ wire'[d] = w2
                      ELSE chain'[d] = chain[d] /\ wire'[d] = wire[d]
  BY DEF Sound, Endpoint, Tables
<1>3. HitsKept'
  <2>1. \A d \in Conns : \A n : ByRule(n, chain'[d], wire'[d]) =>
                              ByRule(n, chain[d], wire[d]) \/ (d = c /\ n \in x)
    BY <1>2
  <2> QED BY <2>1, HitsStep DEF Sound
<1>4. ASSUME NEW d \in Conns PROVE Extends(wire'[d], wire[d])
  <2>1. wire[d] \in Seq(Unit)
    BY DEF Sound, Endpoint, Tables
  <2>2. Len(wire[d]) <= Len(wire[d])
    BY <2>1, LenProperties
  <2> QED BY <1>2, <2>2 DEF Extends
<1> QED BY <1>1, <1>3, <1>4 DEF Sound, WireGrows

\* What one step of a task does to the whole.
LEMMA MovesStep ==
  ASSUME Sound, NEW c \in Conns, ~(c = Runner /\ ~scenario.mock), NEW x, Moves(c, x),
         UNCHANGED <<listener, items, poisoned, edition, scenario>>,
         \/ hits' = hits /\ x = {}
         \/ hits' = hits + 1 /\ \E n : x = {n}
  PROVE  Sound' /\ WireGrows
<1>1. PICK s2, ch2, w2 : MovesTo(c, s2, ch2, w2, x)
  BY DEF Moves
<1>2. items' = [items EXCEPT ![c] = items[c]] /\ poisoned' = [poisoned EXCEPT ![c] = poisoned[c]]
  BY DEF Sound, Endpoint, Tables
<1>3. Len(items[c]) <= MaxItems[c]
  BY DEF Sound, Endpoint, Good
<1>4. Good(c, s2, items[c], poisoned[c], ch2, w2, edition, scenario.mock)
  BY <1>1, <1>3 DEF MovesTo, Good
<1>5. /\ sock' = [sock EXCEPT ![c] = s2]
      /\ chain' = [chain EXCEPT ![c] = ch2]
      /\ wire' = [wire EXCEPT ![c] = w2]
      /\ Extends(w2, wire[c])
      /\ \A n : ByRule(n, ch2, w2) => ByRule(n, chain[c], wire[c]) \/ n \in x
  BY <1>1 DEF MovesTo
<1>6. UNCHANGED <<listener, edition, scenario>>
  OBVIOUS
<1> HIDE DEF Sound, Good, Extends, ByRule
<1> QED BY <1>2, <1>4, <1>5, <1>6, ConnectionStep

LEMMA TaskStep ==
  ASSUME Sound, NEW c \in Conns, MockStep(c), UNCHANGED scenario
  PROVE  Sound' /\ WireGrows
<1>1. PICK i \in DOMAIN chain[c] :
        Begin(c, i) \/ DelayEnds(c, i) \/ WriteDone(c, i) \/ GapEnds(c, i)
  BY DEF MockStep
<1>2. /\ Good(c, sock[c], items[c], poisoned[c], chain[c], wire[c], edition, scenario.mock)
      /\ Tables /\ edition \in 1 .. Len(Edits) /\ hits \in Nat
  BY DEF Sound, Endpoint, HitsKept
<1>3. Len(chain[c]) > 0 /\ chain[c] # <<>>
  <2>1. chain[c] \in Seq(TaskRecord)
    BY <1>2 DEF Tables
  <2> QED BY <1>1, <2>1, LenProperties
<1>4. ~(c = Runner /\ ~scenario.mock)
  BY <1>2, <1>3 DEF Good, Stranger
<1>5. Busy(c)
  BY <1>2, <1>3, <1>4 DEF Good, Busy, Tables
<1>6. UNCHANGED <<listener, items, poisoned, edition, scenario>>
  BY <1>1 DEF Begin, DelayEnds, WriteDone, GapEnds
<1>7. CASE Begin(c, i)
  BY <1>2, <1>4, <1>5, <1>6, <1>7, BeginMoves, MovesStep
<1>8. CASE DelayEnds(c, i)
  <2>1. hits' = hits
    BY <1>8 DEF DelayEnds
  <2> QED BY <1>4, <1>5, <1>6, <1>8, <2>1, DelayEndsMoves, MovesStep
<1>9. CASE WriteDone(c, i)
  <2>1. hits' = hits
    BY <1>9 DEF WriteDone
  <2> QED BY <1>4, <1>5, <1>6, <1>9, <2>1, WriteDoneMoves, MovesStep
<1>10. CASE GapEnds(c, i)
  <2>1. hits' = hits
    BY <1>10 DEF GapEnds
  <2> QED BY <1>4, <1>5, <1>6, <1>10, <2>1, GapEndsMoves, MovesStep
<1> QED BY <1>1, <1>7, <1>8, <1>9, <1>10

-----------------------------------------------------------------------------
(* What else happens to the connections.                                    *)

LEMMA ScenarioTypes ==
  ASSUME scenario \in Transmissions
  PROVE  /\ scenario.messages \in Seq(Kinds) /\ scenario.messages # <<>>
         /\ scenario.sizes \in Seq(Nat \ {0}) /\ scenario.count \in Nat
         /\ scenario.abort \in Nat /\ Len(scenario.messages) \in Nat \ {0}
         /\ Total(scenario) \in Nat \ {0}
<1>1. /\ scenario.messages \in Seq(Kinds) /\ scenario.messages # <<>>
      /\ scenario.sizes \in Seq(Nat \ {0}) /\ scenario.count \in Nat
      /\ scenario.abort \in Nat
  BY RunnerAssumption DEF Scenario
<1>2. Len(scenario.messages) \in Nat \ {0}
  BY <1>1, LenProperties, EmptySeq
<1> QED BY <1>1, <1>2 DEF Total, Units

\* The tables of a connection, as they are.
LEMMA AsItIs ==
  ASSUME Sound, NEW c \in Conns
  PROVE  /\ sock = [sock EXCEPT ![c] = sock[c]] /\ items = [items EXCEPT ![c] = items[c]]
         /\ poisoned = [poisoned EXCEPT ![c] = poisoned[c]]
         /\ chain = [chain EXCEPT ![c] = chain[c]] /\ wire = [wire EXCEPT ![c] = wire[c]]
         /\ wire[c] \in Seq(Unit) /\ Len(wire[c]) \in Nat /\ Extends(wire[c], wire[c])
         /\ edition \in Nat
         /\ Good(c, sock[c], items[c], poisoned[c], chain[c], wire[c], edition, scenario.mock)
<1>1. wire[c] \in Seq(Unit)
  BY DEF Sound, Endpoint, Tables
<1>2. Len(wire[c]) \in Nat /\ Len(wire[c]) <= Len(wire[c])
  BY <1>1, LenProperties
<1>3. edition \in Nat
  BY EditsAssumption, LenProperties DEF Sound, Endpoint
<1> QED BY <1>1, <1>2, <1>3 DEF Sound, Endpoint, Tables, Extends

LEMMA ReceiveStep ==
  ASSUME Sound, NEW c \in Conns, ~(c = Runner /\ ~scenario.mock), NEW kind \in Kinds,
         Receive(c, kind), UNCHANGED scenario
  PROVE  Sound' /\ WireGrows
<1>1. PICK it : it = items[c]
  OBVIOUS
<1>2. PICK ch : ch = chain[c]
  OBVIOUS
<1>3. PICK more : more = IF kind = "fatal"
                           THEN <<Task(kind, Len(it) + 1), Task("end", Len(it) + 1)>>
                           ELSE <<Task(kind, Len(it) + 1)>>
  OBVIOUS
<1>4. /\ sock[c] # "none" /\ ~poisoned[c] /\ Len(it) + 1 <= MaxItems[c]
      /\ items' = [items EXCEPT ![c] = Append(it, kind)]
      /\ chain' = [chain EXCEPT ![c] = ch \o more]
      /\ poisoned' = [poisoned EXCEPT ![c] = (kind = "fatal")]
      /\ UNCHANGED <<listener, sock, wire, edition, hits>>
  <2>1. /\ sock[c] # "none" /\ ~poisoned[c] /\ Len(it) + 1 <= MaxItems[c]
        /\ UNCHANGED <<listener, sock, wire, edition, hits>>
    BY <1>1 DEF Receive
  <2>2. items' = [items EXCEPT ![c] = Append(it, kind)]
    BY <1>1 DEF Receive, Sound, Endpoint, Tables
  <2>3. chain' = [chain EXCEPT ![c] = ch \o more]
    BY <1>1, <1>2, <1>3 DEF Receive, Sound, Endpoint, Tables
  <2>4. poisoned' = [poisoned EXCEPT ![c] = (kind = "fatal")]
    BY DEF Receive
  <2> QED BY <2>1, <2>2, <2>3, <2>4
<1>5. Served(sock[c], it, poisoned[c], ch, wire[c], edition) /\ it \in Seq(Kinds)
  BY <1>1, <1>2, AsItIs DEF Good, Sound, Endpoint, Tables
<1>6. /\ Served(sock[c], Append(it, kind), kind = "fatal", ch \o more, wire[c], edition)
      /\ \A n : ByRule(n, ch \o more, wire[c]) => ByRule(n, ch, wire[c])
  BY <1>3, <1>4, <1>5, AsItIs, ReceiveIsSound
<1>7. Len(Append(it, kind)) = Len(it) + 1
  BY <1>5, AppendProperties
<1>8. Good(c, sock[c], Append(it, kind), kind = "fatal", ch \o more, wire[c], edition,
           scenario.mock)
  BY <1>4, <1>6, <1>7 DEF Good
<1>9. /\ sock' = [sock EXCEPT ![c] = sock[c]] /\ wire' = [wire EXCEPT ![c] = wire[c]]
      /\ Extends(wire[c], wire[c])
  BY <1>4, AsItIs
<1> HIDE DEF Sound, Good, Extends, ByRule
<1> QED BY <1>2, <1>4, <1>6, <1>8, <1>9, ConnectionStep

\* A connection is made, or ends.
LEMMA SockStep ==
  ASSUME Sound, NEW c \in Conns, NEW s2 \in States \ {"none"},
         s2 = "open" => sock[c] \in {"none", "open"}, sock' = [sock EXCEPT ![c] = s2],
         UNCHANGED <<listener, items, poisoned, chain, wire, edition, hits, scenario>>
  PROVE  Sound' /\ WireGrows
<1>1. /\ Good(c, sock[c], items[c], poisoned[c], chain[c], wire[c], edition, scenario.mock)
      /\ edition \in Nat
  BY AsItIs
<1>2. Good(c, s2, items[c], poisoned[c], chain[c], wire[c], edition, scenario.mock)
  <2>1. CASE c = Runner /\ ~scenario.mock
    BY <1>1, <2>1 DEF Good, Stranger
  <2>2. CASE ~(c = Runner /\ ~scenario.mock)
    <3>1. Served(sock[c], items[c], poisoned[c], chain[c], wire[c], edition)
      BY <1>1, <2>2 DEF Good
    <3>2. Served(s2, items[c], poisoned[c], chain[c], wire[c], edition)
      BY <1>1, <3>1, SockIsSound
    <3> QED BY <1>1, <2>2, <3>2 DEF Good
  <2> QED BY <2>1, <2>2
<1>3. /\ items' = [items EXCEPT ![c] = items[c]]
      /\ poisoned' = [poisoned EXCEPT ![c] = poisoned[c]]
      /\ chain' = [chain EXCEPT ![c] = chain[c]] /\ wire' = [wire EXCEPT ![c] = wire[c]]
      /\ Extends(wire[c], wire[c])
  BY AsItIs
<1> HIDE DEF Sound, Good, Extends, ByRule
<1> QED BY <1>2, <1>3, ConnectionStep

\* Nothing is written, and no answer begins.
LEMMA QuietStep ==
  ASSUME Sound, Endpoint', UNCHANGED <<chain, wire, hits>>
  PROVE  Sound' /\ WireGrows
<1>1. HitsKept'
  BY DEF Sound, HitsKept
<1>2. WireGrows
  BY AsItIs DEF WireGrows
<1> QED BY <1>1, <1>2 DEF Sound

LEMMA EditStep ==
  ASSUME Sound, EditRule, scenario.mock, UNCHANGED scenario
  PROVE  Sound' /\ WireGrows
<1>1. /\ edition' = edition + 1 /\ edition' \in 1 .. Len(Edits)
      /\ UNCHANGED <<listener, sock, items, poisoned, chain, wire, hits>>
  <2>1. Len(Edits) \in Nat
    BY EditsAssumption, LenProperties
  <2> QED BY <2>1 DEF EditRule, Sound, Endpoint
<1>2. ASSUME NEW c \in Conns
      PROVE  Good(c, sock[c], items[c], poisoned[c], chain[c], wire[c], edition + 1,
                  scenario.mock)
  <2>1. Served(sock[c], items[c], poisoned[c], chain[c], wire[c], edition) /\ edition \in Nat
    BY AsItIs DEF Good
  <2>2. Served(sock[c], items[c], poisoned[c], chain[c], wire[c], edition + 1)
    BY <2>1, EditIsSound
  <2> QED BY <2>2, AsItIs DEF Good
<1>3. Endpoint'
  BY <1>1, <1>2 DEF Sound, Endpoint, Tables
<1> QED BY <1>1, <1>3, QuietStep

LEMMA CloseStep ==
  ASSUME Sound, CloseEndpoint, scenario.mock, UNCHANGED scenario
  PROVE  Sound' /\ WireGrows
<1>1. /\ listener' = "closing"
      /\ sock' = [c \in Conns |-> IF sock[c] \in Live THEN "destroyed" ELSE sock[c]]
      /\ UNCHANGED <<items, poisoned, chain, wire, edition, hits>>
  BY DEF CloseEndpoint
<1>2. Tables'
  BY <1>1 DEF Sound, Endpoint, Tables, States, Live
<1>3. ASSUME NEW c \in Conns
      PROVE  Good(c, sock'[c], items[c], poisoned[c], chain[c], wire[c], edition, scenario.mock)
  <2>1. Served(sock[c], items[c], poisoned[c], chain[c], wire[c], edition) /\ edition \in Nat
    BY AsItIs DEF Good
  <2>2. sock'[c] = IF sock[c] \in Live THEN "destroyed" ELSE sock[c]
    BY <1>1
  <2>3. Served(sock'[c], items[c], poisoned[c], chain[c], wire[c], edition)
    <3>1. CASE sock[c] \in Live
      BY <2>1, <2>2, <3>1, SockIsSound DEF States
    <3>2. CASE sock[c] \notin Live
      BY <2>1, <2>2, <3>2
    <3> QED BY <3>1, <3>2
  <2> QED BY <2>3, AsItIs DEF Good
<1>4. Endpoint'
  BY <1>1, <1>2, <1>3 DEF Sound, Endpoint
<1> QED BY <1>1, <1>4, QuietStep

LEMMA StrangerStep ==
  ASSUME Sound, NEW code \in {"other", "fault", "fatal"}, NEW n \in 1 .. Units,
         StrangerWrites(code, n), scenario \in Transmissions
  PROVE  Sound' /\ WireGrows
<1>1. PICK w : w = wire[Runner]
  OBVIOUS
<1>2. PICK more : more = [k \in 1 .. n |-> [to |-> 1 + Len(w) \div Units, part |-> k,
                                            code |-> code, edition |-> 0]]
  OBVIOUS
<1>3. Runner \in Conns /\ MaxItems[Runner] \in Nat
  BY RunnerAssumption, EditsAssumption
<1>4. /\ ~scenario.mock /\ Len(w) % Units = 0 /\ Len(w) < Units * MaxItems[Runner]
      /\ wire' = [wire EXCEPT ![Runner] = w \o more]
      /\ UNCHANGED <<listener, sock, items, poisoned, chain, edition, hits, scenario>>
  <2>1. wire' = [wire EXCEPT ![Runner] = w \o more]
    BY <1>1, <1>2, <1>3 DEF StrangerWrites, Sound, Endpoint, Tables
  <2> QED BY <1>1, <2>1 DEF StrangerWrites, runVars
<1>5. /\ Stranger(sock[Runner], items[Runner], poisoned[Runner], chain[Runner], w,
                  MaxItems[Runner])
      /\ w \in Seq(Unit) /\ Len(w) \in Nat
  BY <1>1, <1>3, <1>4, AsItIs DEF Good
<1>6. PICK id \in Nat : id = 1 + Len(w) \div Units /\ Len(w) = Units * (id - 1)
  BY <1>4, <1>5 DEF Units
<1>7. more \in Seq(Unit) /\ Len(more) = n
  <2>1. \A k \in 1 .. n : [to |-> id, part |-> k, code |-> code, edition |-> 0] \in Unit
    BY DEF Unit, Units
  <2>2. more = [k \in 1 .. n |-> [to |-> id, part |-> k, code |-> code, edition |-> 0]]
    BY <1>2, <1>6
  <2> QED BY <2>1, <2>2, IsASeq DEF Units
<1>8. PICK v : v = w \o more
  OBVIOUS
<1>9. /\ v \in Seq(Unit) /\ Len(v) = Len(w) + n
      /\ \A k \in 1 .. Len(w) + n : v[k] = IF k <= Len(w) THEN w[k] ELSE more[k - Len(w)]
  BY <1>5, <1>7, <1>8, ConcatProperties
<1>10. \A k \in 1 .. Len(w) : v[k] = w[k]
  BY <1>5, <1>9 DEF Units
<1>11. ASSUME NEW k \in 1 .. Len(v), k \notin 1 .. Len(w)
       PROVE  v[k].to = id /\ v[k].part = k - Len(w) /\ v[k].code = code
  <2>1. k - Len(w) \in 1 .. n /\ ~(k <= Len(w)) /\ k \in 1 .. Len(w) + n
    BY <1>5, <1>9, <1>11 DEF Units
  <2>2. v[k] = more[k - Len(w)]
    BY <1>9, <2>1
  <2>3. PICK u : u = more[k - Len(w)]
    OBVIOUS
  <2>4. u = [to |-> id, part |-> k - Len(w), code |-> code, edition |-> 0]
    BY <1>2, <1>6, <2>1, <2>3
  <2>5. u.to = id /\ u.part = k - Len(w) /\ u.code = code
    BY <2>4
  <2> QED BY <2>2, <2>3, <2>5
<1>12. Ordered(v)
  <2>1. ASSUME NEW k \in 1 .. Len(v) PROVE k = Units * (v[k].to - 1) + v[k].part
    <3>1. CASE k \in 1 .. Len(w)
      BY <1>5, <1>10, <3>1 DEF Stranger, Ordered
    <3>2. CASE k \notin 1 .. Len(w)
      <4>1. v[k].to = id /\ v[k].part = k - Len(w)
        BY <1>11, <3>2
      <4>2. k = Units * (id - 1) + (k - Len(w))
        BY <1>5, <1>6 DEF Units
      <4> QED BY <4>1, <4>2
    <3> QED BY <3>1, <3>2
  <2> QED BY <2>1 DEF Ordered
<1>13. Len(v) <= Units * MaxItems[Runner]
  BY <1>3, <1>4, <1>5, <1>6, <1>9 DEF Units
<1>14. \A k \in 1 .. Len(v) : v[k].code \in {"other", "fault", "fatal"}
  BY <1>5, <1>10, <1>11 DEF Stranger
<1>15. Good(Runner, sock[Runner], items[Runner], poisoned[Runner], chain[Runner], v, edition,
            scenario.mock)
  BY <1>4, <1>5, <1>9, <1>12, <1>13, <1>14 DEF Good, Stranger
<1>16. Extends(v, w)
  BY <1>5, <1>9, <1>10 DEF Extends, Units
<1>17. \A m : ByRule(m, chain[Runner], v) => ByRule(m, chain[Runner], w)
  <2>1. Len(chain[Runner]) = 0
    BY <1>5 DEF Stranger
  <2> QED BY <1>14, <2>1 DEF ByRule
<1>18. /\ sock' = [sock EXCEPT ![Runner] = sock[Runner]]
       /\ items' = [items EXCEPT ![Runner] = items[Runner]]
       /\ poisoned' = [poisoned EXCEPT ![Runner] = poisoned[Runner]]
       /\ chain' = [chain EXCEPT ![Runner] = chain[Runner]]
       /\ wire' = [wire EXCEPT ![Runner] = v]
  BY <1>3, <1>4, <1>8, AsItIs
<1> HIDE DEF Sound, Good, Extends, ByRule
<1> QED BY <1>1, <1>3, <1>4, <1>15, <1>16, <1>17, <1>18, ConnectionStep

-----------------------------------------------------------------------------
(* The exchange of the runner.                                              *)

LEMMA LeastOfSet ==
  ASSUME NEW S \in SUBSET Nat, S # {}
  PROVE  Min(S) \in S /\ \A y \in S : Min(S) <= y
<1>1. PICK T : T = {S \cap (0 .. n) : n \in S}
  OBVIOUS
<1>2. PICK R : R = StrictSubsetOrdering(Nat)
  OBVIOUS
<1>3. T \subseteq FiniteSubsetsOf(Nat)
  <2>1. ASSUME NEW n \in S
        PROVE  IsFiniteSet(S \cap (0 .. n)) /\ S \cap (0 .. n) \in SUBSET Nat
    <3>1. IsFiniteSet(0 .. n)
      BY FS_Interval
    <3> QED BY <3>1, FS_Subset
  <2> QED BY <1>1, <2>1 DEF FiniteSubsetsOf
<1>4. PICK X \in T : \A Y \in T : <<Y, X>> \notin R
  <2>1. PICK F : F = FiniteSubsetsOf(Nat)
    OBVIOUS
  <2>2. IsWellFoundedOn(R, F)
    BY <1>2, <2>1, FS_StrictSubsetOrderingWellFounded
  <2>3. T \subseteq F /\ T # {}
    BY <1>1, <1>3, <2>1
  <2> QED BY <2>2, <2>3, WFMin
<1>5. PICK n \in S : X = S \cap (0 .. n)
  BY <1>1
<1>6. ASSUME NEW y \in S PROVE n <= y
  <2>1. SUFFICES ASSUME y < n PROVE FALSE
    OBVIOUS
  <2>2. PICK Y : Y = S \cap (0 .. y)
    OBVIOUS
  <2>3. Y \in T /\ Y \in SUBSET Nat /\ X \in SUBSET Nat
    BY <1>1, <1>5, <2>2
  <2>4. Y \subseteq X /\ n \in X /\ n \notin Y
    BY <1>5, <2>1, <2>2
  <2> QED BY <1>2, <1>4, <2>3, <2>4 DEF StrictSubsetOrdering
<1> QED BY <1>6 DEF Min

\* What remains to be written has a next piece, and nothing else has.
LEMMA NextEndExists ==
  ASSUME NEW n \in Nat, NEW ends \in SUBSET (1 .. n), n \in ends, NEW done \in Nat
  PROVE  NextEnd(ends, done) = {} <=> done >= n
<1>1. PICK S : S = {e \in ends : e > done}
  OBVIOUS
<1>2. \A e \in ends : e \in Nat /\ e <= n
  <2>1. \A e \in 1 .. n : e \in Nat /\ e <= n
    OBVIOUS
  <2> QED BY <2>1
<1>3. CASE done >= n
  <2>1. ASSUME NEW e \in NextEnd(ends, done) PROVE FALSE
    <3>1. e \in ends /\ e > done
      BY DEF NextEnd
    <3> QED BY <1>2, <1>3, <3>1
  <2> QED BY <1>3, <2>1
<1>4. CASE ~(done >= n)
  <2>1. n > done
    BY <1>4
  <2>2. S \in SUBSET Nat /\ n \in S
    BY <1>1, <1>2, <2>1
  <2>3. Min(S) \in S /\ \A y \in S : Min(S) <= y
    BY <2>2, LeastOfSet
  <2>4. Min(S) \in NextEnd(ends, done)
    BY <1>1, <2>3 DEF NextEnd
  <2> QED BY <1>4, <2>4
<1> QED BY <1>3, <1>4

LEMMA PlanReachesTheEnd ==
  ASSUME scenario \in Transmissions
  PROVE  /\ PlanWrites(scenario) \in SUBSET (1 .. Total(scenario))
         /\ Total(scenario) \in PlanWrites(scenario)
<1>1. Total(scenario) \in Nat \ {0}
  BY ScenarioTypes
<1>2. \A sizes : /\ SplitBuffer(Total(scenario), sizes) \in SUBSET (1 .. Total(scenario))
                 /\ Total(scenario) \in SplitBuffer(Total(scenario), sizes)
  BY <1>1 DEF SplitBuffer, Sums
<1>3. /\ SplitIntoParts(Total(scenario), scenario.count) \in SUBSET (1 .. Total(scenario))
      /\ Total(scenario) \in SplitIntoParts(Total(scenario), scenario.count)
  BY <1>2 DEF SplitIntoParts
<1> QED BY <1>1, <1>2, <1>3 DEF PlanWrites

\* The next chunk ends within the payload.
LEMMA NextChunk ==
  ASSUME scenario \in Transmissions, up \in 0 .. Total(scenario)
  PROVE  /\ \A end \in NextEnd(PlanWrites(scenario), up) : end \in 1 .. Total(scenario) /\ end > up
         /\ NextEnd(PlanWrites(scenario), up) = {} <=> up = Total(scenario)
<1>1. Total(scenario) \in Nat
  BY ScenarioTypes
<1>2. NextEnd(PlanWrites(scenario), up) = {} <=> up >= Total(scenario)
  BY <1>1, PlanReachesTheEnd, NextEndExists
<1> QED BY <1>1, <1>2, PlanReachesTheEnd DEF NextEnd

\* The responses that are complete in the first n units of w.
Whole(w, n) ==
  {k \in 1 .. n : /\ w[k].part = Units /\ w[k].code # "fault"
                  /\ ~\E j \in 1 .. k : w[j].code = "fatal"}
First(w, n) == IF Whole(w, n) = {} THEN <<>> ELSE <<w[Min(Whole(w, n))]>>

\* Result o is what was observed in the first n units of w.
Told(o, w, n, sg, wr, expected) ==
  /\ o.response = First(w, n) /\ o.responses = Cardinality(Whole(w, n))
  /\ o.timedOut <=> o.why = "timeout" /\ Whole(w, n) = {}
  /\ o.disconnected <=> o.why = "close" /\ Cardinality(Whole(w, n)) < expected
  /\ o.why \in {"refused", "failure", "timeout", "fatal", "enough", "close"}
  /\ o.why = "refused" => Whole(w, n) = {}
  /\ o.why = "enough" => Cardinality(Whole(w, n)) >= expected
  /\ wr = "writing" => SentCount(sg) = o.sentSegments

RunTypes ==
  /\ scenario \in Transmissions
  /\ phase \in {"connecting", "open", "aborted", "settled"}
  /\ writer \in {"ready", "writing", "paused", "done"}
  /\ up \in 0 .. Total(scenario)
  /\ segments \in Seq({"sent", "received"}) /\ fault \in BOOLEAN
  /\ result = <<>> <=> phase # "settled"

Reading == got \in 0 .. Len(wire[Runner])

Sending ==
  /\ up <= scenario.abort
  /\ phase = "connecting" => writer = "ready" /\ got = 0
  /\ phase = "aborted" => up = scenario.abort /\ writer = "done"
  /\ phase = "open" /\ writer = "done" => up = Total(scenario)
  /\ writer \in {"ready", "paused"} => up < Total(scenario)

Decided ==
  result # <<>> => Told(result[1], wire[Runner], got, segments, writer,
                        ExpectedResponses(scenario))

RunInv == RunTypes /\ Reading /\ Sending /\ Decided
Inv == Sound /\ RunInv

\* What was read does not depend on what is written later.
LEMMA ReadStays ==
  ASSUME NEW w, NEW w2, Extends(w2, w), NEW n \in Nat, Len(w) \in Nat, n <= Len(w)
  PROVE  Whole(w2, n) = Whole(w, n) /\ First(w2, n) = First(w, n)
<1>1. \A k \in 1 .. n : w2[k] = w[k]
  BY DEF Extends
<1>2. Whole(w2, n) = Whole(w, n)
  BY <1>1 DEF Whole
<1>3. First(w2, n) = First(w, n)
  <2>1. CASE Whole(w, n) = {}
    BY <1>2, <2>1 DEF First
  <2>2. CASE Whole(w, n) # {}
    <3>1. Whole(w, n) \in SUBSET Nat
      BY DEF Whole
    <3>2. Min(Whole(w, n)) \in 1 .. n
      BY <2>2, <3>1, LeastOfSet DEF Whole
    <3>3. w2[Min(Whole(w, n))] = w[Min(Whole(w, n))]
      BY <1>1, <3>2
    <3> QED BY <1>2, <2>2, <3>3 DEF First
  <2> QED BY <2>1, <2>2
<1> QED BY <1>2, <1>3

\* The endpoint, or what stands for it, makes a step on its own.
LEMMA EndpointOnly ==
  ASSUME Inv, Sound', WireGrows, UNCHANGED runVars
  PROVE  Inv'
<1>1. Runner \in Conns
  BY RunnerAssumption
<1>2. /\ wire[Runner] \in Seq(Unit) /\ Len(wire[Runner]) \in Nat
      /\ wire'[Runner] \in Seq(Unit) /\ Len(wire'[Runner]) \in Nat
  BY <1>1, LenProperties DEF Inv, Sound, Endpoint, Tables
<1>3. Extends(wire'[Runner], wire[Runner])
  BY <1>1 DEF WireGrows
<1>4. Reading'
  BY <1>2, <1>3 DEF Inv, RunInv, Reading, Extends, runVars
<1>5. /\ Whole(wire'[Runner], got) = Whole(wire[Runner], got)
      /\ First(wire'[Runner], got) = First(wire[Runner], got)
  <2>1. got \in Nat /\ got <= Len(wire[Runner])
    BY <1>2 DEF Inv, RunInv, Reading
  <2> QED BY <1>2, <1>3, <2>1, ReadStays
<1>6. Decided'
  <2>1. SUFFICES ASSUME result # <<>>
                 PROVE  Told(result[1], wire'[Runner], got, segments, writer,
                             ExpectedResponses(scenario))
    BY DEF Decided, runVars, ExpectedResponses
  <2>2. Told(result[1], wire[Runner], got, segments, writer, ExpectedResponses(scenario))
    BY <2>1 DEF Inv, RunInv, Decided
  <2> QED BY <1>5, <2>2 DEF Told
<1>7. RunTypes' /\ Sending'
  BY DEF Inv, RunInv, RunTypes, Sending, runVars, Total
<1> QED BY <1>4, <1>6, <1>7 DEF Inv, RunInv

\* The runner makes a step on its own.
LEMMA RunnerOnly ==
  ASSUME Inv, UNCHANGED <<mockVars, scenario>>
  PROVE  Sound'
<1>1. UNCHANGED <<listener, sock, items, poisoned, chain, wire, edition, hits, scenario>>
  BY DEF mockVars
<1>2. Endpoint'
  BY <1>1 DEF Inv, Sound, Endpoint, Tables
<1> QED BY <1>1, <1>2, QuietStep DEF Inv

LEMMA FinishTells ==
  ASSUME Inv, NEW why \in {"failure", "timeout", "fatal", "enough", "close"}, NEW n, NEW error,
         Finish(why, n, error),
         why = "enough" => Cardinality(CompleteIn(n)) >= ExpectedResponses(scenario)
  PROVE  /\ result = <<>> /\ result' # <<>> /\ phase # "settled" /\ phase' = "settled"
         /\ Told(result'[1], wire[Runner], n, segments, writer, ExpectedResponses(scenario))
<1>1. PICK o : o = Observed(why, n, error)
  OBVIOUS
<1>2. result = <<>> /\ phase' = "settled" /\ result' = <<o>>
  BY <1>1 DEF Finish
<1>3. CompleteIn(n) = Whole(wire[Runner], n)
  BY DEF CompleteIn, FatalIn, Whole
<1>4. /\ o.response = First(wire[Runner], n) /\ o.why = why
      /\ o.responses = Cardinality(Whole(wire[Runner], n))
      /\ o.sentSegments = SentCount(segments)
  BY <1>1, <1>3 DEF Observed, First
<1>5. o.timedOut <=> why = "timeout" /\ Whole(wire[Runner], n) = {}
  BY <1>1, <1>3, Zenon DEF Observed
<1>6. o.disconnected <=>
        why = "close" /\ Cardinality(Whole(wire[Runner], n)) < ExpectedResponses(scenario)
  BY <1>1, <1>3, Zenon DEF Observed
<1>7. Told(o, wire[Runner], n, segments, writer, ExpectedResponses(scenario))
  BY <1>3, <1>4, <1>5, <1>6 DEF Told
<1>8. result' # <<>> /\ result'[1] = o
  BY <1>2
<1>9. phase # "settled"
  BY <1>2 DEF Inv, RunInv, RunTypes
<1> QED BY <1>2, <1>7, <1>8, <1>9

\* An event that ends the exchange without reading more.
LEMMA EndsWithoutReading ==
  ASSUME Inv, NEW why \in {"failure", "timeout", "close"}, NEW error, Finish(why, got, error),
         UNCHANGED <<mockVars, scenario, writer, up, segments, got>>, fault' \in BOOLEAN
  PROVE  Inv'
<1>1. /\ result' # <<>> /\ phase' = "settled"
      /\ Told(result'[1], wire[Runner], got, segments, writer, ExpectedResponses(scenario))
  BY FinishTells
<1>2. UNCHANGED <<wire, scenario, writer, up, segments, got>>
  BY DEF mockVars
<1>3. RunTypes' /\ Reading' /\ Sending'
  BY <1>1, <1>2 DEF Inv, RunInv, RunTypes, Reading, Sending, Total
<1>4. Decided'
  BY <1>1, <1>2 DEF Decided, ExpectedResponses
<1> QED BY <1>3, <1>4, RunnerOnly DEF Inv, RunInv

LEMMA SentCountStays ==
  ASSUME NEW s \in Seq({"sent", "received"})
  PROVE  SentCount(Append(s, "received")) = SentCount(s)
<1>1. Len(s) \in Nat /\ DOMAIN s = 1 .. Len(s)
  BY LenProperties
<1>2. PICK t : t = Append(s, "received")
  OBVIOUS
<1>3. /\ DOMAIN t = 1 .. Len(s) + 1 /\ t[Len(s) + 1] = "received"
      /\ \A k \in 1 .. Len(s) : t[k] = s[k]
  BY <1>1, <1>2, AppendProperties, LenProperties
<1>4. \A k : k \in DOMAIN t /\ t[k] = "sent" <=> k \in DOMAIN s /\ s[k] = "sent"
  <2>1. \A k \in DOMAIN t : k = Len(s) + 1 \/ k \in 1 .. Len(s)
    BY <1>1, <1>3
  <2>2. \A k \in 1 .. Len(s) : k \in DOMAIN t
    BY <1>1, <1>3
  <2> QED BY <1>1, <1>3, <2>1, <2>2
<1>5. {k \in DOMAIN t : t[k] = "sent"} = {k \in DOMAIN s : s[k] = "sent"}
  BY <1>4
<1> QED BY <1>2, <1>5 DEF SentCount

LEMMA DataStep ==
  ASSUME Inv, NEW n, Data(n)
  PROVE  Inv'
<1>1. /\ phase = "open" /\ n \in got + 1 .. Len(wire[Runner]) /\ got' = n
      /\ IF FatalIn(n) \/ Cardinality(CompleteIn(n)) >= ExpectedResponses(scenario)
           THEN Finish(IF FatalIn(n) THEN "fatal" ELSE "enough", n, fault')
           ELSE UNCHANGED <<phase, result>>
      /\ segments' = Append(segments, "received")
      /\ UNCHANGED <<mockVars, scenario, writer, up>>
  BY DEF Data
<1>2. fault' \in BOOLEAN
  BY DEF Data
<1>3. UNCHANGED <<wire, scenario, writer, up>>
  BY <1>1 DEF mockVars
<1>4. segments' \in Seq({"sent", "received"}) /\ SentCount(segments') = SentCount(segments)
  BY <1>1, AppendProperties, SentCountStays DEF Inv, RunInv, RunTypes
<1>5. Reading'
  <2>1. wire[Runner] \in Seq(Unit) /\ Len(wire[Runner]) \in Nat /\ got \in Nat
    BY RunnerAssumption, AsItIs DEF Inv, RunInv, Reading
  <2> QED BY <1>1, <1>3, <2>1 DEF Reading
<1>6. CASE FatalIn(n) \/ Cardinality(CompleteIn(n)) >= ExpectedResponses(scenario)
  <2>1. PICK why \in {"fatal", "enough"} :
          /\ Finish(why, n, fault')
          /\ why = "enough" => Cardinality(CompleteIn(n)) >= ExpectedResponses(scenario)
    <3>1. CASE FatalIn(n)
      BY <1>1, <3>1
    <3>2. CASE ~FatalIn(n)
      BY <1>1, <1>6, <3>2
    <3> QED BY <3>1, <3>2
  <2>2. /\ result' # <<>> /\ phase' = "settled"
        /\ Told(result'[1], wire[Runner], n, segments, writer, ExpectedResponses(scenario))
    BY <2>1, FinishTells
  <2>3. RunTypes' /\ Sending'
    BY <1>2, <1>3, <1>4, <2>2 DEF Inv, RunInv, RunTypes, Sending, Total
  <2>4. Told(result'[1], wire[Runner], n, segments', writer, ExpectedResponses(scenario))
    BY <1>4, <2>2 DEF Told
  <2>5. Decided'
    BY <1>1, <1>3, <2>4 DEF Decided, ExpectedResponses
  <2> QED BY <1>1, <1>5, <2>3, <2>5, RunnerOnly DEF Inv, RunInv
<1>7. CASE ~(FatalIn(n) \/ Cardinality(CompleteIn(n)) >= ExpectedResponses(scenario))
  <2>1. phase = "open" /\ UNCHANGED <<phase, result>>
    BY <1>1, <1>7
  <2>2. RunTypes' /\ Sending'
    BY <1>2, <1>3, <1>4, <2>1 DEF Inv, RunInv, RunTypes, Sending, Total
  <2>3. result' = <<>>
    BY <1>1, <2>1 DEF Inv, RunInv, RunTypes
  <2> QED BY <1>1, <1>5, <2>2, <2>3, RunnerOnly DEF Inv, RunInv, Decided
<1> QED BY <1>6, <1>7

\* The loop over the chunks.
LEMMA LoopStep ==
  ASSUME Inv, UNCHANGED <<mockVars, scenario, got, fault, result>>,
         RunTypes', Sending',
         result # <<>> => writer' # "writing"
  PROVE  Inv'
<1>1. UNCHANGED <<wire, scenario, got, result>>
  BY DEF mockVars
<1>2. Reading'
  BY <1>1 DEF Inv, RunInv, Reading
<1>3. Decided'
  BY <1>1 DEF Inv, RunInv, Decided, Told, ExpectedResponses
<1> QED BY <1>2, <1>3, RunnerOnly DEF Inv, RunInv

LEMMA PutStep ==
  ASSUME Inv, phase = "open", writer \in {"ready", "paused"}, PutChunk,
         UNCHANGED <<mockVars, scenario, segments, got, fault, result>>
  PROVE  Inv'
<1>1. /\ scenario \in Transmissions /\ up \in 0 .. Total(scenario) /\ up <= scenario.abort
      /\ scenario.abort \in Nat /\ Total(scenario) \in Nat /\ result = <<>>
  BY ScenarioTypes DEF Inv, RunInv, RunTypes, Sending
<1>2. CASE scenario.abort <= up
  <2>1. phase' = "aborted" /\ writer' = "done" /\ UNCHANGED up
    BY <1>2 DEF PutChunk
  <2>2. RunTypes'
    BY <1>1, <2>1 DEF Inv, RunInv, RunTypes, Total
  <2>3. Sending'
    BY <1>1, <1>2, <2>1 DEF Sending
  <2> QED BY <1>1, <2>2, <2>3, LoopStep
<1>3. CASE ~(scenario.abort <= up)
  <2>1. PICK end \in NextEnd(PlanWrites(scenario), up) :
          /\ up' = IF scenario.abort < end THEN scenario.abort ELSE end
          /\ writer' = "writing"
          /\ UNCHANGED phase
    BY <1>3 DEF PutChunk
  <2>2. end \in 1 .. Total(scenario)
    BY <1>1, NextChunk
  <2>3. up' \in 0 .. Total(scenario) /\ up' <= scenario.abort
    BY <1>1, <2>1, <2>2
  <2>4. RunTypes'
    BY <1>1, <2>1, <2>3 DEF Inv, RunInv, RunTypes, Total
  <2>5. Sending'
    BY <1>1, <2>1, <2>3 DEF Sending
  <2> QED BY <1>1, <2>4, <2>5, LoopStep
<1> QED BY <1>2, <1>3

LEMMA WriteChunkStep ==
  ASSUME Inv, WriteChunk
  PROVE  Inv'
<1>1. CASE up > 0 /\ scenario.pause
  <2>1. /\ writer' = "paused"
        /\ UNCHANGED <<mockVars, scenario, phase, up, segments, got, fault, result>>
    BY <1>1 DEF WriteChunk
  <2>2. RunTypes' /\ Sending'
    BY <2>1 DEF Inv, RunInv, RunTypes, Sending, Total, WriteChunk
  <2> QED BY <2>1, <2>2, LoopStep
<1>2. CASE ~(up > 0 /\ scenario.pause)
  BY <1>2, PutStep DEF WriteChunk
<1> QED BY <1>1, <1>2

LEMMA PauseEndsStep ==
  ASSUME Inv, PauseEnds
  PROVE  Inv'
<1>1. CASE phase = "open"
  BY <1>1, PutStep DEF PauseEnds
<1>2. CASE phase # "open"
  <2>1. /\ writer = "paused" /\ writer' = "done"
        /\ UNCHANGED <<mockVars, scenario, phase, up, segments, got, fault, result>>
    BY <1>2 DEF PauseEnds
  <2>2. phase = "settled"
    BY <1>2, <2>1 DEF Inv, RunInv, RunTypes, Sending
  <2>3. RunTypes' /\ Sending'
    BY <2>1, <2>2 DEF Inv, RunInv, RunTypes, Sending, Total
  <2> QED BY <2>1, <2>3, LoopStep
<1> QED BY <1>1, <1>2

LEMMA ChunkWrittenStep ==
  ASSUME Inv, ChunkWritten
  PROVE  Inv'
<1>1. PICK last \in BOOLEAN : last <=> NextEnd(PlanWrites(scenario), up) = {}
  OBVIOUS
<1>2. PICK abort \in BOOLEAN : abort <=> up >= scenario.abort
  OBVIOUS
<1>3. /\ writer = "writing" /\ segments' = Append(segments, "sent")
      /\ writer' = IF last \/ abort \/ phase = "settled" THEN "done" ELSE "ready"
      /\ phase' = IF abort /\ phase = "open" THEN "aborted" ELSE phase
      /\ UNCHANGED <<mockVars, scenario, up, got, fault, result>>
  BY <1>1, <1>2 DEF ChunkWritten
<1>4. /\ scenario \in Transmissions /\ up \in 0 .. Total(scenario) /\ up <= scenario.abort
      /\ scenario.abort \in Nat /\ Total(scenario) \in Nat
  BY ScenarioTypes DEF Inv, RunInv, RunTypes, Sending
<1>5. last <=> up = Total(scenario)
  BY <1>1, <1>4, NextChunk
<1>6. phase \in {"open", "settled"}
  BY <1>3 DEF Inv, RunInv, RunTypes, Sending
<1>7. segments' \in Seq({"sent", "received"})
  BY <1>3, AppendProperties DEF Inv, RunInv, RunTypes
<1>8. RunTypes'
  BY <1>3, <1>6, <1>7 DEF Inv, RunInv, RunTypes, Total
<1>9. Sending'
  <2>1. abort => up = scenario.abort
    BY <1>2, <1>4
  <2>2. UNCHANGED <<scenario, up>> /\ Total(scenario') = Total(scenario)
    BY <1>3
  <2> QED BY <1>3, <1>4, <1>5, <1>6, <2>1, <2>2 DEF Sending
<1> QED BY <1>3, <1>8, <1>9, LoopStep

-----------------------------------------------------------------------------
(* The invariant of the whole.                                              *)

LEMMA InitInv == Init => Inv
<1> SUFFICES ASSUME Init PROVE Inv
  OBVIOUS
<1>1. /\ listener = "up" /\ edition = 1 /\ hits = 0
      /\ sock = [c \in Conns |-> "none"] /\ items = [c \in Conns |-> <<>>]
      /\ poisoned = [c \in Conns |-> FALSE] /\ chain = [c \in Conns |-> <<>>]
      /\ wire = [c \in Conns |-> <<>>]
  BY DEF Init, MockInit
<1>2. /\ Tables
      /\ \A c \in Conns : /\ sock[c] = "none" /\ items[c] = <<>> /\ poisoned[c] = FALSE
                          /\ chain[c] = <<>> /\ wire[c] = <<>>
  <2>1. <<>> \in Seq(Kinds) /\ <<>> \in Seq(TaskRecord) /\ <<>> \in Seq(Unit)
    OBVIOUS
  <2> QED BY <1>1, <2>1 DEF Tables, States
<1>3. ASSUME NEW c \in Conns
      PROVE  Good(c, "none", <<>>, FALSE, <<>>, <<>>, 1, scenario.mock)
  <2>1. MaxItems[c] \in Nat /\ Len(<<>>) = 0 /\ Len(<<>>) <= MaxItems[c]
    <3>1. MaxItems[c] \in Nat
      BY EditsAssumption
    <3> QED BY <3>1
  <2>2. Stranger("none", <<>>, FALSE, <<>>, <<>>, MaxItems[c])
    BY <2>1 DEF Stranger, States, Ordered, Units
  <2>3. Typed("none", <<>>, FALSE, <<>>, <<>>) /\ Fresh("none", <<>>, FALSE, <<>>, <<>>)
    BY DEF Typed, Fresh, States
  <2>4. Queued(<<>>, FALSE, <<>>) /\ WrittenSoFar("none", <<>>, <<>>, <<>>)
    BY DEF Queued, WrittenSoFar, Backlog
  <2>5. WireSound(<<>>, FALSE, <<>>, 1) /\ HeadBegun(<<>>, <<>>, 1)
    BY DEF WireSound, HeadBegun, Ordered
  <2> QED BY <2>1, <2>2, <2>3, <2>4, <2>5 DEF Good, Served
<1>4. Endpoint
  <2>1. 1 \in 1 .. Len(Edits)
    BY EditsAssumption, LenProperties
  <2> QED BY <1>1, <1>2, <1>3, <2>1 DEF Endpoint
<1>5. HitsKept
  <2>1. IsFiniteSet({}) /\ Cardinality({}) <= 0
    BY FS_EmptySet
  <2>2. \A c \in Conns : \A n : ~ByRule(n, chain[c], wire[c])
    BY <1>2 DEF ByRule
  <2> QED BY <1>1, <2>1, <2>2 DEF HitsKept
<1>6. /\ scenario \in Transmissions
      /\ phase = IF scenario.permitted THEN "connecting" ELSE "settled"
      /\ writer = "ready" /\ up = 0 /\ segments = <<>> /\ got = 0 /\ fault = FALSE
  BY DEF Init, RunnerInit
<1>7. Total(scenario) \in Nat \ {0} /\ scenario.abort \in Nat
  BY <1>6, ScenarioTypes
<1>8. Reading
  <2>1. Len(wire[Runner]) = 0
    BY <1>2, RunnerAssumption
  <2> QED BY <1>6, <2>1 DEF Reading
<1>9. /\ segments \in Seq({"sent", "received"}) /\ up \in 0 .. Total(scenario)
      /\ up < Total(scenario) /\ up <= scenario.abort
  <2>1. <<>> \in Seq({"sent", "received"})
    OBVIOUS
  <2> QED BY <1>6, <1>7, <2>1
<1>10. CASE scenario.permitted
  <2>1. phase = "connecting" /\ result = <<>>
    BY <1>6, <1>10 DEF Init, RunnerInit
  <2>2. RunTypes /\ Sending
    BY <1>6, <1>7, <1>9, <2>1 DEF RunTypes, Sending
  <2> QED BY <1>4, <1>5, <1>8, <2>1, <2>2 DEF Inv, RunInv, Sound, Decided
<1>11. CASE ~scenario.permitted
  <2>1. PICK o : /\ o = [response |-> <<>>, timedOut |-> FALSE, disconnected |-> FALSE,
                         error |-> TRUE, why |-> "refused", responses |-> 0, sentSegments |-> 0]
                 /\ result = <<o>>
    BY <1>11 DEF Init, RunnerInit
  <2>2. /\ o.response = <<>> /\ ~o.timedOut /\ ~o.disconnected /\ o.why = "refused"
        /\ o.responses = 0
    BY <2>1
  <2>3. phase = "settled" /\ result # <<>> /\ result[1] = o
    BY <1>6, <1>11, <2>1
  <2>4. RunTypes /\ Sending
    BY <1>6, <1>7, <1>9, <2>3 DEF RunTypes, Sending
  <2>5. Whole(wire[Runner], got) = {} /\ Cardinality({}) = 0
    BY <1>6, FS_EmptySet DEF Whole
  <2>6. Told(o, wire[Runner], got, segments, writer, ExpectedResponses(scenario))
    BY <1>6, <2>2, <2>5 DEF Told, First
  <2> QED BY <1>4, <1>5, <1>8, <2>3, <2>4, <2>6 DEF Inv, RunInv, Sound, Decided
<1> QED BY <1>10, <1>11

LEMMA ConnectStep ==
  ASSUME Inv, Connect
  PROVE  Inv'
<1>1. /\ phase = "connecting" /\ phase' = "open" /\ Accept(Runner)
      /\ UNCHANGED <<scenario, writer, up, segments, got, fault, result>>
  BY DEF Connect
<1>2. Sound' /\ WireGrows
  BY <1>1, RunnerAssumption, SockStep DEF Accept, Inv, States, Live
<1>3. UNCHANGED wire
  BY <1>1 DEF Accept
<1>4. RunTypes' /\ Sending'
  BY <1>1 DEF Inv, RunInv, RunTypes, Sending, Total
<1>5. Reading' /\ Decided'
  BY <1>1, <1>3 DEF Inv, RunInv, RunTypes, Reading, Decided
<1> QED BY <1>2, <1>4, <1>5 DEF Inv, RunInv

LEMMA RunnerInv ==
  ASSUME Inv, RunnerStep
  PROVE  Inv'
<1>1. fault \in BOOLEAN
  BY DEF Inv, RunInv, RunTypes
<1>2. CASE Connect
  BY <1>2, ConnectStep
<1>3. CASE ConnectFails
  <2>1. got = 0
    BY <1>3 DEF ConnectFails, Inv, RunInv, Sending
  <2> QED BY <1>1, <1>3, <2>1, EndsWithoutReading DEF ConnectFails
<1>4. CASE Timeout
  BY <1>1, <1>4, EndsWithoutReading DEF Timeout
<1>5. CASE CloseEvent
  <2>1. fault' \in BOOLEAN
    BY <1>1, <1>5 DEF CloseEvent
  <2> QED BY <1>5, <2>1, EndsWithoutReading DEF CloseEvent
<1>6. CASE SocketError
  BY <1>1, <1>6, EndsWithoutReading DEF SocketError
<1>7. CASE \E n \in 1 .. Len(wire[Runner]) : Data(n)
  BY <1>7, DataStep
<1>8. CASE WriteChunk \/ PauseEnds \/ ChunkWritten
  BY <1>8, WriteChunkStep, PauseEndsStep, ChunkWrittenStep
<1> QED BY <1>2, <1>3, <1>4, <1>5, <1>6, <1>7, <1>8 DEF RunnerStep

LEMMA NextInv == Inv /\ [Next]_vars => Inv'
<1> SUFFICES ASSUME Inv, [Next]_vars PROVE Inv'
  OBVIOUS
<1>0. /\ Sound /\ scenario \in Transmissions /\ Runner \in Conns
      /\ (UNCHANGED runVars => UNCHANGED scenario)
  BY RunnerAssumption DEF Inv, RunInv, RunTypes, runVars
<1>1. CASE RunnerStep
  BY <1>1, RunnerInv
<1>2. CASE Arrives
  <2>1. PICK id : /\ id = Len(items[Runner]) + 1 /\ id <= Len(scenario.messages)
                  /\ Receive(Runner, scenario.messages[id])
    BY <1>2 DEF Arrives
  <2>2. scenario.mock /\ UNCHANGED runVars
    BY <1>2 DEF Arrives
  <2>3. scenario.messages[id] \in Kinds
    <3>1. items[Runner] \in Seq(Kinds) /\ scenario.messages \in Seq(Kinds)
      BY <1>0, ScenarioTypes DEF Sound, Endpoint, Tables
    <3>2. id \in 1 .. Len(scenario.messages)
      BY <2>1, <3>1, LenProperties
    <3> QED BY <3>1, <3>2, ElementOfSeq
  <2>4. Sound' /\ WireGrows
    BY <1>0, <2>1, <2>2, <2>3, ReceiveStep
  <2> QED BY <2>2, <2>4, EndpointOnly
<1>3. CASE RunnerGone
  <2>1. UNCHANGED runVars /\ (PeerEnds(Runner) \/ PeerResets(Runner))
    BY <1>3 DEF RunnerGone
  <2>2. PICK s2 \in {"peerEnded", "destroyed"} : SockBecomes(Runner, s2)
    BY <2>1 DEF PeerEnds, PeerResets
  <2>3. Sound' /\ WireGrows
    BY <1>0, <2>1, <2>2, SockStep DEF SockBecomes, States, Live
  <2> QED BY <2>1, <2>3, EndpointOnly
<1>4. CASE \E code \in {"other", "fault", "fatal"}, n \in 1 .. Units : StrangerWrites(code, n)
  <2>1. PICK code \in {"other", "fault", "fatal"}, n \in 1 .. Units : StrangerWrites(code, n)
    BY <1>4
  <2>2. Sound' /\ WireGrows
    BY <1>0, <2>1, StrangerStep
  <2>3. UNCHANGED runVars
    BY <2>1 DEF StrangerWrites, runVars
  <2> QED BY <2>2, <2>3, EndpointOnly
<1>5. CASE StrangerEnds
  <2>1. PICK s2 \in {"ended", "destroyed"} : SockBecomes(Runner, s2)
    BY <1>5 DEF StrangerEnds
  <2>2. UNCHANGED runVars
    BY <1>5 DEF StrangerEnds
  <2>3. Sound' /\ WireGrows
    BY <1>0, <2>1, <2>2, SockStep DEF SockBecomes, States, Live
  <2> QED BY <2>2, <2>3, EndpointOnly
<1>6. CASE \E c \in Conns \ {Runner} : OtherClient(c)
  <2>1. PICK c \in Conns \ {Runner} : OtherClient(c)
    BY <1>6
  <2>2. scenario.mock /\ UNCHANGED runVars
    BY <2>1 DEF OtherClient
  <2>3. Sound' /\ WireGrows
    <3>1. CASE Accept(c)
      BY <1>0, <2>2, <3>1, SockStep DEF Accept, States, Live
    <3>2. CASE PeerEnds(c) \/ PeerResets(c)
      <4>1. PICK s2 \in {"peerEnded", "destroyed"} : SockBecomes(c, s2)
        BY <3>2 DEF PeerEnds, PeerResets
      <4> QED BY <1>0, <2>2, <4>1, SockStep DEF SockBecomes, States, Live
    <3>3. CASE Receive(c, "request")
      BY <1>0, <2>1, <2>2, <3>3, ReceiveStep DEF Kinds
    <3> QED BY <2>1, <3>1, <3>2, <3>3 DEF OtherClient
  <2> QED BY <2>2, <2>3, EndpointOnly
<1>7. CASE /\ \E c \in Conns : MockStep(c) \/ EndCompletes(c) \/ OnClose(c)
           /\ UNCHANGED runVars
  <2>1. PICK c \in Conns : MockStep(c) \/ EndCompletes(c) \/ OnClose(c)
    BY <1>7
  <2>2. Sound' /\ WireGrows
    <3>1. CASE MockStep(c)
      BY <1>0, <1>7, <3>1, TaskStep
    <3>2. CASE EndCompletes(c) \/ OnClose(c)
      <4>1. PICK s2 \in {"destroyed", "closed"} : SockBecomes(c, s2)
        BY <3>2 DEF EndCompletes, OnClose
      <4> QED BY <1>0, <1>7, <4>1, SockStep DEF SockBecomes, States, Live
    <3> QED BY <2>1, <3>1, <3>2
  <2> QED BY <1>7, <2>2, EndpointOnly
<1>8. CASE scenario.mock /\ (EditRule \/ CloseEndpoint \/ ListenerClosed) /\ UNCHANGED runVars
  <2>1. Sound' /\ WireGrows
    <3>1. CASE EditRule
      BY <1>0, <1>8, <3>1, EditStep
    <3>2. CASE CloseEndpoint
      BY <1>0, <1>8, <3>2, CloseStep
    <3>3. CASE ListenerClosed
      <4>1. /\ listener' = "down"
            /\ UNCHANGED <<sock, items, poisoned, chain, wire, edition, hits, scenario>>
        BY <1>0, <1>8, <3>3 DEF ListenerClosed
      <4>2. Endpoint'
        BY <1>0, <4>1 DEF Sound, Endpoint, Tables
      <4> QED BY <1>0, <4>1, <4>2, QuietStep
    <3> QED BY <1>8, <3>1, <3>2, <3>3
  <2> QED BY <1>8, <2>1, EndpointOnly
<1>9. CASE UNCHANGED vars
  <2>1. UNCHANGED <<mockVars, runVars>>
    BY <1>9 DEF vars
  <2>2. Sound'
    BY <1>0, <2>1, RunnerOnly
  <2>3. WireGrows
    BY <1>0, <2>1, AsItIs DEF WireGrows, mockVars
  <2> QED BY <2>1, <2>2, <2>3, EndpointOnly
<1> QED BY <1>1, <1>2, <1>3, <1>4, <1>5, <1>6, <1>7, <1>8, <1>9 DEF Next

LEMMA InvAlways == Spec => []Inv
<1> QED BY InitInv, NextInv, PTL DEF Spec

-----------------------------------------------------------------------------
(* What the endpoint wrote.                                                 *)

LEMMA WireFacts ==
  ASSUME Inv, NEW c \in Conns
  PROVE  /\ wire[c] \in Seq(Unit) /\ Len(wire[c]) \in Nat /\ DOMAIN wire[c] = 1 .. Len(wire[c])
         /\ Ordered(wire[c])
         /\ \A k \in 1 .. Len(wire[c]) :
              /\ wire[c][k] \in Unit /\ wire[c][k].to \in 1 .. MaxItems[c]
              /\ ~(c = Runner /\ ~scenario.mock) => wire[c][k].code \in AnswerCodes
<1>1. /\ wire[c] \in Seq(Unit) /\ Len(wire[c]) \in Nat
      /\ Good(c, sock[c], items[c], poisoned[c], chain[c], wire[c], edition, scenario.mock)
  BY AsItIs DEF Inv
<1>2. DOMAIN wire[c] = 1 .. Len(wire[c]) /\ \A k \in 1 .. Len(wire[c]) : wire[c][k] \in Unit
  BY <1>1, LenProperties, ElementOfSeq
<1>3. MaxItems[c] \in Nat
  BY EditsAssumption
<1>4. CASE c = Runner /\ ~scenario.mock
  <2>1. Ordered(wire[c]) /\ Len(wire[c]) <= Units * MaxItems[c]
    BY <1>1, <1>4 DEF Good, Stranger
  <2>2. ASSUME NEW k \in 1 .. Len(wire[c]) PROVE wire[c][k].to \in 1 .. MaxItems[c]
    <3>1. PICK a \in Nat, b \in 1 .. Units : a = wire[c][k].to /\ b = wire[c][k].part
      BY <1>2 DEF Unit
    <3>2. k = Units * (a - 1) + b
      BY <2>1, <3>1 DEF Ordered
    <3>3. a \in 1 .. MaxItems[c]
      BY <1>1, <1>3, <2>1, <3>2 DEF Units
    <3> QED BY <3>1, <3>3
  <2> QED BY <1>1, <1>2, <1>4, <2>1, <2>2
<1>5. CASE ~(c = Runner /\ ~scenario.mock)
  <2>1. WireSound(items[c], poisoned[c], wire[c], edition) /\ Len(items[c]) <= MaxItems[c]
    BY <1>1, <1>5 DEF Good, Served
  <2>2. Len(items[c]) \in Nat
    BY LenProperties DEF Inv, Sound, Endpoint, Tables
  <2>3. \A k \in 1 .. Len(wire[c]) : wire[c][k].to \in 1 .. MaxItems[c]
    BY <1>3, <2>1, <2>2 DEF WireSound
  <2> QED BY <1>1, <1>2, <2>1, <2>3 DEF WireSound
<1> QED BY <1>4, <1>5

LEMMA OrderHolds == Inv => AnswersInOrder
<1> SUFFICES ASSUME Inv, NEW c \in Conns, NEW k \in DOMAIN wire[c]
             PROVE  /\ wire[c][k].to = ((k - 1) \div Units) + 1
                    /\ wire[c][k].part = ((k - 1) % Units) + 1
  BY DEF AnswersInOrder
<1>1. k \in 1 .. Len(wire[c]) /\ Len(wire[c]) \in Nat /\ Ordered(wire[c]) /\ wire[c][k] \in Unit
  BY WireFacts
<1>2. PICK a \in Nat, b \in 1 .. Units : a = wire[c][k].to /\ b = wire[c][k].part
  BY <1>1 DEF Unit
<1>3. k = Units * (a - 1) + b
  BY <1>1, <1>2 DEF Ordered
<1>4. a = ((k - 1) \div Units) + 1 /\ b = ((k - 1) % Units) + 1
  BY <1>3 DEF Units
<1> QED BY <1>2, <1>4

LEMMA LastHolds == Inv => NothingAfterTheLast
<1> SUFFICES ASSUME Inv, NEW c \in Conns,
                    NEW j \in DOMAIN wire[c], NEW k \in DOMAIN wire[c], j < k
             PROVE  /\ wire[c][j].code = "close" => wire[c][k].to = wire[c][j].to
                    /\ (wire[c][j].code = "rule" /\ wire[c][k].code = "rule")
                         => wire[c][j].edition <= wire[c][k].edition
  BY DEF NothingAfterTheLast
<1>1. /\ j \in 1 .. Len(wire[c]) /\ k \in 1 .. Len(wire[c]) /\ Len(wire[c]) \in Nat
      /\ Ordered(wire[c]) /\ wire[c][j] \in Unit /\ wire[c][k] \in Unit
  BY WireFacts
<1>2. CASE c = Runner /\ ~scenario.mock
  <2>1. wire[c][j].code \in {"other", "fault", "fatal"}
    BY <1>1, <1>2, AsItIs DEF Inv, Good, Stranger
  <2> QED BY <2>1
<1>3. CASE ~(c = Runner /\ ~scenario.mock)
  <2>1. WireSound(items[c], poisoned[c], wire[c], edition)
    BY <1>3, AsItIs DEF Inv, Good, Served
  <2>2. ASSUME wire[c][j].code = "close" PROVE wire[c][k].to = wire[c][j].to
    <3>1. PICK a \in Nat, b \in 1 .. Units : a = wire[c][j].to /\ b = wire[c][j].part
      BY <1>1 DEF Unit
    <3>2. PICK d \in Nat, e \in 1 .. Units : d = wire[c][k].to /\ e = wire[c][k].part
      BY <1>1 DEF Unit
    <3>3. j = Units * (a - 1) + b /\ k = Units * (d - 1) + e
      BY <1>1, <3>1, <3>2 DEF Ordered
    <3>4. a = Len(items[c]) /\ d \in 1 .. Len(items[c])
      BY <1>1, <2>1, <2>2, <3>1, <3>2 DEF WireSound
    <3>5. Len(items[c]) \in Nat
      BY LenProperties DEF Inv, Sound, Endpoint, Tables
    <3>6. a <= d
      BY <1>1, <3>3 DEF Units
    <3> QED BY <3>1, <3>2, <3>4, <3>5, <3>6
  <2>3. (wire[c][j].code = "rule" /\ wire[c][k].code = "rule")
          => wire[c][j].edition <= wire[c][k].edition
    BY <1>1, <2>1 DEF WireSound
  <2> QED BY <2>2, <2>3
<1> QED BY <1>2, <1>3

LEMMA HitsHold == Inv => HitsCoverAnswers
<1> SUFFICES ASSUME Inv PROVE Cardinality(AnswersByRule) <= hits
  BY DEF HitsCoverAnswers
<1>1. PICK P : /\ IsFiniteSet(P) /\ Cardinality(P) <= hits
               /\ \A c \in Conns : \A n : ByRule(n, chain[c], wire[c]) => <<c, n>> \in P
  BY DEF Inv, Sound, HitsKept
<1>2. AnswersByRule \subseteq P
  <2>1. ASSUME NEW c \in Conns, NEW k \in DOMAIN wire[c], wire[c][k].code = "rule"
        PROVE  <<c, wire[c][k].to>> \in P
    <3>1. k \in 1 .. Len(wire[c])
      BY WireFacts
    <3>2. ByRule(wire[c][k].to, chain[c], wire[c])
      BY <2>1, <3>1 DEF ByRule
    <3> QED BY <1>1, <3>2
  <2> QED BY <2>1 DEF AnswersByRule
<1>3. Cardinality(AnswersByRule) <= Cardinality(P) /\ Cardinality(AnswersByRule) \in Nat
  BY <1>1, <1>2, FS_Subset, FS_CardinalityType
<1>4. Cardinality(P) \in Nat /\ hits \in Nat
  BY <1>1, FS_CardinalityType DEF Inv, Sound, HitsKept
<1> QED BY <1>1, <1>3, <1>4

LEMMA TypesHold == Inv => TypeOK
<1> SUFFICES ASSUME Inv PROVE TypeOK
  OBVIOUS
<1>1. /\ listener \in {"up", "closing", "down"}
      /\ sock \in [Conns -> Live \cup {"none", "destroyed", "closed"}]
      /\ items \in [Conns -> Seq(Kinds)]
      /\ poisoned \in [Conns -> BOOLEAN]
      /\ edition \in 1 .. Len(Edits) /\ hits \in Nat
  BY DEF Inv, Sound, Endpoint, Tables, HitsKept, States
<1>2. ASSUME NEW c \in Conns, NEW t \in Range(chain[c])
      PROVE  t.kind \in Kinds \cup {"end"} /\ t.id \in 1 .. Len(items[c])
  <2>1. /\ chain[c] \in Seq(TaskRecord) /\ DOMAIN chain[c] = 1 .. Len(chain[c])
        /\ Len(chain[c]) \in Nat /\ Len(items[c]) \in Nat
    BY LenProperties DEF Inv, Sound, Endpoint, Tables
  <2>2. PICK i \in 1 .. Len(chain[c]) : t = chain[c][i]
    BY <1>2, <2>1 DEF Range
  <2>3. t \in TaskRecord
    BY <2>1, <2>2, ElementOfSeq
  <2>4. Good(c, sock[c], items[c], poisoned[c], chain[c], wire[c], edition, scenario.mock)
    BY AsItIs DEF Inv
  <2>5. ~(c = Runner /\ ~scenario.mock)
    <3>1. SUFFICES ASSUME c = Runner /\ ~scenario.mock PROVE FALSE
      OBVIOUS
    <3>2. chain[c] = <<>>
      BY <2>4, <3>1 DEF Good, Stranger
    <3> QED BY <2>2, <3>2
  <2>6. Queued(items[c], poisoned[c], chain[c])
    BY <2>4, <2>5 DEF Good, Served
  <2>7. t.id \in 1 .. Len(items[c])
    <3>1. /\ Backlog(chain[c]) \in Int /\ Backlog(chain[c]) <= Len(items[c])
          /\ Len(chain[c]) <= Backlog(chain[c]) + 1
      BY <2>1, <2>6 DEF Backlog, Queued
    <3>2. CASE i <= Backlog(chain[c])
      <4>1. chain[c][i].id = Len(items[c]) - Backlog(chain[c]) + i
        BY <2>6, <3>2 DEF Queued
      <4> QED BY <2>1, <2>2, <3>1, <3>2, <4>1
    <3>3. CASE ~(i <= Backlog(chain[c]))
      <4>1. chain[c][i].id = Len(items[c]) /\ chain[c][i].kind = "end" /\ poisoned[c]
        BY <2>6, <3>1, <3>3 DEF Queued
      <4>2. Len(items[c]) > 0
        BY <2>6, <4>1 DEF Queued
      <4> QED BY <2>1, <2>2, <4>1, <4>2
    <3> QED BY <3>2, <3>3
  <2> QED BY <2>3, <2>7 DEF TaskRecord
<1>3. ASSUME NEW c \in Conns, NEW u \in Range(wire[c])
      PROVE  u.to \in 1 .. MaxItems[c] /\ u.part \in 1 .. Units
  <2>1. PICK k \in DOMAIN wire[c] : u = wire[c][k]
    BY <1>3 DEF Range
  <2>2. k \in 1 .. Len(wire[c])
    BY WireFacts
  <2> QED BY <2>1, <2>2, WireFacts DEF Unit
<1>4. MockTypeOK
  BY <1>1, <1>2, <1>3 DEF MockTypeOK
<1>5. /\ scenario \in Transmissions
      /\ phase \in {"connecting", "open", "aborted", "settled"}
      /\ writer \in {"ready", "writing", "paused", "done"}
      /\ up \in 0 .. Total(scenario) /\ got \in 0 .. Len(wire[Runner])
      /\ segments \in Seq({"sent", "received"}) /\ fault \in BOOLEAN
  BY DEF Inv, RunInv, RunTypes, Reading
<1>6. (result = <<>>) = (phase # "settled")
  BY DEF Inv, RunInv, RunTypes
<1> QED BY <1>4, <1>5, <1>6 DEF TypeOK

\* What the mock endpoint writes is in order and counted as hits, ends with
\* the response that asks for the end, and is never taken back to an older
\* rule: for any scenario, any responses of the rule, any pieces and cuts, any
\* clients and any number of connections (handleConnection, respond).
THEOREM AnswersStaySound == Spec => []AnswersAreSound
<1>1. Inv => AnswersAreSound
  BY TypesHold, OrderHolds, LastHolds, HitsHold DEF AnswersAreSound
<1> QED BY <1>1, InvAlways, PTL

-----------------------------------------------------------------------------
(* What the runner makes of it.                                             *)

\* The first response of a mock endpoint that is read answers the first
\* message.
LEMMA FirstAnswersTheFirst ==
  ASSUME Inv, scenario.mock, Whole(wire[Runner], got) # {}
  PROVE  wire[Runner][Min(Whole(wire[Runner], got))].to = 1
<1>1. PICK w : w = wire[Runner]
  OBVIOUS
<1>2. PICK S : S = Whole(w, got)
  OBVIOUS
<1>3. /\ w \in Seq(Unit) /\ Len(w) \in Nat /\ Ordered(w) /\ got \in 0 .. Len(w)
      /\ \A k \in 1 .. Len(w) : w[k] \in Unit /\ w[k].code \in AnswerCodes
  BY <1>1, RunnerAssumption, WireFacts DEF Inv, RunInv, Reading
<1>4. ASSUME NEW k \in 1 .. Len(w)
      PROVE  w[k].part = Units <=> \E a \in Nat : k = Units * a
  <2>1. PICK a \in Nat, b \in 1 .. Units : a = w[k].to /\ b = w[k].part
    BY <1>3 DEF Unit
  <2>2. k = Units * (a - 1) + b
    BY <1>3, <2>1 DEF Ordered
  <2>3. b = Units => \E d \in Nat : k = Units * d
    BY <2>2 DEF Units
  <2>4. ASSUME NEW d \in Nat, k = Units * d PROVE b = Units
    BY <2>2, <2>4 DEF Units
  <2> QED BY <2>1, <2>3, <2>4
<1>5. \A k \in S : k \in 1 .. Len(w) /\ k \in 1 .. got /\ w[k].part = Units
  BY <1>2, <1>3 DEF Whole
<1>6. \A k \in S : k >= Units
  <2>1. ASSUME NEW k \in S PROVE k >= Units
    <3>1. PICK a \in Nat : k = Units * a
      BY <1>4, <1>5
    <3> QED BY <1>5, <3>1 DEF Units
  <2> QED BY <2>1
<1>7. Units \in S
  <2>1. PICK k \in S : k \in 1 .. got /\ k >= Units
    BY <1>1, <1>2, <1>5, <1>6
  <2>2. Units \in 1 .. got /\ Units \in 1 .. Len(w)
    BY <1>3, <2>1 DEF Units
  <2>3. Units = Units * 1
    BY DEF Units
  <2>4. w[Units].part = Units /\ w[Units].code \in AnswerCodes
    BY <1>3, <1>4, <2>2, <2>3
  <2>5. \A j \in 1 .. Units : w[j].code # "fatal"
    <3>1. \A j \in 1 .. Units : j \in 1 .. Len(w)
      BY <1>3, <2>2 DEF Units
    <3> QED BY <1>3, <3>1 DEF AnswerCodes
  <2>6. w[Units].code # "fault"
    BY <2>4 DEF AnswerCodes
  <2> QED BY <1>2, <2>2, <2>4, <2>5, <2>6 DEF Whole
<1>8. Min(S) = Units
  <2>1. S \in SUBSET Nat
    BY <1>2 DEF Whole
  <2>2. Min(S) \in S /\ Min(S) <= Units
    BY <1>7, <2>1, LeastOfSet
  <2>3. Min(S) >= Units /\ Min(S) \in Nat
    BY <1>6, <2>1, <2>2
  <2> QED BY <2>2, <2>3 DEF Units
<1>9. w[Units].to = 1
  <2>1. Units \in 1 .. Len(w) /\ w[Units].part = Units
    BY <1>5, <1>7
  <2>2. PICK a \in Nat : a = w[Units].to
    BY <1>3, <2>1 DEF Unit
  <2>3. Units = Units * (a - 1) + Units
    BY <1>3, <2>1, <2>2 DEF Ordered
  <2> QED BY <2>2, <2>3 DEF Units
<1> QED BY <1>1, <1>2, <1>8, <1>9

\* A verdict "passed" is earned: for any scenario and any expectation that
\* validation lets through, whatever the target does and whichever of the
\* response, the timer, the close and an error comes first (runScenario,
\* performExchange, evaluateExchange).
THEOREM PassesStayEarned == Spec => []PassesAreEarned
<1>1. ASSUME Inv, NEW e \in Expectations, ValidExpectation(e), Passes(e)
      PROVE  /\ LET r == result[1]
                    whole == CompleteIn(got)
                    first == wire[Runner][Min(whole)]
                IN CASE e.timeout -> r.why = "timeout" /\ whole = {}
                     [] e.disconnect -> /\ r.why = "close"
                                        /\ Cardinality(whole) < ExpectedResponses(scenario)
                     [] OTHER -> /\ whole # {} /\ r.response = <<first>>
                                 /\ e.statusCode \in {"any", first.code}
                                 /\ scenario.mock => first.to = 1
                                 /\ \A f \in DOMAIN e.content : e.content[f] = first.edition
             /\ (~e.timeout /\ ~e.disconnect
                   /\ result[1].responses < ExpectedResponses(scenario))
                  => result[1].why \in {"timeout", "fatal", "failure"}
  <2>1. PICK r : r = result[1]
    OBVIOUS
  <2>2. PICK whole : whole = CompleteIn(got)
    OBVIOUS
  <2>3. PICK first : first = wire[Runner][Min(whole)]
    OBVIOUS
  <2>4. whole = Whole(wire[Runner], got)
    BY <2>2 DEF CompleteIn, FatalIn, Whole
  <2>5. result # <<>> /\ EvaluateExchange(e, r) = "passed"
    BY <1>1, <2>1 DEF Passes
  <2>6. /\ r.response = IF whole = {} THEN <<>> ELSE <<first>>
        /\ r.responses = Cardinality(whole)
        /\ r.timedOut <=> r.why = "timeout" /\ whole = {}
        /\ r.disconnected <=> r.why = "close" /\ Cardinality(whole) < ExpectedResponses(scenario)
        /\ r.why \in {"refused", "failure", "timeout", "fatal", "enough", "close"}
        /\ r.why = "refused" => whole = {}
        /\ r.why = "enough" => Cardinality(whole) >= ExpectedResponses(scenario)
    BY <1>1, <2>1, <2>3, <2>4, <2>5 DEF Inv, RunInv, Decided, Told, First
  <2>7. CASE e.timeout
    <3>1. r.timedOut
      BY <2>5, <2>7 DEF EvaluateExchange
    <3>2. ~e.disconnect
      BY <1>1, <2>7 DEF ValidExpectation
    <3> QED BY <2>1, <2>2, <2>6, <2>7, <3>1, <3>2
  <2>8. CASE ~e.timeout /\ e.disconnect
    <3>1. r.disconnected
      BY <2>5, <2>8 DEF EvaluateExchange
    <3> QED BY <2>1, <2>2, <2>6, <2>8, <3>1
  <2>9. CASE ~e.timeout /\ ~e.disconnect
    <3>1. ~r.timedOut /\ ~r.disconnected /\ r.response # <<>> /\ Agrees(e, r.response[1])
      BY <2>5, <2>9 DEF EvaluateExchange
    <3>2. whole # {} /\ r.response = <<first>>
      BY <2>6, <3>1
    <3>3. Agrees(e, first)
      BY <3>1, <3>2
    <3>4. /\ e.statusCode \in {"any", first.code}
          /\ \A f \in DOMAIN e.content : e.content[f] = first.edition
      BY <3>3 DEF Agrees
    <3>5. scenario.mock => first.to = 1
      BY <1>1, <2>3, <2>4, <3>2, FirstAnswersTheFirst
    <3>6. /\ ExpectedResponses(scenario) \in {1, 2}
          /\ Cardinality(whole) \in Nat
      <4>1. IsFiniteSet(whole)
        <5>1. whole \subseteq 1 .. got /\ got \in Int
          BY <1>1, <2>4, AsItIs, RunnerAssumption DEF Whole, Inv, RunInv, Reading
        <5>2. IsFiniteSet(1 .. got)
          BY <5>1, FS_Interval
        <5> QED BY <5>1, <5>2, FS_Subset
      <4> QED BY <4>1, FS_CardinalityType DEF ExpectedResponses
    <3>7. r.responses < ExpectedResponses(scenario) => r.why \in {"timeout", "fatal", "failure"}
      BY <2>6, <3>1, <3>2, <3>6
    <3> QED BY <2>1, <2>2, <2>3, <2>9, <3>2, <3>4, <3>5, <3>7
  <2> QED BY <2>7, <2>8, <2>9
<1>2. Inv => PassIsEarned
  BY <1>1 DEF PassIsEarned
<1>3. Inv => ShortPassIsNoDisconnect
  BY <1>1 DEF ShortPassIsNoDisconnect
<1>4. Inv => PassesAreEarned
  BY <1>2, <1>3 DEF PassesAreEarned
<1> QED BY <1>4, InvAlways, PTL

\* A scenario that asks to be cut off stops exactly there, and any other sends
\* its whole payload, for any sizes or count of its chunks (planWrites).
THEOREM ThePayloadIsWritten == Spec => []WritesThePayload
<1>1. Inv => WritesThePayload
  BY DEF Inv, RunInv, Sending, WritesThePayload
<1> QED BY <1>1, InvAlways, PTL

\* The result of a run is made once and describes what was read before it: no
\* step reads, writes or decides anything afterwards (finish, settled).
THEOREM ResultStaysFinal == Spec => ResultIsFinal
<1> DEFINE Final == result # <<>> =>
                      /\ result' = result /\ got' = got /\ up' = up
                      /\ segments' # segments =>
                           /\ segments' = Append(segments, "sent")
                           /\ SentCount(segments) = result[1].sentSegments
<1>1. Inv /\ [Next]_vars => Final
  <2> SUFFICES ASSUME Inv, [Next]_vars, result # <<>> PROVE Final
    OBVIOUS
  <2>1. phase = "settled"
    BY DEF Inv, RunInv, RunTypes
  <2>2. CASE UNCHANGED runVars
    BY <2>2 DEF runVars
  <2>3. CASE RunnerStep
    <3>1. CASE PauseEnds
      BY <2>1, <3>1 DEF PauseEnds
    <3>2. CASE ChunkWritten
      <4>1. SentCount(segments) = result[1].sentSegments
        BY <3>2 DEF ChunkWritten, Inv, RunInv, Decided, Told
      <4> QED BY <3>2, <4>1 DEF ChunkWritten
    <3>3. CASE ConnectFails \/ Timeout \/ CloseEvent \/ SocketError
      BY <3>3 DEF ConnectFails, Timeout, CloseEvent, SocketError, Finish
    <3>4. CASE Connect \/ WriteChunk \/ \E n \in 1 .. Len(wire[Runner]) : Data(n)
      BY <2>1, <3>4 DEF Connect, WriteChunk, Data
    <3> QED BY <2>3, <3>1, <3>2, <3>3, <3>4 DEF RunnerStep
  <2>4. CASE ~RunnerStep /\ ~UNCHANGED runVars
    <3>1. Next
      BY <2>4 DEF vars
    <3>2. UNCHANGED runVars
      BY <2>4, <3>1 DEF Next, Arrives, RunnerGone, StrangerWrites, StrangerEnds, OtherClient,
                        runVars
    <3> QED BY <2>4, <3>2
  <2> QED BY <2>2, <2>3, <2>4
<1>2. Inv /\ [Next]_vars => [Final]_vars
  BY <1>1
<1> QED BY <1>2, InvAlways, PTL DEF Spec, ResultIsFinal
=============================================================================
