--------------------------- MODULE RequestProofs ---------------------------
(***************************************************************************)
(* The requests of the app that overlap, on one git repository, on the     *)
(* file of the MCP override and on the files of a workspace, for any       *)
(* number of them. Each part has its invariant, its lemmas on the helpers  *)
(* of the model and its theorem.                                           *)
(***************************************************************************)
EXTENDS GitRequests, McpOverride, FileRequests, TLAPS
LOCAL INSTANCE SequencesExt

-----------------------------------------------------------------------------
(* GitRequests *)

GitState ==
    [asked : 0 .. GitMax, override : {"null"} \cup GitPlaces \cup GitBare,
     of : [GitIds -> GitAsks \cup {"none"}], op : [GitIds -> GitOps \cup {"none"}],
     left : [GitIds -> 0 .. 2], ran : [GitIds -> SUBSET (GitPlaces \cup {"null"} \cup GitBare)],
     answer : [GitIds -> {"none", "ok", "error"}]]

(* A request that has not come has run nothing. *)
GitOwn(s) ==
    /\ \A i \in GitIds : s.ran[i] \subseteq {s.of[i]} \cap GitPlaces
    /\ \A i \in GitIds : i > s.asked => s.ran[i] = {}

(* An answer changes nothing but the answer.                               *)
LEMMA AnswerKeeps ==
    ASSUME NEW s \in GitState, NEW i \in GitIds, NEW what \in {"ok", "error"}
    PROVE  /\ GitAnswer(s, i, what) \in GitState
           /\ GitAnswer(s, i, what).ran = s.ran /\ GitAnswer(s, i, what).of = s.of
           /\ GitAnswer(s, i, what).asked = s.asked
BY DEF GitState, GitAnswer

(* The invariant speaks of what came and of what ran.                      *)
LEMMA SameKeeps ==
    ASSUME NEW s, NEW n, GitOwn(s), n.ran = s.ran, n.of = s.of, n.asked = s.asked
    PROVE  GitOwn(n)
BY DEF GitOwn

(* The invariant is inductive.                                             *)
LEMMA GitStep ==
    ASSUME ~GitRootless, q \in GitState, GitOwn(q), [GitNext]_GitVars
    PROVE  q' \in GitState /\ GitOwn(q')
<1> USE GitAssumption
<1>1. CASE Handle
  <2>10. PICK op \in GitOps, ws \in GitAsks :
          LET i == q.asked + 1
              o == Override(q, op, ws)
              s == [q EXCEPT !.asked = i, !.of[i] = ws, !.op[i] = op, !.override = o] IN
          q' = IF op # "elsewhere" /\ o \in {"null"} \cup GitBare THEN GitAnswer(s, i, "error")
               ELSE [s EXCEPT !.left[i] = Processes(op), !.ran[i] = IF op = "elsewhere" THEN {} ELSE {o}]
    BY <1>1 DEF Handle
  <2> DEFINE i == q.asked + 1
             o == Override(q, op, ws)
             s == [q EXCEPT !.asked = i, !.of[i] = ws, !.op[i] = op, !.override = o]
             places == IF op = "elsewhere" THEN {} ELSE {o}
  <2>1. i \in GitIds /\ i \in 0 .. GitMax /\ q.asked \in 0 .. GitMax
    BY <1>1 DEF Handle, GitState, GitIds
  <2>2. /\ o \in {"null"} \cup GitPlaces \cup GitBare
        /\ op # "elsewhere" /\ o \notin {"null"} \cup GitBare => o = ws /\ o \in GitPlaces
    BY DEF Override, GitAsks, GitState
  <2> HIDE DEF i, o
  <2> DEFINE ofs == [q.of EXCEPT ![i] = ws]
             ops == [q.op EXCEPT ![i] = op]
  <2>8. /\ ofs \in [GitIds -> GitAsks \cup {"none"}] /\ ops \in [GitIds -> GitOps \cup {"none"}]
        /\ \A j \in GitIds : ofs[j] = IF j = i THEN ws ELSE q.of[j]
    BY <2>1 DEF GitState
  <2>9. s = [q EXCEPT !.asked = i, !.of = ofs, !.op = ops, !.override = o]
    OBVIOUS
  <2> HIDE DEF ofs, ops, s
  <2>3. s \in GitState
    BY <2>1, <2>2, <2>8, <2>9 DEF GitState
  <2>4. s.asked = i /\ s.of = ofs /\ s.ran = q.ran
    BY <2>9 DEF GitState
  <2>5. GitOwn(s) /\ s.ran[i] = {} /\ s.of[i] = ws
    <3>1. i > q.asked /\ \A j \in GitIds : j > i => j > q.asked
      BY <2>1 DEF i, GitIds
    <3>2. q.ran[i] = {}
      BY <2>1, <3>1 DEF GitOwn
    <3> QED BY <2>1, <2>4, <2>8, <3>1, <3>2 DEF GitOwn
  <2>6. CASE op # "elsewhere" /\ o \in {"null"} \cup GitBare
    <3>1. q' = GitAnswer(s, i, "error")
      BY <2>6, <2>10 DEF i, o, s
    <3>2. q' \in GitState /\ q'.ran = s.ran /\ q'.of = s.of /\ q'.asked = s.asked
      BY <2>1, <2>3, <3>1, AnswerKeeps
    <3> QED BY <2>5, <3>2, SameKeeps
  <2>7. CASE ~(op # "elsewhere" /\ o \in {"null"} \cup GitBare)
    <3>1. q' = [s EXCEPT !.left[i] = Processes(op), !.ran[i] = places]
      BY <2>7, <2>10 DEF i, o, s
    <3>2. Processes(op) \in 0 .. 2 /\ places \subseteq {ws} \cap GitPlaces
      BY <2>2, <2>7 DEF Processes
    <3> HIDE DEF places
    <3>7. /\ places \in SUBSET (GitPlaces \cup {"null"} \cup GitBare)
          /\ [s.left EXCEPT ![i] = Processes(op)] \in [GitIds -> 0 .. 2]
          /\ [s.ran EXCEPT ![i] = places] \in [GitIds -> SUBSET (GitPlaces \cup {"null"} \cup GitBare)]
      BY <2>1, <2>3, <3>2 DEF GitState
    <3> DEFINE lefts == [s.left EXCEPT ![i] = Processes(op)]
               rans == [s.ran EXCEPT ![i] = places]
    <3>8. q' = [s EXCEPT !.left = lefts, !.ran = rans]
      BY <3>1
    <3> HIDE DEF lefts, rans
    <3>3. q' \in GitState
      BY <2>3, <3>8, <3>7 DEF GitState, lefts, rans
    <3>4. q'.asked = s.asked /\ q'.of = s.of /\ q'.ran = [s.ran EXCEPT ![i] = places]
      BY <2>1, <2>3, <3>1 DEF GitState
    <3>5. s.ran \in [GitIds -> SUBSET (GitPlaces \cup {"null"} \cup GitBare)]
      BY <2>3 DEF GitState
    <3>6. \A j \in GitIds : q'.ran[j] = IF j = i THEN places ELSE s.ran[j]
      BY <2>1, <3>4, <3>5
    <3>9. \A j \in GitIds : q'.ran[j] \subseteq {q'.of[j]} \cap GitPlaces
      BY <2>5, <3>2, <3>4, <3>6 DEF GitOwn
    <3>10. \A j \in GitIds : j > q'.asked => j # i /\ s.ran[j] = {}
      BY <2>1, <2>4, <2>5, <3>4 DEF GitOwn, GitIds
    <3> QED BY <3>3, <3>6, <3>9, <3>10 DEF GitOwn
  <2> QED BY <2>6, <2>7
<1>2. ASSUME NEW i \in GitIds, GitEnds(i)
      PROVE  q' \in GitState /\ GitOwn(q')
  <2> DEFINE s == [q EXCEPT !.left[i] = @ - 1]
  <2>1. q.left[i] - 1 \in 0 .. 2
    BY <1>2 DEF GitEnds, GitState
  <2>4. [q.left EXCEPT ![i] = @ - 1] \in [GitIds -> 0 .. 2]
    BY <2>1 DEF GitState
  <2>2. s \in GitState /\ s.ran = q.ran /\ s.of = q.of /\ s.asked = q.asked
    BY <2>4 DEF GitState
  <2>3. q' = s \/ \E what \in {"ok", "error"} : q' = GitAnswer(s, i, what)
    BY <1>2 DEF GitEnds
  <2> HIDE DEF s
  <2>5. q' \in GitState /\ q'.ran = q.ran /\ q'.of = q.of /\ q'.asked = q.asked
    BY <2>2, <2>3, AnswerKeeps
  <2> QED BY <2>5, SameKeeps
<1>3. CASE UNCHANGED GitVars
  BY <1>3 DEF GitVars
<1> QED BY <1>1, <1>2, <1>3 DEF GitNext

(* However requests for several workspaces overlap, the processes of a     *)
(* request run in the workspace it names, and one whose workspace is       *)
(* refused runs nothing (main.ts, the git handlers), as long as every      *)
(* request names one.                                                      *)
THEOREM GitInPlace ==
    ASSUME ~GitRootless
    PROVE  GitSpec => []GitOwnPlace
<1>1. GitInit => q \in GitState /\ GitOwn(q)
  BY GitAssumption DEF GitInit, GitState, GitOwn, GitIds
<1>2. q \in GitState /\ GitOwn(q) /\ [GitNext]_GitVars => (q \in GitState /\ GitOwn(q))'
  BY GitStep
<1>3. GitOwn(q) => GitOwnPlace
  BY DEF GitOwn, GitOwnPlace
<1> QED BY <1>1, <1>2, <1>3, PTL DEF GitSpec
-----------------------------------------------------------------------------
(* McpOverride *)

MoReq == [op : {"save", "delete"}, name : MoNames, names : SUBSET MoNames,
          stage : {"read", "write", "fill", "ok", "error"}]

MoState == [form : {"absent", "json", "broken", "torn"}, names : SUBSET MoNames,
            want : SUBSET MoNames, reqs : Seq(MoReq), faults : 0 .. MoMaxFaults]

Active(req) == req.stage \in {"read", "write", "fill"}

(* What a request is about to write is the file as it should be. *)
Going(s, req) ==
    /\ req.stage = "write" => s.form \in {"absent", "json"} /\ req.names = Changed(req, s.want)
    /\ req.stage = "fill" => s.form = "torn" /\ req.names = Changed(req, s.want)

MoOne(s) == \A i, j \in DOMAIN s.reqs : Active(s.reqs[i]) /\ Active(s.reqs[j]) => i = j

MoFile(s) ==
    /\ s.form # "torn" => s.names = s.want
    /\ s.form = "absent" => s.names = {}

MoInv ==
    /\ mo \in MoState /\ MoOne(mo) /\ MoFile(mo)
    /\ \A i \in DOMAIN mo.reqs : Going(mo, mo.reqs[i])

(* A request goes on: the others stay as they were. *)
LEMMA GoesOn ==
    ASSUME NEW s \in MoState, MoOne(s),
           NEW i \in DOMAIN s.reqs, Active(s.reqs[i]), NEW req \in MoReq,
           NEW n \in MoState, n.reqs = [s.reqs EXCEPT ![i] = req], MoFile(n), Going(n, req)
    PROVE  MoOne(n) /\ \A j \in DOMAIN n.reqs : Going(n, n.reqs[j])
<1>1. s.reqs \in Seq(MoReq)
  BY DEF MoState
<1>2. /\ DOMAIN n.reqs = DOMAIN s.reqs
      /\ \A j \in DOMAIN s.reqs : n.reqs[j] = IF j = i THEN req ELSE s.reqs[j]
  BY <1>1
<1>3. \A j \in DOMAIN s.reqs : j # i => ~Active(n.reqs[j])
  BY <1>2 DEF MoOne
<1>4. MoOne(n)
  BY <1>2, <1>3 DEF MoOne
<1>5. \A j \in DOMAIN s.reqs : j # i => Going(n, n.reqs[j])
  BY <1>3 DEF Active, Going
<1> QED BY <1>2, <1>4, <1>5

(* One request changed, they remain requests.                              *)
LEMMA MoSet ==
    ASSUME NEW s \in MoState, NEW i \in DOMAIN s.reqs, NEW req \in MoReq
    PROVE  [s.reqs EXCEPT ![i] = req] \in Seq(MoReq)
<1>1. s.reqs \in Seq(MoReq) /\ i \in DOMAIN s.reqs
  BY DEF MoState
<1> QED BY <1>1

(* The invariant is inductive: a request that is under way is the only     *)
(* one, and the file and what is wanted differ by what it is about to      *)
(* write.                                                                  *)
LEMMA MoStep ==
    ASSUME MoLapses = {}, MoInv, [MoNext]_MoVars
    PROVE  MoInv'
<1> USE MoAssumption
<1>1. ASSUME NEW op \in {"save", "delete"}, MoAsk(op)
      PROVE  MoInv'
  <2>1. PICK n \in MoNames, stage \in {"read", "error"} :
           mo' = [mo EXCEPT !.reqs = Append(@, [op |-> op, name |-> n, stage |-> stage, names |-> {}])]
    BY <1>1 DEF MoAsk
  <2> DEFINE req == [op |-> op, name |-> n, stage |-> stage, names |-> {}]
  <2>2. mo.reqs \in Seq(MoReq) /\ req \in MoReq /\ mo \in MoState
    BY DEF MoInv, MoState, MoReq
  <2>3. \A i \in DOMAIN mo.reqs : ~Active(mo.reqs[i])
    <3>1. ~MoUnderWay
      BY <1>1 DEF MoAsk
    <3> QED BY <3>1 DEF MoUnderWay, Active, Range
  <2>4. req.stage \in {"read", "error"}
    OBVIOUS
  <2> HIDE DEF req
  <2>5. /\ mo'.reqs = Append(mo.reqs, req)
        /\ mo' \in MoState
    <3>1. Append(mo.reqs, req) \in Seq(MoReq)
      BY <2>2
    <3> QED BY <2>1, <2>2, <3>1 DEF MoState, req
  <2>6. mo'.form = mo.form /\ mo'.names = mo.names /\ mo'.want = mo.want
    BY <2>1, <2>2 DEF MoState
  <2>7. /\ DOMAIN mo'.reqs = DOMAIN mo.reqs \cup {Len(mo.reqs) + 1}
        /\ mo'.reqs[Len(mo.reqs) + 1] = req
        /\ \A i \in DOMAIN mo.reqs : mo'.reqs[i] = mo.reqs[i]
    BY <2>2, <2>5
  <2>8. MoOne(mo') /\ \A i \in DOMAIN mo'.reqs : Going(mo', mo'.reqs[i])
    <3>1. \A i \in DOMAIN mo'.reqs : Active(mo'.reqs[i]) => i = Len(mo.reqs) + 1
      BY <2>3, <2>7
    <3>2. \A i \in DOMAIN mo'.reqs : mo'.reqs[i].stage \notin {"write", "fill"}
      BY <2>3, <2>4, <2>7 DEF Active
    <3> QED BY <3>1, <3>2 DEF MoOne, Going
  <2> QED BY <2>5, <2>6, <2>8 DEF MoInv, MoFile
<1>2. CASE ReadMCPsOverride
  <2>1. PICK i \in DOMAIN mo.reqs :
           LET req == mo.reqs[i]
               has == IF mo.form = "json" THEN mo.names ELSE {} IN
           /\ req.stage = "read"
           /\ mo' = IF Unreadable(mo.form) THEN [mo EXCEPT !.reqs[i].stage = "error"]
                    ELSE IF req.op = "delete" /\ req.name \notin has THEN [mo EXCEPT !.reqs[i].stage = "ok"]
                    ELSE [mo EXCEPT !.reqs[i] = [@ EXCEPT !.stage = "write", !.names = Changed(req, has)]]
    BY <1>2 DEF ReadMCPsOverride
  <2> DEFINE old == mo.reqs[i]
             has == IF mo.form = "json" THEN mo.names ELSE {}
             req == IF Unreadable(mo.form) THEN [old EXCEPT !.stage = "error"]
                    ELSE IF old.op = "delete" /\ old.name \notin has THEN [old EXCEPT !.stage = "ok"]
                    ELSE [old EXCEPT !.stage = "write", !.names = Changed(old, has)]
  <2>13. mo \in MoState /\ MoOne(mo) /\ MoFile(mo)
    BY DEF MoInv
  <2>2. old.stage = "read" /\ old \in MoReq
    <3>1. mo.reqs \in Seq(MoReq) /\ i \in DOMAIN mo.reqs
      BY <2>1, <2>13 DEF MoState
    <3> QED BY <2>1, <3>1
  <2>3. mo' = [mo EXCEPT !.reqs = [@ EXCEPT ![i] = req]]
    BY <2>1, <2>13 DEF MoState
  <2>4. ~Unreadable(mo.form) => mo.form \in {"absent", "json"} /\ has = mo.want
    BY <2>13 DEF Unreadable, MoFile, MoState
  <2>5. has \in SUBSET MoNames /\ Changed(old, has) \in SUBSET MoNames
    BY <2>2, <2>13 DEF MoState, MoReq, Changed
  <2> HIDE DEF has
  <2>6. req \in MoReq
    BY <2>2, <2>5 DEF MoReq
  <2>7. Going(mo, req)
    BY <2>2, <2>4 DEF Going, MoReq, Changed
  <2>8. mo' = [form |-> mo.form, names |-> mo.names, want |-> mo.want,
               reqs |-> [mo.reqs EXCEPT ![i] = req], faults |-> mo.faults]
    BY <2>3, <2>13 DEF MoState
  <2> HIDE DEF req
  <2>9. MoFile(mo') /\ Going(mo', req)
    BY <2>7, <2>8, <2>13 DEF MoFile, Going
  <2>10. i \in DOMAIN mo.reqs /\ Active(mo.reqs[i])
    BY <2>1 DEF Active
  <2>11. /\ mo.form \in {"absent", "json", "broken", "torn"} /\ mo.names \in SUBSET MoNames
         /\ mo.want \in SUBSET MoNames /\ mo.faults \in 0 .. MoMaxFaults
    BY <2>13 DEF MoState
  <2> HIDE DEF old
  <2>12. [mo.reqs EXCEPT ![i] = req] \in Seq(MoReq)
    BY <2>6, <2>13, MoSet
  <2>14. mo' \in MoState /\ mo'.reqs = [mo.reqs EXCEPT ![i] = req]
    BY <2>8, <2>11, <2>12 DEF MoState
  <2>15. MoOne(mo') /\ \A j \in DOMAIN mo'.reqs : Going(mo', mo'.reqs[j])
    BY <2>6, <2>9, <2>10, <2>13, <2>14, GoesOn
  <2> QED BY <2>9, <2>14, <2>15 DEF MoInv
<1>3. CASE WriteMCPsOverride
  <2>1. PICK i \in DOMAIN mo.reqs :
           /\ mo.reqs[i].stage = "write"
           /\ \/ mo' = [mo EXCEPT !.form = "torn", !.names = {}, !.reqs[i].stage = "fill"]
              \/ MoFault /\ mo' = MoFaulty([mo EXCEPT !.reqs[i].stage = "error"])
    BY <1>3 DEF WriteMCPsOverride
  <2> DEFINE old == mo.reqs[i]
  <2>2. /\ mo \in MoState /\ MoOne(mo) /\ MoFile(mo)
        /\ Going(mo, old) /\ Active(old) /\ mo.reqs \in Seq(MoReq)
    BY <2>1 DEF MoInv, MoState, Active
  <2>3. old \in MoReq /\ old.stage = "write"
    BY <2>1, <2>2
  <2>4. /\ mo.form \in {"absent", "json", "broken", "torn"} /\ mo.names \in SUBSET MoNames
        /\ mo.want \in SUBSET MoNames /\ mo.faults \in 0 .. MoMaxFaults
    BY <2>2 DEF MoState
  <2>5. CASE mo' = [mo EXCEPT !.form = "torn", !.names = {}, !.reqs[i].stage = "fill"]
    <3> DEFINE req == [old EXCEPT !.stage = "fill"]
    <3>1. mo' = [form |-> "torn", names |-> {}, want |-> mo.want,
                 reqs |-> [mo.reqs EXCEPT ![i] = req], faults |-> mo.faults]
      BY <2>2, <2>5 DEF MoState
    <3>2. req \in MoReq /\ req.stage = "fill" /\ req.names = old.names
          /\ Changed(req, mo.want) = Changed(old, mo.want)
      BY <2>3 DEF MoReq, Changed
    <3> HIDE DEF req, old
    <3>3. MoFile(mo') /\ Going(mo', req)
      BY <2>2, <2>3, <3>1, <3>2 DEF MoFile, Going
    <3>4. [mo.reqs EXCEPT ![i] = req] \in Seq(MoReq)
      BY <2>2, <3>2, MoSet
    <3>5. mo' \in MoState /\ mo'.reqs = [mo.reqs EXCEPT ![i] = req]
      BY <2>4, <3>1, <3>2, <3>4 DEF MoState
    <3>6. MoOne(mo') /\ \A j \in DOMAIN mo'.reqs : Going(mo', mo'.reqs[j])
      BY <2>2, <3>2, <3>3, <3>5, GoesOn DEF old
    <3> QED BY <3>3, <3>5, <3>6 DEF MoInv
  <2>6. CASE MoFault /\ mo' = MoFaulty([mo EXCEPT !.reqs[i].stage = "error"])
    <3> DEFINE req == [old EXCEPT !.stage = "error"]
    <3>1. mo' = [form |-> mo.form, names |-> mo.names, want |-> mo.want,
                 reqs |-> [mo.reqs EXCEPT ![i] = req], faults |-> mo.faults + 1]
      BY <2>2, <2>6 DEF MoState, MoFaulty
    <3>2. mo.faults + 1 \in 0 .. MoMaxFaults
      BY <2>2, <2>6 DEF MoState, MoFault
    <3>3. req \in MoReq /\ req.stage = "error"
      BY <2>3 DEF MoReq
    <3> HIDE DEF req, old
    <3>4. MoFile(mo') /\ Going(mo', req)
      BY <2>2, <3>1, <3>3 DEF MoFile, Going
    <3>5. [mo.reqs EXCEPT ![i] = req] \in Seq(MoReq)
      BY <2>2, <3>3, MoSet
    <3>6. mo' \in MoState /\ mo'.reqs = [mo.reqs EXCEPT ![i] = req]
      BY <2>4, <3>1, <3>2, <3>5 DEF MoState
    <3>7. MoOne(mo') /\ \A j \in DOMAIN mo'.reqs : Going(mo', mo'.reqs[j])
      BY <2>2, <3>3, <3>4, <3>6, GoesOn DEF old
    <3> QED BY <3>4, <3>6, <3>7 DEF MoInv
  <2> QED BY <2>1, <2>5, <2>6
<1>4. CASE FillMCPsOverride
  <2>1. PICK i \in DOMAIN mo.reqs :
           /\ mo.reqs[i].stage = "fill"
           /\ \/ mo' = [mo EXCEPT !.form = "json", !.names = mo.reqs[i].names, !.reqs[i].stage = "ok",
                                  !.want = Changed(mo.reqs[i], @)]
              \/ MoFault /\ mo' = MoFaulty([mo EXCEPT !.reqs[i].stage = "error"])
    BY <1>4 DEF FillMCPsOverride
  <2> DEFINE old == mo.reqs[i]
  <2>2. /\ mo \in MoState /\ MoOne(mo) /\ MoFile(mo)
        /\ Going(mo, old) /\ Active(old) /\ mo.reqs \in Seq(MoReq)
    BY <2>1 DEF MoInv, MoState, Active
  <2>3. old \in MoReq /\ old.stage = "fill"
    BY <2>1, <2>2
  <2>4. /\ mo.form \in {"absent", "json", "broken", "torn"} /\ mo.names \in SUBSET MoNames
        /\ mo.want \in SUBSET MoNames /\ mo.faults \in 0 .. MoMaxFaults
    BY <2>2 DEF MoState
  <2>5. CASE mo' = [mo EXCEPT !.form = "json", !.names = old.names, !.reqs[i].stage = "ok",
                              !.want = Changed(old, @)]
    <3> DEFINE req == [old EXCEPT !.stage = "ok"]
    <3>1. mo' = [form |-> "json", names |-> old.names, want |-> Changed(old, mo.want),
                 reqs |-> [mo.reqs EXCEPT ![i] = req], faults |-> mo.faults]
      BY <2>2, <2>5 DEF MoState
    <3>2. req \in MoReq /\ req.stage = "ok" /\ old.names \in SUBSET MoNames
          /\ old.names = Changed(old, mo.want)
      BY <2>2, <2>3 DEF MoReq, Going
    <3> HIDE DEF req, old
    <3>3. MoFile(mo') /\ Going(mo', req)
      BY <3>1, <3>2 DEF MoFile, Going
    <3>4. [mo.reqs EXCEPT ![i] = req] \in Seq(MoReq)
      BY <2>2, <3>2, MoSet
    <3>5. mo' \in MoState /\ mo'.reqs = [mo.reqs EXCEPT ![i] = req]
      BY <2>4, <3>1, <3>2, <3>4 DEF MoState
    <3>6. MoOne(mo') /\ \A j \in DOMAIN mo'.reqs : Going(mo', mo'.reqs[j])
      BY <2>2, <3>2, <3>3, <3>5, GoesOn DEF old
    <3> QED BY <3>3, <3>5, <3>6 DEF MoInv
  <2>6. CASE MoFault /\ mo' = MoFaulty([mo EXCEPT !.reqs[i].stage = "error"])
    <3> DEFINE req == [old EXCEPT !.stage = "error"]
    <3>1. mo' = [form |-> mo.form, names |-> mo.names, want |-> mo.want,
                 reqs |-> [mo.reqs EXCEPT ![i] = req], faults |-> mo.faults + 1]
      BY <2>2, <2>6 DEF MoState, MoFaulty
    <3>2. mo.faults + 1 \in 0 .. MoMaxFaults
      BY <2>2, <2>6 DEF MoState, MoFault
    <3>3. req \in MoReq /\ req.stage = "error"
      BY <2>3 DEF MoReq
    <3> HIDE DEF req, old
    <3>4. MoFile(mo') /\ Going(mo', req)
      BY <2>2, <3>1, <3>3 DEF MoFile, Going
    <3>5. [mo.reqs EXCEPT ![i] = req] \in Seq(MoReq)
      BY <2>2, <3>3, MoSet
    <3>6. mo' \in MoState /\ mo'.reqs = [mo.reqs EXCEPT ![i] = req]
      BY <2>4, <3>1, <3>2, <3>5 DEF MoState
    <3>7. MoOne(mo') /\ \A j \in DOMAIN mo'.reqs : Going(mo', mo'.reqs[j])
      BY <2>2, <3>3, <3>4, <3>6, GoesOn DEF old
    <3> QED BY <3>4, <3>6, <3>7 DEF MoInv
  <2> QED BY <2>1, <2>5, <2>6
<1>5. CASE MoKilled
  <2> DEFINE rs == [i \in DOMAIN mo.reqs |-> IF mo.reqs[i].stage \in {"ok", "error"} THEN mo.reqs[i]
                                             ELSE [mo.reqs[i] EXCEPT !.stage = "error"]]
  <2>1. /\ mo \in MoState /\ MoFile(mo) /\ mo.reqs \in Seq(MoReq)
        /\ \A i \in DOMAIN mo.reqs : mo.reqs[i] \in MoReq
    BY DEF MoInv, MoState
  <2>2. \A i \in DOMAIN mo.reqs : rs[i] \in MoReq /\ rs[i].stage \in {"ok", "error"}
    BY <2>1 DEF MoReq
  <2>3. DOMAIN rs = DOMAIN mo.reqs /\ rs \in Seq(MoReq)
    <3>1. DOMAIN mo.reqs = 1 .. Len(mo.reqs) /\ Len(mo.reqs) \in Nat
      BY <2>1
    <3>2. rs \in [1 .. Len(mo.reqs) -> MoReq]
      BY <2>2, <3>1
    <3> HIDE DEF rs
    <3> QED BY <3>1, <3>2
  <2>4. mo' = [mo EXCEPT !.reqs = rs, !.faults = @ + 1]
    BY <1>5, <2>1 DEF MoKilled, MoFaulty, MoState
  <2> HIDE DEF rs
  <2>5. mo.faults + 1 \in 0 .. MoMaxFaults
    BY <1>5, <2>1 DEF MoKilled, MoFault, MoState
  <2>6. mo' \in MoState /\ mo'.reqs = rs /\ MoFile(mo')
    BY <2>1, <2>3, <2>4, <2>5 DEF MoState, MoFile
  <2>7. MoOne(mo') /\ \A i \in DOMAIN mo'.reqs : Going(mo', mo'.reqs[i])
    BY <2>2, <2>3, <2>6 DEF MoOne, Going, Active
  <2> QED BY <2>6, <2>7 DEF MoInv
<1>6. CASE HandEdit
  <2>1. PICK names \in SUBSET MoNames, form \in {"json", "broken"} :
           mo' = MoFaulty([mo EXCEPT !.form = form, !.names = names, !.want = names])
    BY <1>6 DEF HandEdit
  <2>2. /\ mo \in MoState /\ MoOne(mo) /\ mo.reqs \in Seq(MoReq)
        /\ \A i \in DOMAIN mo.reqs : ~Active(mo.reqs[i])
    <3>1. mo \in MoState /\ MoOne(mo)
      BY DEF MoInv
    <3>2. mo.reqs \in Seq(MoReq)
      BY <3>1 DEF MoState
    <3>3. ~MoUnderWay
      BY <1>6 DEF HandEdit
    <3>4. \A i \in DOMAIN mo.reqs : ~Active(mo.reqs[i])
      BY <3>3 DEF MoUnderWay, Active, Range
    <3> QED BY <3>1, <3>2, <3>4
  <2>3. mo.faults + 1 \in 0 .. MoMaxFaults
    BY <1>6, <2>2 DEF HandEdit, MoFault, MoState
  <2>4. mo' = [mo EXCEPT !.form = form, !.names = names, !.want = names, !.faults = @ + 1]
    BY <2>1, <2>2 DEF MoFaulty, MoState
  <2>5. mo' \in MoState /\ mo'.reqs = mo.reqs /\ MoFile(mo')
    BY <2>2, <2>3, <2>4 DEF MoState, MoFile
  <2>6. MoOne(mo') /\ \A i \in DOMAIN mo'.reqs : Going(mo', mo'.reqs[i])
    BY <2>2, <2>5 DEF MoOne, Going, Active
  <2> QED BY <2>5, <2>6 DEF MoInv
<1>7. CASE UNCHANGED MoVars
  BY <1>7 DEF MoVars, MoInv
<1> QED BY <1>1, <1>2, <1>3, <1>4, <1>5, <1>6, <1>7 DEF MoNext, HandleMCPSave, HandleMCPDelete

(* The file of the override holds what was acknowledged and what the user  *)
(* wrote, unless a write was cut short, whatever fails in between          *)
(* (main.ts, the handlers of the MCP override). It is so but for the two   *)
(* lapses McpOverride names, edits that overlap and a file without         *)
(* mcpServers.                                                             *)
THEOREM OverrideKept ==
    ASSUME MoLapses = {}
    PROVE  MoSpec => []MoKept
<1>1. MoInit => MoInv
  BY MoAssumption DEF MoInit, MoInv, MoState, MoOne, MoFile, Going
<1>2. MoInv /\ [MoNext]_MoVars => MoInv'
  BY MoStep
<1>3. MoInv => MoKept
  BY DEF MoInv, MoFile, MoKept
<1> QED BY <1>1, <1>2, <1>3, PTL DEF MoSpec
-----------------------------------------------------------------------------
(* FileRequests *)

FrOps == {"list", "read", "write", "remove", "create_file", "create_directory", "delete", "rename"}
FrStages == {"look", "deed", "fill", "ok", "error"}

FrReq == [op : FrOps, from : FrPaths, to : FrPaths, looked : Nat, over : Nat, node : Nat,
          stage : FrStages]

Contents == Int \ {Absent}

FrState == [at : [FrPaths -> Nat], nodes : Seq(Contents), reqs : Seq(FrReq), agent : Nat]

(* Every path leads to a node that there is. *)
Leads(s) == \A p \in FrPaths : s.at[p] <= Len(s.nodes)

(* A rename found nothing where it looked. *)
FoundNothing(req) == req.op = "rename" => req.looked = 0

FrGood(s) ==
    /\ s \in FrState /\ Leads(s)
    /\ \A i \in DOMAIN s.reqs : FoundNothing(s.reqs[i])

(* A node that is created is at its path and at no other.                  *)
LEMMA NewKeeps ==
    ASSUME NEW s, FrGood(s), NEW p \in FrPaths, NEW content \in Contents
    PROVE  FrGood(New(s, p, content)) /\ New(s, p, content).reqs = s.reqs
<1> DEFINE n == New(s, p, content)
           l == Len(s.nodes) + 1
<1>0. s \in FrState /\ Leads(s) /\ \A i \in DOMAIN s.reqs : FoundNothing(s.reqs[i])
  BY DEF FrGood
<1>1. s.nodes \in Seq(Contents) /\ s.at \in [FrPaths -> Nat] /\ Len(s.nodes) \in Nat
  BY <1>0 DEF FrState
<1>2. Append(s.nodes, content) \in Seq(Contents) /\ Len(Append(s.nodes, content)) = l /\ l \in Nat
  BY <1>1
<1>3. [s.at EXCEPT ![p] = l] \in [FrPaths -> Nat]
  BY <1>1, <1>2
<1>4. n = [s EXCEPT !.nodes = Append(s.nodes, content), !.at = [s.at EXCEPT ![p] = l]]
  BY <1>0 DEF New, FrState
<1> HIDE DEF n, l
<1>5. /\ n \in FrState /\ n.reqs = s.reqs
      /\ n.at = [s.at EXCEPT ![p] = l] /\ n.nodes = Append(s.nodes, content)
  BY <1>0, <1>2, <1>3, <1>4 DEF FrState
<1>6. Leads(n)
  BY <1>0, <1>1, <1>2, <1>5 DEF Leads, l
<1> QED BY <1>0, <1>5, <1>6 DEF FrGood, n

(* A path that is given up, or that leads where another did. *)
LEMMA PathKeeps ==
    ASSUME NEW s, FrGood(s), NEW at \in [FrPaths -> Nat], \A p \in FrPaths : at[p] <= Len(s.nodes)
    PROVE  FrGood([s EXCEPT !.at = at])
<1> DEFINE n == [s EXCEPT !.at = at]
<1>1. n \in FrState /\ n.at = at /\ n.nodes = s.nodes /\ n.reqs = s.reqs
  BY DEF FrGood, FrState
<1> HIDE DEF n
<1>2. FrGood(n)
  BY <1>1 DEF FrGood, Leads
<1> QED BY <1>2 DEF n

(* What a node holds is of no matter to where it is.                       *)
LEMMA ContentKeeps ==
    ASSUME NEW s, FrGood(s), NEW k, NEW content \in Contents
    PROVE  FrGood([s EXCEPT !.nodes[k] = content])
<1> DEFINE ns == [s.nodes EXCEPT ![k] = content]
           n == [s EXCEPT !.nodes = ns]
<1>1. s.nodes \in Seq(Contents)
  BY DEF FrGood, FrState
<1>2. ns \in Seq(Contents) /\ Len(ns) = Len(s.nodes)
  <2>1. s.nodes \in [1 .. Len(s.nodes) -> Contents] /\ Len(s.nodes) \in Nat
    BY <1>1
  <2>2. ns \in [1 .. Len(s.nodes) -> Contents]
    BY <2>1
  <2> HIDE DEF ns
  <2> QED BY <2>1, <2>2
<1> HIDE DEF ns
<1>3. n \in FrState /\ n.at = s.at /\ n.nodes = ns /\ n.reqs = s.reqs
  BY <1>2 DEF FrGood, FrState
<1> HIDE DEF n
<1>4. FrGood(n)
  BY <1>2, <1>3 DEF FrGood, Leads
<1> QED BY <1>4 DEF n, ns

(* A request that goes on keeps what it is and what it saw. *)
LEMMA RequestKeeps ==
    ASSUME NEW s, FrGood(s), NEW i \in DOMAIN s.reqs, NEW req \in FrReq, FoundNothing(req)
    PROVE  LET n == [s EXCEPT !.reqs = [s.reqs EXCEPT ![i] = req]]
           IN  FrGood(n) /\ n.reqs = [s.reqs EXCEPT ![i] = req]
<1> DEFINE rs == [s.reqs EXCEPT ![i] = req]
           n == [s EXCEPT !.reqs = rs]
<1>1. s.reqs \in Seq(FrReq) /\ i \in DOMAIN s.reqs
  BY DEF FrGood, FrState
<1>2. /\ rs \in Seq(FrReq) /\ DOMAIN rs = DOMAIN s.reqs
      /\ \A j \in DOMAIN s.reqs : rs[j] = IF j = i THEN req ELSE s.reqs[j]
  BY <1>1
<1>3. \A j \in DOMAIN rs : FoundNothing(rs[j])
  BY <1>2 DEF FrGood
<1> HIDE DEF rs
<1>4. n \in FrState /\ n.at = s.at /\ n.nodes = s.nodes /\ n.reqs = rs
  BY <1>2 DEF FrGood, FrState
<1> HIDE DEF n
<1>5. FrGood(n)
  BY <1>3, <1>4 DEF FrGood, Leads
<1> QED BY <1>4, <1>5 DEF rs, n

(* A request of the state, and what it found.                              *)
LEMMA RequestOf ==
    ASSUME NEW s, FrGood(s), NEW i \in DOMAIN s.reqs
    PROVE  s.reqs[i] \in FrReq /\ FoundNothing(s.reqs[i])
<1>1. s.reqs \in Seq(FrReq)
  BY DEF FrGood, FrState
<1> QED BY <1>1 DEF FrGood

(* An answer moves no node.                                                *)
LEMMA FrAnswerKeeps ==
    ASSUME NEW s, FrGood(s), NEW i \in DOMAIN s.reqs, NEW stage \in FrStages
    PROVE  FrGood(FrAnswer(s, i, stage))
<1> DEFINE req == [s.reqs[i] EXCEPT !.stage = stage]
<1>1. s.reqs[i] \in FrReq /\ FoundNothing(s.reqs[i])
  BY RequestOf
<1>2. req \in FrReq /\ FoundNothing(req)
  BY <1>1 DEF FrReq, FoundNothing
<1>3. FrAnswer(s, i, stage) = [s EXCEPT !.reqs = [s.reqs EXCEPT ![i] = req]]
  BY DEF FrAnswer, FrGood, FrState
<1> HIDE DEF req
<1> QED BY <1>2, <1>3, RequestKeeps

(* Where nothing is held no node is.                                       *)
LEMMA HeldAbsent ==
    ASSUME NEW p \in FrPaths, FrGood(fr), Held(p) = Absent
    PROVE  fr.at[p] = 0
<1>1. /\ fr.at[p] \in Nat /\ fr.at[p] <= Len(fr.nodes)
      /\ fr.nodes \in Seq(Contents) /\ Len(fr.nodes) \in Nat
  BY DEF FrGood, FrState, Leads
<1>2. CASE fr.at[p] # 0
  <2>1. fr.nodes[fr.at[p]] \in Contents
    BY <1>1, <1>2
  <2> QED BY <1>2, <2>1 DEF Held, Contents, Absent
<1> QED BY <1>2

(* A request that arrives.                                                 *)
LEMMA AskKeeps ==
    ASSUME FrGood(fr), NEW op \in FrOps, NEW from \in FrPaths, NEW to \in FrPaths,
           NEW stage \in FrStages, FrAsk(op, from, to, stage)
    PROVE  FrGood(fr')
<1>1. PICK st \in FrStages :
         fr' = [fr EXCEPT !.reqs = Append(@, [op |-> op, from |-> from, to |-> to, looked |-> 0,
                                              over |-> 0, node |-> 0, stage |-> st])]
  BY DEF FrAsk, FrStages
<1> DEFINE req == [op |-> op, from |-> from, to |-> to, looked |-> 0, over |-> 0, node |-> 0, stage |-> st]
<1>2. fr \in FrState /\ fr.reqs \in Seq(FrReq) /\ req \in FrReq /\ FoundNothing(req)
  BY DEF FrGood, FrState, FrReq, FoundNothing
<1> HIDE DEF req
<1>3. /\ Append(fr.reqs, req) \in Seq(FrReq)
      /\ \A i \in DOMAIN Append(fr.reqs, req) :
            (i \in DOMAIN fr.reqs /\ Append(fr.reqs, req)[i] = fr.reqs[i]) \/ Append(fr.reqs, req)[i] = req
  BY <1>2
<1>4. fr' = [fr EXCEPT !.reqs = Append(fr.reqs, req)]
  BY <1>1 DEF req
<1>5. /\ fr' \in FrState /\ fr'.at = fr.at /\ fr'.nodes = fr.nodes
      /\ fr'.reqs = Append(fr.reqs, req)
  BY <1>2, <1>3, <1>4 DEF FrState
<1> QED BY <1>2, <1>3, <1>5 DEF FrGood, Leads

(* The invariant is inductive.                                             *)
LEMMA FrStep ==
    ASSUME FrGood(fr), [FrNext]_FrVars
    PROVE  FrGood(fr')
<1>1. CASE HandleFileList \/ HandleFileSearch \/ HandleFileRead \/ HandleSkillReadFile
           \/ HandleFileWrite \/ HandleSkillSaveFile \/ HandleSkillDelete \/ HandleFileOperation
  BY <1>1, AskKeeps
     DEF HandleFileList, HandleFileSearch, HandleFileRead, HandleSkillReadFile, HandleFileWrite,
         HandleSkillSaveFile, HandleSkillDelete, HandleFileOperation, FrOps, FrStages
<1>2. CASE FrLook
  <2>1. PICK i \in DOMAIN fr.reqs :
           fr' = [fr EXCEPT !.reqs[i] = IF Passes(fr.reqs[i].op, Held(fr.reqs[i].to))
                                        THEN [fr.reqs[i] EXCEPT !.stage = "deed", !.looked = fr.at[fr.reqs[i].to]]
                                        ELSE [fr.reqs[i] EXCEPT !.stage = "error"]]
    BY <1>2 DEF FrLook
  <2> DEFINE old == fr.reqs[i]
             req == IF Passes(old.op, Held(old.to))
                    THEN [old EXCEPT !.stage = "deed", !.looked = fr.at[old.to]]
                    ELSE [old EXCEPT !.stage = "error"]
  <2>2. old \in FrReq /\ FoundNothing(old)
    BY RequestOf
  <2>3. fr.at[old.to] \in Nat
    BY <2>2 DEF FrGood, FrState, FrReq
  <2>4. Passes(old.op, Held(old.to)) /\ old.op = "rename" => fr.at[old.to] = 0
    BY <2>2, HeldAbsent DEF Passes, FrReq
  <2>5. req \in FrReq /\ FoundNothing(req)
    BY <2>2, <2>3, <2>4 DEF FrReq, FoundNothing, FrStages
  <2>6. fr' = [fr EXCEPT !.reqs = [fr.reqs EXCEPT ![i] = req]]
    BY <2>1 DEF FrGood, FrState
  <2> HIDE DEF req, old
  <2> QED BY <2>5, <2>6, RequestKeeps
<1>3. CASE FrRead
  BY <1>3, FrAnswerKeeps DEF FrRead, FrStages
<1>4. CASE FrOpen
  <2>1. PICK i \in DOMAIN fr.reqs :
           LET to == fr.reqs[i].to
               opened == IF Over(i) = Absent THEN New(fr, to, Torn) ELSE [fr EXCEPT !.nodes[fr.at[to]] = Torn] IN
           fr' = IF Over(i) = Directory THEN FrAnswer(fr, i, "error")
                 ELSE FrAnswer([opened EXCEPT !.reqs[i].node = opened.at[to]], i, "fill")
    BY <1>4 DEF FrOpen
  <2> DEFINE old == fr.reqs[i]
             opened == IF Over(i) = Absent THEN New(fr, old.to, Torn)
                       ELSE [fr EXCEPT !.nodes[fr.at[old.to]] = Torn]
             req == [opened.reqs[i] EXCEPT !.node = opened.at[old.to]]
  <2>2. old \in FrReq /\ old.to \in FrPaths /\ Torn \in Contents
    BY RequestOf DEF FrReq, Contents, Torn, Absent
  <2>3. FrGood(opened) /\ opened.reqs = fr.reqs
    BY <2>2, NewKeeps, ContentKeeps DEF FrGood, FrState
  <2>4. fr' = IF Over(i) = Directory THEN FrAnswer(fr, i, "error")
              ELSE FrAnswer([opened EXCEPT !.reqs[i].node = opened.at[old.to]], i, "fill")
    BY <2>1
  <2> HIDE DEF old, opened
  <2>5. [opened EXCEPT !.reqs[i].node = opened.at[old.to]] = [opened EXCEPT !.reqs = [opened.reqs EXCEPT ![i] = req]]
    BY <2>3 DEF FrGood, FrState
  <2>6. opened.at[old.to] \in Nat /\ opened.reqs[i] \in FrReq /\ FoundNothing(opened.reqs[i])
    BY <2>2, <2>3, RequestOf DEF FrGood, FrState
  <2>7. req \in FrReq /\ FoundNothing(req) /\ i \in DOMAIN opened.reqs
    BY <2>3, <2>6 DEF FrReq, FoundNothing
  <2> DEFINE set == [opened EXCEPT !.reqs = [opened.reqs EXCEPT ![i] = req]]
  <2> HIDE DEF req
  <2>8. FrGood(set) /\ i \in DOMAIN set.reqs
    BY <2>3, <2>7, RequestKeeps
  <2>9. fr' = FrAnswer(fr, i, "error") \/ fr' = FrAnswer(set, i, "fill")
    BY <2>4, <2>5
  <2> HIDE DEF set
  <2> QED BY <2>8, <2>9, FrAnswerKeeps DEF FrStages
<1>5. CASE FrFill
  <2>1. PICK i \in DOMAIN fr.reqs :
           fr' = FrAnswer([fr EXCEPT !.nodes[fr.reqs[i].node] = i], i, "ok")
    BY <1>5 DEF FrFill
  <2> DEFINE filled == [fr EXCEPT !.nodes[fr.reqs[i].node] = i]
  <2>2. i \in Contents
    BY DEF FrGood, FrState, Contents, Absent
  <2>3. FrGood(filled)
    BY <2>2, ContentKeeps
  <2>4. filled.reqs = fr.reqs
    BY DEF FrGood, FrState
  <2> HIDE DEF filled
  <2> QED BY <2>1, <2>3, <2>4, FrAnswerKeeps DEF FrStages, filled
<1>6. CASE FrCreate
  <2>1. PICK i \in DOMAIN fr.reqs, op \in {"create_file", "create_directory"} :
           fr' = IF Over(i) # Absent THEN FrAnswer(fr, i, "error")
                 ELSE FrAnswer(New(fr, fr.reqs[i].to, IF op = "create_file" THEN i ELSE Directory), i, "ok")
    BY <1>6 DEF FrCreate
  <2>2. (IF op = "create_file" THEN i ELSE Directory) \in Contents
    BY DEF FrGood, FrState, Contents, Absent, Directory
  <2>3. fr.reqs[i].to \in FrPaths
    BY RequestOf DEF FrReq
  <2> QED BY <2>1, <2>2, <2>3, NewKeeps, FrAnswerKeeps DEF FrStages
<1>7. CASE FrRename
  <2>1. PICK i \in DOMAIN fr.reqs :
           LET from == fr.reqs[i].from
               to == fr.reqs[i].to IN
           \/ fr' = FrAnswer(fr, i, "error")
           \/ fr' = FrAnswer([fr EXCEPT !.at[to] = fr.at[from], !.at[from] = 0, !.reqs[i].over = fr.at[to]], i, "ok")
    BY <1>7 DEF FrRename
  <2> DEFINE old == fr.reqs[i]
             at == [[fr.at EXCEPT ![old.to] = fr.at[old.from]] EXCEPT ![old.from] = 0]
             req == [old EXCEPT !.over = fr.at[old.to]]
             moved == [fr EXCEPT !.at = at]
             set == [moved EXCEPT !.reqs = [moved.reqs EXCEPT ![i] = req]]
  <2>2. old \in FrReq /\ FoundNothing(old) /\ old.from \in FrPaths /\ old.to \in FrPaths
    BY RequestOf DEF FrReq
  <2>3. fr.at \in [FrPaths -> Nat] /\ Len(fr.nodes) \in Nat /\ \A p \in FrPaths : fr.at[p] <= Len(fr.nodes)
    BY DEF FrGood, FrState, Leads
  <2>4. at \in [FrPaths -> Nat] /\ \A p \in FrPaths : at[p] <= Len(fr.nodes)
    BY <2>2, <2>3
  <2>5. req \in FrReq /\ FoundNothing(req)
    BY <2>2, <2>3 DEF FrReq, FoundNothing
  <2>6. [fr EXCEPT !.at[old.to] = fr.at[old.from], !.at[old.from] = 0, !.reqs[i].over = fr.at[old.to]] = set
    BY DEF FrGood, FrState
  <2>7. fr' = FrAnswer(fr, i, "error") \/ fr' = FrAnswer(set, i, "ok")
    BY <2>1, <2>6
  <2> HIDE DEF old, at, req
  <2>8. FrGood(moved) /\ moved.reqs = fr.reqs
    BY <2>4, PathKeeps DEF FrGood, FrState
  <2> HIDE DEF moved
  <2>9. FrGood(set) /\ i \in DOMAIN set.reqs
    BY <2>5, <2>8, RequestKeeps
  <2> HIDE DEF set
  <2> QED BY <2>7, <2>9, FrAnswerKeeps DEF FrStages
<1>8. CASE FrRemove
  <2>1. PICK i \in DOMAIN fr.reqs, stage \in FrStages :
           fr' = FrAnswer(fr, i, stage) \/ fr' = FrAnswer([fr EXCEPT !.at[fr.reqs[i].to] = 0], i, "ok")
    BY <1>8 DEF FrRemove, FrStages
  <2> DEFINE gone == [fr EXCEPT !.at = [fr.at EXCEPT ![fr.reqs[i].to] = 0]]
  <2>2. FrGood(gone) /\ gone.reqs = fr.reqs
    <3>1. fr.at \in [FrPaths -> Nat] /\ Len(fr.nodes) \in Nat /\ \A p \in FrPaths : fr.at[p] <= Len(fr.nodes)
      BY DEF FrGood, FrState, Leads
    <3> DEFINE at == [fr.at EXCEPT ![fr.reqs[i].to] = 0]
    <3>4. fr.reqs[i].to \in FrPaths
      BY RequestOf DEF FrReq
    <3>2. at \in [FrPaths -> Nat] /\ \A p \in FrPaths : at[p] <= Len(fr.nodes)
      BY <3>1, <3>4
    <3> HIDE DEF at
    <3>3. FrGood([fr EXCEPT !.at = at]) /\ [fr EXCEPT !.at = at].reqs = fr.reqs
      BY <3>2, PathKeeps DEF FrGood, FrState
    <3> QED BY <3>3 DEF at
  <2>3. fr' = FrAnswer(fr, i, stage) \/ fr' = FrAnswer(gone, i, "ok")
    BY <2>1
  <2> HIDE DEF gone
  <2> QED BY <2>2, <2>3, FrAnswerKeeps DEF FrStages
<1>9. CASE AgentWrites
  <2>1. PICK p \in FrPaths :
           \/ fr' = [fr EXCEPT !.agent = @ + 1, !.at[p] = 0]
           \/ fr' = New([fr EXCEPT !.agent = @ + 1], p, Agents)
    BY <1>9 DEF AgentWrites
  <2> DEFINE more == [fr EXCEPT !.agent = fr.agent + 1]
             at == [fr.at EXCEPT ![p] = 0]
  <2>2. more \in FrState /\ more.at = fr.at /\ more.nodes = fr.nodes /\ more.reqs = fr.reqs
    BY SMTT(30) DEF FrGood, FrState
  <2>3. FrGood(more)
    BY <2>2 DEF FrGood, Leads
  <2>4. at \in [FrPaths -> Nat] /\ \A r \in FrPaths : at[r] <= Len(more.nodes)
    <3>1. fr.at \in [FrPaths -> Nat] /\ Len(fr.nodes) \in Nat /\ \A r \in FrPaths : fr.at[r] <= Len(fr.nodes)
      BY DEF FrGood, FrState, Leads
    <3> QED BY <2>2, <3>1
  <2>5. fr' = [more EXCEPT !.at = at] \/ fr' = New(more, p, Agents)
    BY <2>1 DEF FrGood, FrState
  <2> HIDE DEF more, at
  <2>6. Agents \in Contents
    BY DEF Contents, Agents, Absent
  <2>7. CASE fr' = [more EXCEPT !.at = at]
    BY <2>3, <2>4, <2>7, PathKeeps
  <2>8. CASE fr' = New(more, p, Agents)
    BY <2>3, <2>6, <2>8, NewKeeps
  <2> QED BY <2>5, <2>7, <2>8
<1>10. CASE UNCHANGED FrVars
  BY <1>10 DEF FrVars
<1> QED BY <1>1, <1>2, <1>3, <1>4, <1>5, <1>6, <1>7, <1>8, <1>9, <1>10 DEF FrNext

(* What a rename replaces came after it looked: it never ends a file that  *)
(* it found (main.ts, the file handlers), however requests and the work of *)
(* the agent overlap.                                                      *)
THEOREM RenameSpares == FrSpec => []FrSpared
<1>1. FrInit => FrGood(fr)
  <2> SUFFICES ASSUME FrInit PROVE FrGood(fr)
    OBVIOUS
  <2>1. PICK there \in SUBSET FrPaths :
           fr = [at |-> [p \in FrPaths |-> IF p \in there THEN p ELSE 0], nodes |-> [p \in FrPaths |-> Agents],
                 reqs |-> <<>>, agent |-> 0]
    BY DEF FrInit
  <2> DEFINE k == Cardinality(FrPaths)
  <2>2. k \in Nat /\ FrPaths = 1 .. k
    BY FrAssumption
  <2> HIDE DEF k
  <2>3. fr.nodes \in Seq(Contents) /\ Len(fr.nodes) = k
    <3>1. fr.nodes \in [1 .. k -> Contents]
      BY <2>1, <2>2 DEF Contents, Agents, Absent
    <3> QED BY <2>2, <3>1
  <2>4. fr.at \in [FrPaths -> Nat] /\ \A p \in FrPaths : fr.at[p] <= k
    BY <2>1, <2>2
  <2>5. fr \in FrState /\ fr.reqs = <<>>
    BY <2>1, <2>3, <2>4 DEF FrState
  <2> QED BY <2>3, <2>4, <2>5 DEF FrGood, Leads
<1>2. FrGood(fr) /\ [FrNext]_FrVars => FrGood(fr)'
  BY FrStep
<1>3. FrGood(fr) => FrSpared
  BY DEF FrGood, FoundNothing, FrSpared, Range
<1> QED BY <1>1, <1>2, <1>3, PTL DEF FrSpec
=============================================================================
