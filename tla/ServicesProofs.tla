-------------------------- MODULE ServicesProofs --------------------------
(***************************************************************************)
(* The services beside the pipeline, each for every value of its           *)
(* constants: the versions of a chapter's prompt, the gates of the review, *)
(* the memory of accepted chapters, the model configurations of projects   *)
(* and of the system, and the channels with their default model.           *)
(*                                                                         *)
(* The components do not touch each other's state.  Each has its own part  *)
(* of this module, with its invariant, a lemma for each action and the     *)
(* theorems; the last part is about MCServices, which runs them side by    *)
(* side with the abstract leases.                                          *)
(***************************************************************************)
EXTENDS MCServices, JobLeaseProofs, FiniteSetTheorems, SequenceTheorems

(**************************** PromptVersions *****************************)

(***************************************************************************)
(* The versions of a chapter's prompt, for any number of handlers, rows    *)
(* and edits.                                                              *)
(*                                                                         *)
(* VersionsFollowCreation.  Within one era -- from one deletion of the     *)
(* prompts to the next -- the rows that are present hold the versions 1 to *)
(* some n in their order; a builder of the era holds at most n + 1, and    *)
(* the index keeps flushed versions apart from each other and from those.  *)
(*                                                                         *)
(* OneApproved.  While approvals do not overlap at most one is under way,  *)
(* and what is approved is the row it approves or one it supersedes.       *)
(***************************************************************************)

\* there is a newest row (NextVersion chooses it)
HasNewest ==
  Present # {} => \E i \in Present : \A j \in Present : prompts[j].version <= prompts[i].version

\* all versions are taken up to that of the latest row, in the order of creation
Dense ==
  OfThisEra =>
    /\ \A i, j \in Present : i < j => prompts[i].version < prompts[j].version
    /\ \A i \in Present : prompts[i].version > 0 /\ 1..prompts[i].version \subseteq Taken

IsBuilding(b) == builder[b].pc \in {"building", "flushed"}

\* the number a builder of this era has chosen is taken or the next one
Chosen ==
  OfThisEra =>
    \A b \in Builders : IsBuilding(b) /\ builder[b].era = promptInfo.era
      => builder[b].version > 0 /\ 1..builder[b].version - 1 \subseteq Taken

\* what the unique index guarantees
Indexed ==
  \A b \in Builders : builder[b].pc = "flushed" =>
    /\ \A i \in Present : prompts[i].version # builder[b].version
    /\ \A c \in Builders \ {b} : builder[c].pc = "flushed" => builder[c].version # builder[b].version

Eras ==
  /\ \A i \in DOMAIN prompts : prompts[i].era <= promptInfo.era
  /\ \A b \in Builders : IsBuilding(b) => builder[b].era <= promptInfo.era

Numbers == HasNewest /\ Dense /\ Chosen /\ Indexed /\ Eras

Approvals ==
  /\ \A b \in Builders : builder[b].pc = "approving" =>
       builder[b].row \in DOMAIN prompts /\ builder[b].losers \subseteq DOMAIN prompts
  /\ ~ promptInfo.overlapped =>
       /\ \A b, c \in Builders :
            builder[b].pc = "approving" /\ builder[c].pc = "approving" => b = c
       /\ \A i, j \in Approved : i = j
       /\ \A b \in Builders : builder[b].pc = "approving" =>
            \A i \in Approved : i = builder[b].row \/ i \in builder[b].losers

PromptInv == PromptTypeOK /\ Numbers /\ Approvals

(******************************** the types *******************************)

LEMMA SeqOfFunction ==
  ASSUME NEW S, NEW n \in Nat, NEW f \in [1..n -> S]
  PROVE  f \in Seq(S) /\ DOMAIN f = 1..n /\ Len(f) = n
  BY SeqDef

LEMMA RowTypes ==
  ASSUME PromptTypeOK
  PROVE  /\ Len(prompts) \in Nat /\ DOMAIN prompts = 1..Len(prompts)
         /\ prompts \in [1..Len(prompts) -> PromptRow]
         /\ \A i \in DOMAIN prompts : prompts[i] \in PromptRow /\ prompts[i].version \in Nat
<1>1. prompts \in Seq(PromptRow)
  BY DEF PromptTypeOK
<1>2. Len(prompts) \in Nat /\ DOMAIN prompts = 1..Len(prompts)
  BY <1>1, LenProperties
<1>3. \A i \in DOMAIN prompts : prompts[i] \in PromptRow
  BY <1>1, <1>2, ElementOfSeq
<1>4. prompts \in [1..Len(prompts) -> PromptRow]
  BY <1>1, LenProperties
<1>5. QED
  BY <1>2, <1>3, <1>4 DEF PromptRow

LEMMA NextVersionIsNext ==
  ASSUME PromptTypeOK, Numbers
  PROVE  /\ NextVersion \in Nat
         /\ OfThisEra => NextVersion > 0 /\ 1..NextVersion - 1 \subseteq Taken
<1>1. CASE Present = {}
  BY <1>1 DEF NextVersion
<1>2. CASE Present # {}
  <2> DEFINE top == Newest(Present)
  <2>1. top \in Present /\ \A j \in Present : prompts[j].version <= prompts[top].version
    BY <1>2 DEF Numbers, HasNewest, Newest
  <2>2. NextVersion = prompts[top].version + 1
    BY <1>2 DEF NextVersion
  <2> HIDE DEF top
  <2>3. prompts[top].version \in Nat
    BY <2>1, RowTypes DEF Present
  <2>4. NextVersion \in Nat /\ NextVersion > 0 /\ NextVersion - 1 = prompts[top].version
    BY <2>2, <2>3
  <2>5. OfThisEra => 1..prompts[top].version \subseteq Taken
    BY <2>1 DEF Numbers, Dense
  <2>6. QED
    BY <2>4, <2>5
<1>3. QED
  BY <1>1, <1>2

(*********************** steps that keep the numbers **********************)

\* a step that changes what users see of a row, but neither its number nor its presence
SameRows ==
  /\ DOMAIN prompts' = DOMAIN prompts
  /\ \A i \in DOMAIN prompts :
       /\ prompts'[i].version = prompts[i].version /\ prompts'[i].era = prompts[i].era
       /\ prompts'[i].status = "deleted" <=> prompts[i].status = "deleted"

\* a step after which no builder builds that did not before
NoNewBuilders ==
  \A b \in Builders : builder'[b] = builder[b] \/ builder'[b].pc \notin {"building", "flushed"}

LEMMA NumbersKept ==
  ASSUME PromptTypeOK, Numbers, SameRows, NoNewBuilders, promptInfo'.era = promptInfo.era
  PROVE  Numbers'
<1>1. Present' = Present /\ Present \subseteq DOMAIN prompts
  BY DEF Present, SameRows
<1>2. /\ \A i \in Present : prompts'[i].version = prompts[i].version
      /\ \A i \in Present : prompts'[i].era = prompts[i].era
  BY <1>1 DEF SameRows
<1>3. OfThisEra' <=> OfThisEra
  BY <1>1, <1>2 DEF OfThisEra
<1>4. Taken' = Taken
  BY <1>1, <1>2 DEF Taken
<1>5. HasNewest'
  BY <1>1, <1>2 DEF Numbers, HasNewest
<1>6. Dense'
  BY <1>1, <1>2, <1>3, <1>4 DEF Numbers, Dense
<1>7. Chosen'
  BY <1>1, <1>2, <1>3, <1>4 DEF Numbers, Chosen, IsBuilding, NoNewBuilders
<1>8. Indexed'
  BY <1>1, <1>2 DEF Numbers, Indexed, NoNewBuilders
<1>9. Eras'
  BY DEF Numbers, Eras, IsBuilding, NoNewBuilders, SameRows
<1>10. QED
  BY <1>5, <1>6, <1>7, <1>8, <1>9 DEF Numbers

\* a step that approves nothing and lets no approval begin
LEMMA ApprovalsKept ==
  ASSUME Approvals, Approved' \subseteq Approved, DOMAIN prompts \subseteq DOMAIN prompts',
         \A b \in Builders : builder'[b] = builder[b] \/ builder'[b].pc # "approving",
         promptInfo'.overlapped = promptInfo.overlapped
  PROVE  Approvals'
<1>1. \A b \in Builders : builder'[b].pc = "approving" => builder'[b] = builder[b]
  OBVIOUS
<1>2. QED
  BY <1>1 DEF Approvals

(******************************** generation ******************************)

LEMMA IdleType == IdleBuilder \in BuilderRow /\ IdleBuilder.pc = "idle"
  BY DEF IdleBuilder, BuilderRow

LEMMA StartBuildingKeeps ==
  ASSUME PromptInv, NEW b \in Builders, StartBuilding(b) PROVE PromptInv'
<1> DEFINE new == [IdleBuilder EXCEPT !.pc = "building", !.version = NextVersion,
                                      !.era = promptInfo.era]
<1>1. builder' = [builder EXCEPT ![b] = new] /\ UNCHANGED <<prompts, promptInfo>>
  BY DEF StartBuilding
<1>2. promptInfo.era \in Nat /\ NextVersion \in Nat
  BY NextVersionIsNext DEF PromptInv, PromptTypeOK
<1>3. /\ new \in BuilderRow /\ new.pc = "building" /\ new.version = NextVersion
      /\ new.era = promptInfo.era
  BY <1>2, IdleType DEF BuilderRow
<1> HIDE DEF new
<1>4. PromptTypeOK'
  BY <1>1, <1>3 DEF PromptInv, PromptTypeOK
<1>5. /\ builder'[b] = new
      /\ \A c \in Builders : c # b => builder'[c] = builder[c]
  BY <1>1 DEF PromptInv, PromptTypeOK
<1>6. /\ Present' = Present /\ (OfThisEra' <=> OfThisEra) /\ Taken' = Taken
  BY <1>1 DEF Present, OfThisEra, Taken
<1>7. HasNewest' /\ Dense'
  BY <1>1, <1>6 DEF PromptInv, Numbers, HasNewest, Dense
<1>8. Chosen'
  BY <1>1, <1>3, <1>5, <1>6, NextVersionIsNext DEF PromptInv, Numbers, Chosen, IsBuilding
<1>9. Indexed'
  BY <1>1, <1>3, <1>5, <1>6 DEF PromptInv, Numbers, Indexed
<1>10. Eras'
  BY <1>1, <1>2, <1>3, <1>5 DEF PromptInv, Numbers, Eras, IsBuilding
<1>11. Approvals'
  BY <1>1, <1>3, <1>5, ApprovalsKept DEF PromptInv, Approved, Present
<1>12. QED
  BY <1>4, <1>7, <1>8, <1>9, <1>10, <1>11 DEF PromptInv, Numbers

LEMMA FlushPromptKeeps ==
  ASSUME PromptInv, NEW b \in Builders, FlushPrompt(b) PROVE PromptInv'
<1>1. /\ builder[b].pc = "building"
      /\ builder[b].version \notin Taken \cup FlushedVersions(b)
      /\ builder' = [builder EXCEPT ![b] = [builder[b] EXCEPT !.pc = "flushed"]]
      /\ UNCHANGED <<prompts, promptInfo>>
  BY DEF FlushPrompt
<1> DEFINE new == [builder[b] EXCEPT !.pc = "flushed"]
<1>2. builder[b] \in BuilderRow
  BY DEF PromptInv, PromptTypeOK
<1>3. /\ new \in BuilderRow /\ new.pc = "flushed" /\ new.version = builder[b].version
      /\ new.era = builder[b].era
  BY <1>2 DEF BuilderRow
<1>4. builder'[b] = new /\ \A c \in Builders : c # b => builder'[c] = builder[c]
  BY <1>1 DEF PromptInv, PromptTypeOK
<1>5. PromptTypeOK'
  BY <1>1, <1>3 DEF PromptInv, PromptTypeOK
<1> HIDE DEF new
<1>6. /\ Present' = Present /\ (OfThisEra' <=> OfThisEra) /\ Taken' = Taken
  BY <1>1 DEF Present, OfThisEra, Taken
<1>7. HasNewest' /\ Dense'
  BY <1>1, <1>6 DEF PromptInv, Numbers, HasNewest, Dense
<1>8. Chosen' /\ Eras'
  BY <1>1, <1>3, <1>4, <1>6 DEF PromptInv, Numbers, Chosen, Eras, IsBuilding
<1>9. Indexed'
  <2>1. \A i \in Present : prompts[i].version # builder[b].version
    BY <1>1 DEF Taken
  <2>2. \A c \in Builders \ {b} : builder[c].pc = "flushed" => builder[c].version # builder[b].version
    BY <1>1 DEF FlushedVersions
  <2>3. QED
    BY <1>1, <1>3, <1>4, <1>6, <2>1, <2>2 DEF PromptInv, Numbers, Indexed
<1>10. Approvals'
  BY <1>1, <1>3, <1>4, ApprovalsKept DEF PromptInv, Approved, Present
<1>11. QED
  BY <1>5, <1>7, <1>8, <1>9, <1>10 DEF PromptInv, Numbers

LEMMA FailPromptKeeps ==
  ASSUME PromptInv, NEW b \in Builders, FailPrompt(b) PROVE PromptInv'
<1>1. builder' = [builder EXCEPT ![b] = IdleBuilder] /\ UNCHANGED <<prompts, promptInfo>>
  BY DEF FailPrompt
<1>2. IdleBuilder \in BuilderRow /\ IdleBuilder.pc = "idle"
  BY IdleType
<1>3. PromptTypeOK'
  BY <1>1, <1>2 DEF PromptInv, PromptTypeOK
<1>4. builder'[b] = IdleBuilder /\ \A c \in Builders : c # b => builder'[c] = builder[c]
  BY <1>1 DEF PromptInv, PromptTypeOK
<1>5. Numbers'
  BY <1>1, <1>2, <1>4, NumbersKept DEF PromptInv, SameRows, NoNewBuilders
<1>6. Approvals'
  BY <1>1, <1>2, <1>4, ApprovalsKept DEF PromptInv, Approved, Present
<1>7. QED
  BY <1>3, <1>5, <1>6 DEF PromptInv

LEMMA TimeoutFallbackKeeps == ASSUME PromptInv, TimeoutFallback PROVE PromptInv'
<1>1. /\ builder[Pipeline].pc = "building"
      /\ builder' = [builder EXCEPT ![Pipeline] =
                       [builder[Pipeline] EXCEPT !.version = NextVersion, !.era = promptInfo.era]]
      /\ UNCHANGED <<prompts, promptInfo>>
  BY DEF TimeoutFallback
<1> DEFINE new == [builder[Pipeline] EXCEPT !.version = NextVersion, !.era = promptInfo.era]
<1>2. Pipeline \in Builders /\ builder[Pipeline] \in BuilderRow
  BY DEF Builders, PromptInv, PromptTypeOK
<1>3. promptInfo.era \in Nat /\ NextVersion \in Nat
  BY NextVersionIsNext DEF PromptInv, PromptTypeOK
<1>4. /\ new \in BuilderRow /\ new.pc = "building" /\ new.version = NextVersion
      /\ new.era = promptInfo.era
  BY <1>1, <1>2, <1>3 DEF BuilderRow
<1>5. builder'[Pipeline] = new /\ \A c \in Builders : c # Pipeline => builder'[c] = builder[c]
  BY <1>1, <1>2 DEF PromptInv, PromptTypeOK
<1>6. PromptTypeOK'
  BY <1>1, <1>4 DEF PromptInv, PromptTypeOK
<1> HIDE DEF new
<1>7. /\ Present' = Present /\ (OfThisEra' <=> OfThisEra) /\ Taken' = Taken
  BY <1>1 DEF Present, OfThisEra, Taken
<1>8. HasNewest' /\ Dense'
  BY <1>1, <1>7 DEF PromptInv, Numbers, HasNewest, Dense
<1>9. Chosen'
  BY <1>1, <1>4, <1>5, <1>7, NextVersionIsNext DEF PromptInv, Numbers, Chosen, IsBuilding
<1>10. Indexed' /\ Eras'
  BY <1>1, <1>3, <1>4, <1>5, <1>7 DEF PromptInv, Numbers, Indexed, Eras, IsBuilding
<1>11. Approvals'
  BY <1>1, <1>4, <1>5, ApprovalsKept DEF PromptInv, Approved, Present
<1>12. QED
  BY <1>6, <1>8, <1>9, <1>10, <1>11 DEF PromptInv, Numbers

LEMMA CommitPromptKeeps ==
  ASSUME PromptInv, NEW b \in Builders, CommitPrompt(b) PROVE PromptInv'
<1> DEFINE v == builder[b].version
           e == builder[b].era
           row == [version |-> v, status |-> "generated", manual |-> FALSE, era |-> e]
           n == Len(prompts) + 1
<1>1. /\ builder[b].pc = "flushed"
      /\ prompts' = Append(prompts, row)
      /\ builder' = [builder EXCEPT ![b] = IdleBuilder]
      /\ promptInfo' = promptInfo
  BY DEF CommitPrompt
<1>2. v \in Nat /\ e \in Nat /\ builder[b] \in BuilderRow
  BY DEF PromptInv, PromptTypeOK, BuilderRow
<1>3. row \in PromptRow
  BY <1>2 DEF PromptRow, PromptStatus
<1>4. /\ row.version = v /\ row.era = e /\ row.status = "generated"
  OBVIOUS
<1> HIDE DEF row, v, e
<1>5. prompts \in Seq(PromptRow)
  BY DEF PromptInv, PromptTypeOK
<1>6. /\ prompts' \in Seq(PromptRow) /\ n \in Nat
      /\ DOMAIN prompts = 1..Len(prompts) /\ DOMAIN prompts' = DOMAIN prompts \cup {n}
      /\ prompts'[n] = row /\ \A i \in DOMAIN prompts : prompts'[i] = prompts[i] /\ i < n
  BY <1>1, <1>3, <1>5, AppendProperties, LenProperties
<1>7. /\ builder'[b] = IdleBuilder
      /\ \A c \in Builders : c # b => builder'[c] = builder[c]
  BY <1>1 DEF PromptInv, PromptTypeOK
<1>8. PromptTypeOK'
  BY <1>1, <1>6, IdleType DEF PromptInv, PromptTypeOK
<1> HIDE DEF n
<1>9. Present' = Present \cup {n} /\ Present \subseteq DOMAIN prompts /\ n \notin Present
  BY <1>4, <1>6 DEF Present
<1>10. /\ \A i \in Present : prompts[i].version # v /\ prompts[i].version \in Nat
       /\ \A c \in Builders \ {b} : builder[c].pc = "flushed" => builder[c].version # v
  BY <1>1, <1>9, RowTypes DEF v, PromptInv, Numbers, Indexed
<1>11. OfThisEra' => OfThisEra /\ e = promptInfo.era
  BY <1>1, <1>4, <1>6, <1>9 DEF OfThisEra
<1>12. Taken' = Taken \cup {v}
  BY <1>4, <1>6, <1>9 DEF Taken
<1>13. OfThisEra' => v > 0 /\ 1..v - 1 \subseteq Taken
  BY <1>1, <1>11 DEF v, e, PromptInv, Numbers, Chosen, IsBuilding
<1>14. OfThisEra' => \A i \in Present : prompts[i].version < v
  <2> SUFFICES ASSUME OfThisEra', NEW i \in Present, v <= prompts[i].version PROVE FALSE
    BY <1>2, <1>10
  <2>1. v \in 1..prompts[i].version
    BY <1>2, <1>10, <1>13
  <2>2. 1..prompts[i].version \subseteq Taken
    BY <1>11 DEF PromptInv, Numbers, Dense
  <2>3. QED
    BY <1>10, <2>1, <2>2 DEF Taken
<1>15. OfThisEra' => 1..v \subseteq Taken'
  <2>1. ASSUME NEW w \in 1..v PROVE w = v \/ w \in 1..v - 1
    BY <1>2
  <2>2. QED
    BY <1>12, <1>13, <2>1
<1>16. HasNewest'
  <2>1. CASE \A i \in Present : prompts[i].version <= v
    BY <1>2, <1>4, <1>6, <1>9, <2>1 DEF HasNewest
  <2>2. CASE ~ \A i \in Present : prompts[i].version <= v
    <3>1. PICK i \in Present : \A j \in Present : prompts[j].version <= prompts[i].version
      BY <2>2 DEF PromptInv, Numbers, HasNewest
    <3>2. v <= prompts[i].version
      BY <1>2, <1>10, <2>2, <3>1
    <3>3. QED
      BY <1>4, <1>6, <1>9, <3>1, <3>2 DEF HasNewest
  <2>3. QED
    BY <2>1, <2>2
<1>17. Dense'
  <2> SUFFICES ASSUME OfThisEra'
               PROVE  /\ \A i, j \in Present' : i < j => prompts'[i].version < prompts'[j].version
                      /\ \A i \in Present' : prompts'[i].version > 0 /\ 1..prompts'[i].version \subseteq Taken'
    BY DEF Dense
  <2>1. ASSUME NEW i \in Present', NEW j \in Present', i < j
        PROVE  prompts'[i].version < prompts'[j].version
    <3>1. CASE j = n
      <4>1. i \in Present
        BY <1>6, <1>9, <2>1, <3>1
      <4>2. QED
        BY <1>4, <1>6, <1>9, <1>14, <3>1, <4>1
    <3>2. CASE i \in Present /\ j \in Present
      BY <1>6, <1>9, <1>11, <2>1, <3>2 DEF PromptInv, Numbers, Dense
    <3>3. CASE i = n /\ j \in Present
      <4>1. j < n /\ j \in Nat
        BY <1>6, <1>9, <3>3
      <4>2. QED
        BY <1>6, <2>1, <3>3, <4>1
    <3>4. QED
      BY <1>9, <3>1, <3>2, <3>3
  <2>2. ASSUME NEW i \in Present'
        PROVE  prompts'[i].version > 0 /\ 1..prompts'[i].version \subseteq Taken'
    <3>1. CASE i = n
      BY <1>4, <1>6, <1>13, <1>15, <3>1
    <3>2. CASE i \in Present
      <4>1. prompts'[i].version = prompts[i].version
        BY <1>6, <1>9, <3>2
      <4>2. prompts[i].version > 0 /\ 1..prompts[i].version \subseteq Taken
        BY <1>11, <3>2 DEF PromptInv, Numbers, Dense
      <4>3. QED
        BY <1>12, <4>1, <4>2
    <3>3. QED
      BY <1>9, <3>1, <3>2
  <2>3. QED
    BY <2>1, <2>2
<1>18. Chosen'
  <2> SUFFICES ASSUME OfThisEra', NEW c \in Builders, IsBuilding(c)',
                      builder'[c].era = promptInfo'.era
               PROVE  builder'[c].version > 0 /\ 1..builder'[c].version - 1 \subseteq Taken'
    BY DEF Chosen
  <2>1. builder'[c] = builder[c]
    BY <1>7, IdleType DEF IsBuilding
  <2>2. builder[c].version > 0 /\ 1..builder[c].version - 1 \subseteq Taken
    BY <1>1, <1>11, <2>1 DEF PromptInv, Numbers, Chosen, IsBuilding
  <2>3. QED
    BY <1>12, <2>1, <2>2
<1>19. Indexed'
  <2> SUFFICES ASSUME NEW c \in Builders, builder'[c].pc = "flushed"
               PROVE  /\ \A i \in Present' : prompts'[i].version # builder'[c].version
                      /\ \A d \in Builders \ {c} :
                           builder'[d].pc = "flushed" => builder'[d].version # builder'[c].version
    BY DEF Indexed
  <2>1. c # b /\ builder'[c] = builder[c]
    BY <1>7, IdleType
  <2>2. \A i \in Present' : prompts'[i].version # builder'[c].version
    BY <1>4, <1>6, <1>9, <1>10, <2>1 DEF PromptInv, Numbers, Indexed
  <2>3. \A d \in Builders \ {c} :
          builder'[d].pc = "flushed" => builder'[d].version # builder'[c].version
    BY <1>7, <2>1, IdleType DEF PromptInv, Numbers, Indexed
  <2>4. QED
    BY <2>2, <2>3
<1>20. Eras'
  <2>1. e <= promptInfo.era
    BY <1>1 DEF e, PromptInv, Numbers, Eras, IsBuilding
  <2>2. QED
    BY <1>1, <1>4, <1>6, <1>7, <2>1, IdleType DEF PromptInv, Numbers, Eras, IsBuilding
<1>21. Approvals'
  <2>1. Approved' = Approved
    BY <1>4, <1>6, <1>9 DEF Approved
  <2>2. QED
    BY <1>1, <1>6, <1>7, <2>1, IdleType, ApprovalsKept DEF PromptInv
<1>22. QED
  BY <1>8, <1>16, <1>17, <1>18, <1>19, <1>20, <1>21 DEF PromptInv, Numbers

(********************************* users **********************************)

LEMMA InfoTypes ==
  ASSUME PromptTypeOK, promptInfo.edits > 0
  PROVE  /\ [promptInfo EXCEPT !.edits = @ - 1] \in [edits : Nat, era : Nat, overlapped : BOOLEAN]
         /\ [promptInfo EXCEPT !.edits = @ - 1].era = promptInfo.era
         /\ [promptInfo EXCEPT !.edits = @ - 1].overlapped = promptInfo.overlapped
  BY DEF PromptTypeOK

LEMMA EditPromptKeeps ==
  ASSUME PromptInv, NEW u \in PromptUsers, EditPrompt(u) PROVE PromptInv'
<1>1. PICK k \in Present :
        prompts' = [prompts EXCEPT ![k].status = "edited", ![k].manual = TRUE]
  BY DEF EditPrompt
<1>2. /\ promptInfo' = [promptInfo EXCEPT !.edits = @ - 1] /\ promptInfo.edits > 0
      /\ builder' = builder
  BY DEF EditPrompt, Spend, UserAsks
<1>3. /\ k \in DOMAIN prompts /\ prompts[k].status # "deleted"
      /\ prompts[k] \in PromptRow
  BY RowTypes DEF Present, PromptInv
<1>4. prompts' = [prompts EXCEPT ![k] = [prompts[k] EXCEPT !.status = "edited", !.manual = TRUE]]
  BY <1>1, <1>3, RowTypes DEF PromptInv
<1> DEFINE row == [prompts[k] EXCEPT !.status = "edited", !.manual = TRUE]
<1>5. /\ row \in PromptRow /\ row.version = prompts[k].version /\ row.era = prompts[k].era
      /\ row.status = "edited"
  BY <1>3 DEF PromptRow, PromptStatus
<1> HIDE DEF row
<1>6. /\ prompts' \in [1..Len(prompts) -> PromptRow]
      /\ DOMAIN prompts' = DOMAIN prompts /\ prompts'[k] = row
      /\ \A i \in DOMAIN prompts : i # k => prompts'[i] = prompts[i]
  BY <1>3, <1>4, <1>5, RowTypes DEF row, PromptInv
<1>7. PromptTypeOK'
  BY <1>2, <1>6, RowTypes, SeqOfFunction, InfoTypes DEF PromptInv, PromptTypeOK
<1>8. Numbers'
  BY <1>2, <1>3, <1>5, <1>6, InfoTypes, NumbersKept DEF PromptInv, SameRows, NoNewBuilders
<1>9. Approved' \subseteq Approved
  BY <1>5, <1>6 DEF Approved, Present
<1>10. Approvals'
  BY <1>2, <1>6, <1>9, InfoTypes, ApprovalsKept DEF PromptInv
<1>11. QED
  BY <1>7, <1>8, <1>10 DEF PromptInv

LEMMA ApprovePromptKeeps ==
  ASSUME PromptInv, NEW u \in PromptUsers, ApprovePrompt(u) PROVE PromptInv'
<1>1. PICK k \in Present :
        builder' = [builder EXCEPT ![u] = [IdleBuilder EXCEPT !.pc = "approving", !.row = k,
                                             !.losers = Approved \ {k},
                                             !.again = k \in Approved]]
  BY DEF ApprovePrompt
<1> DEFINE over == promptInfo.overlapped \/ \E c \in Builders : builder[c].pc = "approving"
           again == k \in Approved
           new == [IdleBuilder EXCEPT !.pc = "approving", !.row = k,
                                      !.losers = Approved \ {k}, !.again = again]
<1>2. /\ promptInfo' = [promptInfo EXCEPT !.edits = @ - 1, !.overlapped = over]
      /\ promptInfo.edits > 0 /\ builder[u].pc = "idle" /\ prompts' = prompts
  BY DEF ApprovePrompt, UserAsks
<1>3. over \in BOOLEAN /\ again \in BOOLEAN
  BY DEF PromptInv, PromptTypeOK
<1>4. u \in Builders
  BY DEF Builders
<1>5. Approved \subseteq DOMAIN prompts /\ k \in DOMAIN prompts /\ DOMAIN prompts \subseteq Nat
  BY RowTypes DEF Approved, Present, PromptInv
<1> HIDE DEF over, again
<1>6. /\ new \in BuilderRow /\ new.pc = "approving" /\ new.row = k
      /\ new.losers = Approved \ {k}
  <2>1. k \in Nat /\ Approved \ {k} \in SUBSET Nat
    BY <1>5
  <2>2. QED
    BY <1>3, <2>1, IdleType DEF BuilderRow
<1> HIDE DEF new
<1>7. /\ promptInfo' \in [edits : Nat, era : Nat, overlapped : BOOLEAN]
      /\ promptInfo'.era = promptInfo.era /\ promptInfo'.overlapped = over
  <2>1. promptInfo.edits - 1 \in Nat
    BY <1>2 DEF PromptInv, PromptTypeOK
  <2>2. QED
    BY <1>2, <1>3, <2>1 DEF PromptInv, PromptTypeOK
<1>8. builder'[u] = new /\ \A c \in Builders : c # u => builder'[c] = builder[c]
  BY <1>1, <1>4 DEF PromptInv, PromptTypeOK, new, again
<1>9. PromptTypeOK'
  BY <1>1, <1>2, <1>6, <1>7 DEF PromptInv, PromptTypeOK, new, again
<1>10. Numbers'
  BY <1>2, <1>6, <1>7, <1>8, NumbersKept DEF PromptInv, SameRows, NoNewBuilders
<1>11. Approved' = Approved /\ DOMAIN prompts' = DOMAIN prompts
  BY <1>2 DEF Approved, Present
<1>12. ~ over => ~ promptInfo.overlapped /\ \A c \in Builders : builder[c].pc # "approving"
  BY DEF over
<1>13. Approvals'
  BY <1>4, <1>5, <1>6, <1>7, <1>8, <1>11, <1>12 DEF PromptInv, Approvals
<1>14. QED
  BY <1>9, <1>10, <1>13 DEF PromptInv

LEMMA ApproveCommitKeeps ==
  ASSUME PromptInv, NEW u \in PromptUsers, ApproveCommit(u) PROVE PromptInv'
<1> DEFINE k == builder[u].row
           losers == builder[u].losers
           row(i) == IF prompts[i].status = "deleted" THEN prompts[i]
                     ELSE IF i = k /\ ~ builder[u].again
                     THEN [prompts[i] EXCEPT !.status = "approved"]
                     ELSE IF i \in losers /\ prompts[i].status = "approved"
                     THEN [prompts[i] EXCEPT !.status = "superseded"] ELSE prompts[i]
<1>1. /\ builder[u].pc = "approving" /\ promptInfo' = promptInfo
      /\ prompts' = [i \in DOMAIN prompts |-> row(i)]
      /\ builder' = [builder EXCEPT ![u] = IdleBuilder]
  BY DEF ApproveCommit
<1>2. u \in Builders
  BY DEF Builders
<1>3. ASSUME NEW i \in DOMAIN prompts
      PROVE  /\ row(i) \in PromptRow /\ row(i).version = prompts[i].version
             /\ row(i).era = prompts[i].era
             /\ row(i).status = "deleted" <=> prompts[i].status = "deleted"
             /\ row(i).status = "approved" /\ i # k
                  => prompts[i].status = "approved" /\ i \notin losers
  <2>1. prompts[i] \in PromptRow
    BY RowTypes DEF PromptInv
  <2>2. QED
    BY <2>1 DEF PromptRow, PromptStatus
<1>4. \A i \in DOMAIN prompts : prompts'[i] = row(i)
  BY <1>1
<1> HIDE DEF row
<1>5. DOMAIN prompts' = DOMAIN prompts /\ prompts' \in [1..Len(prompts) -> PromptRow]
  BY <1>1, <1>3, RowTypes DEF PromptInv
<1>6. builder'[u] = IdleBuilder /\ \A c \in Builders : c # u => builder'[c] = builder[c]
  BY <1>1, <1>2 DEF PromptInv, PromptTypeOK
<1>7. PromptTypeOK'
  BY <1>1, <1>5, RowTypes, SeqOfFunction, IdleType DEF PromptInv, PromptTypeOK
<1>8. Numbers'
  BY <1>1, <1>3, <1>4, <1>5, <1>6, IdleType, NumbersKept DEF PromptInv, SameRows, NoNewBuilders
<1>9. \A i \in Approved' : i = k \/ (i \in Approved /\ i \notin losers)
  BY <1>3, <1>4, <1>5 DEF Approved, Present
<1>10. ~ promptInfo.overlapped => \A i \in Approved' : i = k
  BY <1>1, <1>2, <1>9 DEF PromptInv, Approvals
<1>11. ~ promptInfo.overlapped => \A c \in Builders : builder'[c].pc # "approving"
  BY <1>1, <1>2, <1>6, IdleType DEF PromptInv, Approvals
<1>12. Approvals'
  BY <1>1, <1>5, <1>6, <1>10, <1>11, IdleType DEF PromptInv, Approvals
<1>13. QED
  BY <1>7, <1>8, <1>12 DEF PromptInv

LEMMA DeletePromptsKeeps == ASSUME PromptInv, DeletePrompts PROVE PromptInv'
<1> DEFINE row(i) == [prompts[i] EXCEPT !.status = "deleted"]
<1>1. /\ prompts' = [i \in DOMAIN prompts |-> row(i)] /\ builder' = builder
      /\ promptInfo' = [promptInfo EXCEPT !.edits = promptInfo.edits - 1,
                                          !.era = promptInfo.era + 1]
      /\ promptInfo.edits > 0
  BY DEF DeletePrompts, UserAsks
<1>2. ASSUME NEW i \in DOMAIN prompts
      PROVE  row(i) \in PromptRow /\ row(i).status = "deleted" /\ row(i).era = prompts[i].era
  <2>1. prompts[i] \in PromptRow
    BY RowTypes DEF PromptInv
  <2>2. QED
    BY <2>1 DEF PromptRow, PromptStatus
<1>3. \A i \in DOMAIN prompts : prompts'[i] = row(i)
  BY <1>1
<1> HIDE DEF row
<1>4. DOMAIN prompts' = DOMAIN prompts /\ prompts' \in [1..Len(prompts) -> PromptRow]
  BY <1>1, <1>2, RowTypes DEF PromptInv
<1>5. /\ promptInfo' \in [edits : Nat, era : Nat, overlapped : BOOLEAN]
      /\ promptInfo'.era = promptInfo.era + 1 /\ promptInfo'.overlapped = promptInfo.overlapped
  <2>1. promptInfo.edits - 1 \in Nat /\ promptInfo.era + 1 \in Nat
    BY <1>1 DEF PromptInv, PromptTypeOK
  <2>2. QED
    BY <1>1, <2>1 DEF PromptInv, PromptTypeOK
<1>6. PromptTypeOK'
  BY <1>1, <1>4, <1>5, RowTypes, SeqOfFunction DEF PromptInv, PromptTypeOK
<1>7. Present' = {}
  BY <1>2, <1>3, <1>4 DEF Present
<1>8. HasNewest' /\ Dense' /\ Indexed'
  BY <1>1, <1>7 DEF PromptInv, Numbers, HasNewest, Dense, Indexed
<1>9. /\ \A b \in Builders : IsBuilding(b) => builder[b].era # promptInfo'.era
      /\ Eras'
  <2>1. promptInfo.era \in Nat
    BY DEF PromptInv, PromptTypeOK
  <2>2. \A b \in Builders : builder[b].era \in Nat
    BY DEF PromptInv, PromptTypeOK, BuilderRow
  <2>3. \A i \in DOMAIN prompts : prompts[i].era \in Nat
    BY RowTypes DEF PromptInv, PromptRow
  <2>4. QED
    BY <1>1, <1>2, <1>3, <1>4, <1>5, <2>1, <2>2, <2>3 DEF PromptInv, Numbers, Eras, IsBuilding
<1>10. Chosen'
  BY <1>1, <1>9 DEF Chosen, IsBuilding
<1>11. Approvals'
  BY <1>1, <1>4, <1>5, <1>7, ApprovalsKept DEF PromptInv, Approved
<1>12. QED
  BY <1>6, <1>8, <1>9, <1>10, <1>11 DEF PromptInv, Numbers

(******************************** theorems ********************************)

LEMMA PromptStarts == PromptInit => PromptInv
<1> SUFFICES ASSUME PromptInit PROVE PromptInv
  OBVIOUS
<1>1. /\ prompts = <<>> /\ Present = {} /\ Approved = {}
      /\ \A b \in Builders : builder[b] = IdleBuilder
  BY DEF PromptInit, Present, Approved
<1>2. PromptTypeOK
  BY IdleType, PromptAssumption, EmptySeq DEF PromptInit, PromptTypeOK
<1>3. Numbers
  BY <1>1, IdleType DEF Numbers, HasNewest, Dense, Chosen, Indexed, Eras, IsBuilding
<1>4. Approvals
  BY <1>1, IdleType DEF Approvals
<1>5. QED
  BY <1>2, <1>3, <1>4 DEF PromptInv

LEMMA PromptSteps == PromptInv /\ [PromptNext]_promptVars => PromptInv'
<1> SUFFICES ASSUME PromptInv, [PromptNext]_promptVars PROVE PromptInv'
  OBVIOUS
<1>1. CASE UNCHANGED promptVars
  <2>1. PromptTypeOK' /\ Approved' = Approved
    BY <1>1 DEF promptVars, PromptInv, PromptTypeOK, Approved, Present
  <2>2. Numbers'
    BY <1>1, NumbersKept DEF promptVars, PromptInv, SameRows, NoNewBuilders
  <2>3. Approvals'
    BY <1>1, <2>1, ApprovalsKept DEF promptVars, PromptInv
  <2>4. QED
    BY <2>1, <2>2, <2>3 DEF PromptInv
<1>2. QED
  BY <1>1, StartBuildingKeeps, FlushPromptKeeps, CommitPromptKeeps, FailPromptKeeps,
     TimeoutFallbackKeeps, EditPromptKeeps, ApprovePromptKeeps, ApproveCommitKeeps,
     DeletePromptsKeeps
     DEF PromptNext

LEMMA PromptInvariant == PromptSpec => []PromptInv
  BY PromptStarts, PromptSteps, PTL DEF PromptSpec

(* The rows, builders and counters keep their types. *)
THEOREM PromptTypes == PromptSpec => []PromptTypeOK
<1>1. PromptInv => PromptTypeOK
  BY DEF PromptInv
<1>2. QED
  BY <1>1, PromptInvariant, PTL

(* However many handlers choose a version with no lock, the unique index of chapter_prompts *)
(* makes the list of versions the history of the chapter. *)
THEOREM VersionsAreTheHistory == PromptSpec => []VersionsFollowCreation
<1>1. PromptInv => VersionsFollowCreation
  BY DEF PromptInv, Numbers, Dense, VersionsFollowCreation
<1>2. QED
  BY <1>1, PromptInvariant, PTL

(* As long as approvals do not overlap, approve_prompt leaves one approved version, however *)
(* many were generated, edited and deleted meanwhile. *)
THEOREM OneVersionApproved == PromptSpec => []OneApproved
<1>1. PromptInv => OneApproved
  <2> SUFFICES ASSUME PromptInv, ~ promptInfo.overlapped PROVE Cardinality(Approved) <= 1
    BY DEF OneApproved
  <2>1. \A i, j \in Approved : i = j
    BY DEF PromptInv, Approvals
  <2>2. CASE Approved = {}
    BY <2>2, FS_EmptySet
  <2>3. CASE Approved # {}
    <3>1. PICK i \in Approved : Approved = {i}
      BY <2>1, <2>3
    <3>2. QED
      BY <3>1, FS_Singleton
  <2>4. QED
    BY <2>2, <2>3
<1>2. QED
  BY <1>1, PromptInvariant, PTL

(****************************** ReviewRules ******************************)

(***************************************************************************)
(* The gates of the review, for every threshold and all the numbers a      *)
(* critic may write: what passes met them on the critic's own scores, in   *)
(* spite of defaults, ranges and the second normalisation.                 *)
(***************************************************************************)

(****************************** the scores *********************************)

\* a score that is read is within the range, and reading it again changes nothing
LEMMA CoerceFacts ==
  ASSUME NEW x \in Int
  PROVE  /\ CoerceScore(x) \in Int
         /\ x # NoScore => CoerceScore(x) \in 0..100
         /\ CoerceScore(CoerceScore(x)) = CoerceScore(x)
         /\ x > 0 => CoerceScore(x) > 0
  BY DEF CoerceScore, NoScore

LEMMA GivenInt == Given \subseteq Int
<1>1. RawScores \subseteq Int /\ OverallThreshold \in 0..100
  BY ReviewAssumption
<1>2. QED
  BY <1>1 DEF Given, NoScore, NotANumber

\* a positive score of a dimension is its score, however often it is read
LEMMA DimensionFacts ==
  ASSUME NEW d, d.score \in Int, d.score > 0, NEW fallback
  PROVE  DimensionScore(d, fallback) = CoerceScore(d.score)
<1>1. CoerceScore(d.score) \in 0..100 /\ CoerceScore(d.score) # NoScore /\ d.score # 0
  BY CoerceFacts DEF NoScore
<1>2. QED
  BY <1>1 DEF DimensionScore

LEMMA NormalizedFacts ==
  ASSUME NEW p, NEW gates \in BOOLEAN
  PROVE  LET n == Normalized(p, gates)
         IN  /\ p.blocking => n.blocking
             /\ p.passed # {} => n.passed = p.passed
             /\ CoerceScore(p.overall) # NoScore => n.overall = CoerceScore(p.overall)
             /\ \A key \in DimensionKeys :
                  \E fallback : n.dimensions[key] =
                    [form |-> "object", score |-> DimensionScore(p.dimensions[key], fallback)]
<1> DEFINE given == CoerceScore(p.overall)
           fallback == IF given # NoScore THEN given
                       ELSE IF p.passed = {TRUE} THEN OverallThreshold ELSE 0
           scores == [key \in DimensionKeys |-> DimensionScore(p.dimensions[key], fallback)]
           average == Average(scores)
           overall == IF given # NoScore THEN given ELSE average
           blocking == \/ p.blocking
                       \/ gates /\ scores["outline_adherence"] < OutlineThreshold /\ p.comments
           verdict == /\ overall >= OverallThreshold
                      /\ gates => ~ blocking /\ \A key \in Gated : scores[key] >= GateOf(key)
           dimensions == [key \in DimensionKeys |-> [form |-> "object", score |-> scores[key]]]
           n == Normalized(p, gates)
<1>1. n = [overall |-> overall, blocking |-> blocking, comments |-> p.comments,
           passed |-> IF p.passed = {} THEN {verdict} ELSE p.passed, dimensions |-> dimensions]
  BY DEF Normalized
<1>2. /\ n.overall = overall /\ n.blocking = blocking /\ n.dimensions = dimensions
      /\ n.passed = IF p.passed = {} THEN {verdict} ELSE p.passed
  <2> HIDE DEF overall, blocking, verdict, dimensions, n
  <2>1. QED
    BY <1>1
<1>3. \A key \in DimensionKeys :
        dimensions[key] = [form |-> "object", score |-> DimensionScore(p.dimensions[key], fallback)]
  <2> HIDE DEF fallback
  <2>1. QED
    OBVIOUS
<1>4. p.blocking => blocking
  OBVIOUS
<1> HIDE DEF blocking, verdict, dimensions, n, fallback, average
<1>5. given # NoScore => overall = given
  OBVIOUS
<1>6. /\ p.blocking => n.blocking
      /\ p.passed # {} => n.passed = p.passed
      /\ given # NoScore => n.overall = given
      /\ \A key \in DimensionKeys :
           \E f : n.dimensions[key] = [form |-> "object", score |-> DimensionScore(p.dimensions[key], f)]
  <2>1. p.blocking => n.blocking
    BY <1>2, <1>4
  <2>2. p.passed # {} => n.passed = p.passed
    BY <1>2
  <2>3. given # NoScore => n.overall = given
    BY <1>2, <1>5
  <2>4. \A key \in DimensionKeys :
           \E f : n.dimensions[key] = [form |-> "object", score |-> DimensionScore(p.dimensions[key], f)]
    BY <1>2, <1>3
  <2>5. QED
    BY <2>1, <2>2, <2>3, <2>4
<1>7. QED
  BY <1>6 DEF n

(****************************** the gates **********************************)

\* what GateHolds says of an answer
GatesMet(a, gates) ==
  /\ a.passed # {FALSE}
  /\ gates =>
       /\ ~ a.blocking /\ (a.overall # NoScore => CoerceScore(a.overall) >= OverallThreshold)
       /\ \A key \in Gated :
            LET s == a.dimensions[key].score
            IN  s \in RawScores => s <= 0 \/ CoerceScore(s) >= GateOf(key)

LEMMA PassedHolds ==
  ASSUME NEW a \in Answer, NEW gates \in BOOLEAN,
         IsReviewPassed(Normalized(a, gates), gates)
  PROVE  GatesMet(a, gates)
<1> DEFINE n == Normalized(a, gates)
           m == Normalized(n, gates)
<1>1. /\ m.passed = {TRUE}
      /\ gates => /\ m.overall >= OverallThreshold /\ ~ m.blocking
                  /\ \A key \in Gated : m.dimensions[key].score >= GateOf(key)
  BY DEF IsReviewPassed
<1>2. /\ a.blocking => n.blocking
      /\ a.passed # {} => n.passed = a.passed
      /\ CoerceScore(a.overall) # NoScore => n.overall = CoerceScore(a.overall)
      /\ \A key \in DimensionKeys :
           \E f : n.dimensions[key] =
                    [form |-> "object", score |-> DimensionScore(a.dimensions[key], f)]
  BY NormalizedFacts
<1> HIDE DEF n
<1>3. /\ n.blocking => m.blocking
      /\ n.passed # {} => m.passed = n.passed
      /\ CoerceScore(n.overall) # NoScore => m.overall = CoerceScore(n.overall)
      /\ \A key \in DimensionKeys :
           \E f : m.dimensions[key] =
                    [form |-> "object", score |-> DimensionScore(n.dimensions[key], f)]
  BY NormalizedFacts
<1> HIDE DEF m
<1>4. /\ a.overall \in Int
      /\ \A key \in DimensionKeys : a.dimensions[key].score \in Given
  BY GivenInt DEF Answer, Dimension
<1>5. a.passed # {FALSE}
  BY <1>1, <1>2, <1>3
<1>6. ASSUME gates PROVE ~ a.blocking
  BY <1>1, <1>2, <1>3, <1>6
<1>7. ASSUME gates, a.overall # NoScore PROVE CoerceScore(a.overall) >= OverallThreshold
  <2>1. CoerceScore(a.overall) \in 0..100 /\ CoerceScore(CoerceScore(a.overall)) = CoerceScore(a.overall)
    BY <1>4, <1>7, CoerceFacts
  <2>2. CoerceScore(a.overall) # NoScore
    BY <2>1 DEF NoScore
  <2>3. n.overall = CoerceScore(a.overall)
    BY <1>2, <2>2
  <2>4. m.overall = CoerceScore(a.overall)
    BY <1>3, <2>1, <2>2, <2>3
  <2>5. QED
    BY <1>1, <1>7, <2>4
<1>8. ASSUME gates, NEW key \in Gated, a.dimensions[key].score \in RawScores,
             ~ (a.dimensions[key].score <= 0)
      PROVE  CoerceScore(a.dimensions[key].score) >= GateOf(key)
  <2> DEFINE s == a.dimensions[key].score
             t == CoerceScore(s)
  <2>1. s \in Int /\ s > 0 /\ key \in DimensionKeys
    <3>1. s \in RawScores /\ ~ (s <= 0) /\ key \in DimensionKeys
      BY <1>8 DEF DimensionKeys
    <3> HIDE DEF s
    <3>2. QED
      BY <3>1, ReviewAssumption
  <2>2. t \in Int /\ t > 0 /\ CoerceScore(t) = t
    BY <2>1, CoerceFacts
  <2>3. PICK f : n.dimensions[key] = [form |-> "object", score |-> DimensionScore(a.dimensions[key], f)]
    BY <1>2, <2>1
  <2>4. DimensionScore(a.dimensions[key], f) = t
    BY <2>1, DimensionFacts
  <2>5. n.dimensions[key].score = t
    BY <2>3, <2>4
  <2>6. PICK g : m.dimensions[key] = [form |-> "object", score |-> DimensionScore(n.dimensions[key], g)]
    BY <1>3, <2>1
  <2>7. DimensionScore(n.dimensions[key], g) = t
    BY <2>2, <2>5, DimensionFacts
  <2>8. m.dimensions[key].score = t
    BY <2>6, <2>7
  <2>9. QED
    BY <1>1, <1>8, <2>8
<1>9. QED
  BY <1>5, <1>6, <1>7, <1>8 DEF GatesMet

(***************************** the theorem *********************************)

\* the verdict that is saved is the one of the gates, and a draft passes on it alone
ReviewInv ==
  /\ review = [phase |-> review.phase, gates |-> review.gates, saved |-> review.saved,
               verdict |-> review.verdict, answer |-> review.answer]
  /\ review.answer \in Answer /\ review.gates \in BOOLEAN
  /\ review.phase # "answered" =>
       (review.saved[1].passed = {TRUE} => GatesMet(review.answer, review.gates))
  /\ review.phase # "decided" => review.verdict = "none"
  /\ review.verdict = "passed" => GatesMet(review.answer, review.gates)

LEMMA ReviewStarts == ReviewInit => ReviewInv
<1> SUFFICES ASSUME ReviewInit PROVE ReviewInv
  OBVIOUS
<1>1. PICK overall \in Given, passed \in (SUBSET BOOLEAN) \ {BOOLEAN},
           blocking \in BOOLEAN, comments \in BOOLEAN, gates \in BOOLEAN,
           outline \in Dimension, instruction \in Dimension,
           others \in [form : {"plain"}, score : {NoScore, OverallThreshold}] :
        review = [phase |-> "answered", gates |-> gates, saved |-> <<>>, verdict |-> "none",
                  answer |-> [overall |-> overall, passed |-> passed, blocking |-> blocking,
                              comments |-> comments,
                              dimensions |-> [outline_adherence |-> outline,
                                              instruction_adherence |-> instruction,
                                              others |-> others]]]
  BY DEF ReviewInit
<1> DEFINE dimensions == [outline_adherence |-> outline, instruction_adherence |-> instruction,
                            others |-> others]
<1>2. others \in Dimension
  BY DEF Dimension, Given
<1>3. dimensions \in [DimensionKeys -> Dimension]
  BY <1>2 DEF DimensionKeys, Gated
<1> HIDE DEF dimensions
<1>4. review.answer = [overall |-> overall, passed |-> passed, blocking |-> blocking,
                       comments |-> comments, dimensions |-> dimensions]
  BY <1>1 DEF dimensions
<1>5. review.answer \in Answer
  BY <1>3, <1>4 DEF Answer
<1>6. QED
  BY <1>1, <1>5 DEF ReviewInv

\* what is_review_passed says is what is saved, whatever verdict the critic stated
LEMMA ReviewSteps == ReviewInv /\ [ReviewNext]_review => ReviewInv'
<1> SUFFICES ASSUME ReviewInv, [ReviewNext]_review PROVE ReviewInv'
  OBVIOUS
<1>1. CASE SaveReview
  <2> DEFINE n == Normalized(review.answer, review.gates)
             verdict == IsReviewPassed(n, review.gates)
             row == [n EXCEPT !.passed = {verdict}]
  <2>1. verdict => GatesMet(review.answer, review.gates)
    BY PassedHolds DEF ReviewInv
  <2>2. "passed" \in DOMAIN n
    BY DEF Normalized
  <2>3. row.passed = {verdict}
    <3> HIDE DEF n, verdict
    <3>1. QED
      BY <2>2
  <2>4. verdict \in BOOLEAN
    BY DEF IsReviewPassed
  <2> HIDE DEF n, verdict
  <2>5. row.passed = {TRUE} => verdict
    BY <2>3, <2>4
  <2>6. review' = [review EXCEPT !.phase = "saved", !.saved = <<row>>]
    BY <1>1 DEF SaveReview, n, verdict
  <2> HIDE DEF row
  <2>7. /\ review'.phase = "saved" /\ review'.saved = <<row>>
        /\ review'.answer = review.answer /\ review'.gates = review.gates
        /\ review'.verdict = review.verdict
        /\ review' = [phase |-> "saved", gates |-> review.gates, saved |-> <<row>>,
                      verdict |-> review.verdict, answer |-> review.answer]
    BY <2>6 DEF ReviewInv
  <2>8. review'.saved[1] = row
    BY <2>7
  <2>9. review.verdict = "none"
    BY <1>1 DEF SaveReview, ReviewInv
  <2>10. QED
    BY <2>1, <2>5, <2>7, <2>8, <2>9, Zenon DEF ReviewInv
<1>2. CASE Decide
  <2>1. PICK autoAccept \in BOOLEAN :
          review' = [review EXCEPT !.phase = "decided",
                       !.verdict = IF review.saved[1].passed = {TRUE} THEN "passed"
                                   ELSE IF autoAccept THEN "autoAccepted" ELSE "rejected"]
    BY <1>2 DEF Decide
  <2>2. /\ review'.phase = "decided" /\ review'.saved = review.saved
        /\ review'.answer = review.answer /\ review'.gates = review.gates
        /\ review'.verdict = "passed" => review.saved[1].passed = {TRUE}
        /\ review' = [phase |-> review'.phase, gates |-> review'.gates, saved |-> review'.saved,
                      verdict |-> review'.verdict, answer |-> review'.answer]
    BY <2>1 DEF ReviewInv
  <2>3. review.saved[1].passed = {TRUE} => GatesMet(review.answer, review.gates)
    BY <1>2 DEF Decide, ReviewInv
  <2>4. QED
    BY <2>2, <2>3, Zenon DEF ReviewInv
<1>3. CASE UNCHANGED review
  BY <1>3, Zenon DEF ReviewInv
<1>4. QED
  BY <1>1, <1>2, <1>3 DEF ReviewNext

\* A draft that passes met the gates on the critic's own scores: its own verdict, a missing
\* score and a second normalisation never let it through, whatever the thresholds and the
\* numbers a critic writes (normalize_review_payload and is_review_passed).
THEOREM PassedMeetsGates == ReviewSpec => []GateHolds
<1>1. ReviewInv => GateHolds
  BY Zenon DEF ReviewInv, GatesMet, GateHolds
<1>2. QED
  BY <1>1, ReviewStarts, ReviewSteps, PTL DEF ReviewSpec

(**************************** MemoryResources ****************************)

(***************************************************************************)
(* The memory of accepted chapters, for any number of chapters and texts:  *)
(* the incremental distant memory equals a full compression, and a rewrite *)
(* forgets what it drops.                                                  *)
(*                                                                         *)
(* The first is inductive with the types.  The second needs to know that   *)
(* only chapters with a text have a summary or a profile, and that from a  *)
(* rewrite to the next acceptance nothing but its past is remembered.      *)
(***************************************************************************)

\* only chapters that were accepted are remembered
MemoryOfTexts ==
  /\ \A c \in Story : summaries[c].of > 0 => texts[c] > 0
  /\ \A c \in Story : summaries[c].changes => summaries[c].of > 0
  /\ \A c \in profiles : texts[c] > 0

\* while a rewrite has not accepted its first chapter nothing after its past is left
PastAlone ==
  rewriting > 0 =>
    /\ \A c \in Story : c >= rewriting => summaries[c].of = 0
    /\ \A c \in profiles : c < rewriting
    /\ distant.cache = {}

MemoryInv == MemoryTypeOK /\ DistantIsCurrent /\ MemoryOfTexts /\ PastAlone

LEMMA CoverageType ==
  ASSUME NEW k \in 0..NChapters
  PROVE  CoverageEnd(k) \in 0..NChapters /\ CoverageEnd(k) <= k
  BY MemoryAssumption DEF CoverageEnd

LEMMA SummariesType ==
  ASSUME NEW s \in [Story -> [of : 0..MaxTexts, changes : BOOLEAN]], NEW k \in 0..NChapters
  PROVE  SummariesUpTo(s, k) \in SUBSET (Story \X (1..MaxTexts))
  BY MemoryAssumption DEF SummariesUpTo, Story

\* a summary of a chapter after k changes nothing up to k
LEMMA SummariesUntouched ==
  ASSUME NEW s, NEW t, NEW c \in Story, NEW k \in 0..NChapters, c > k,
         \A d \in Story : d # c => t[d] = s[d]
  PROVE  SummariesUpTo(t, k) = SummariesUpTo(s, k)
  BY MemoryAssumption DEF SummariesUpTo, Story

(******************************* acceptance *******************************)

LEMMA AcceptTextFacts ==
  ASSUME MemoryInv, NEW c \in Story, AcceptText(c)
  PROVE  /\ texts' \in [Story -> 0..MaxTexts]
         /\ texts'[c] \in 1..MaxTexts
         /\ \A d \in Story : texts[d] > 0 => texts'[d] > 0
         /\ rewriting' = 0
  BY MemoryAssumption DEF MemoryInv, MemoryTypeOK, AcceptText

LEMMA RememberFacts ==
  ASSUME MemoryInv, NEW c \in Story, AcceptText(c), Remember(c)
  PROVE  /\ summaries' \in [Story -> [of : 0..MaxTexts, changes : BOOLEAN]]
         /\ \A d \in Story : d # c => summaries'[d] = summaries[d]
         /\ profiles' \subseteq Story
         /\ MemoryOfTexts'
<1>1. PICK fallback \in BOOLEAN :
        summaries' = [summaries EXCEPT ![c] = [of |-> texts'[c], changes |-> ~ fallback]]
  BY DEF Remember
<1>2. texts'[c] \in 1..MaxTexts /\ texts'[c] \in 0..MaxTexts /\ texts'[c] > 0
  BY AcceptTextFacts, MemoryAssumption
<1>3. summaries'[c].of = texts'[c] /\ \A d \in Story : d # c => summaries'[d] = summaries[d]
  BY <1>1 DEF MemoryInv, MemoryTypeOK
<1>4. summaries' \in [Story -> [of : 0..MaxTexts, changes : BOOLEAN]]
  BY <1>1, <1>2 DEF MemoryInv, MemoryTypeOK
<1>5. profiles' = profiles \cup {c}
  BY DEF Remember
<1>6. MemoryOfTexts'
  BY <1>2, <1>3, <1>5, AcceptTextFacts DEF MemoryInv, MemoryTypeOK, MemoryOfTexts
<1>7. QED
  BY <1>3, <1>4, <1>5, <1>6 DEF MemoryInv, MemoryTypeOK

\* the refreshed cache is what a full compression gives, unless a refresh was lost before
LEMMA RefreshedIsCurrent ==
  ASSUME MemoryInv, NEW c \in Story, AcceptText(c), Remember(c),
         distant' = Refreshed(c, summaries')
  PROVE  /\ distant' \in [cache : SUBSET (Story \X (1..MaxTexts)), upTo : 0..NChapters,
                          lost : BOOLEAN]
         /\ DistantIsCurrent'
<1> DEFINE end == CoverageEnd(c)
           seen == CoverageEnd(distant.upTo)
           now(k) == SummariesUpTo(summaries', k)
<1>1. /\ c \in 0..NChapters
      /\ distant.cache \in SUBSET (Story \X (1..MaxTexts)) /\ distant.upTo \in 0..NChapters
      /\ distant.lost \in BOOLEAN
  BY MemoryAssumption DEF MemoryInv, MemoryTypeOK, Story
<1>2. end \in 0..NChapters /\ seen \in 0..NChapters /\ (end > 0 => end < c)
  BY <1>1, MemoryAssumption DEF CoverageEnd
<1>3. \A k \in 0..NChapters : now(k) \in SUBSET (Story \X (1..MaxTexts))
  BY RememberFacts, SummariesType
<1>4. CASE end = 0 \/ distant.cache = {} \/ seen = 0 \/ seen > end
  <2>1. distant' = [cache |-> now(end), upTo |-> c, lost |-> FALSE]
    BY <1>4 DEF Refreshed
  <2>2. QED
    BY <1>1, <1>2, <1>3, <2>1 DEF DistantIsCurrent
<1>5. CASE ~ (end = 0 \/ distant.cache = {} \/ seen = 0 \/ seen > end)
  <2>1. distant' = [distant EXCEPT !.cache = distant.cache \cup (now(end) \ now(seen)),
                                   !.upTo = c]
    BY <1>5 DEF Refreshed
  <2>2. /\ distant'.cache = distant.cache \cup (now(end) \ now(seen))
        /\ distant'.upTo = c /\ distant'.lost = distant.lost
        /\ distant' \in [cache : SUBSET (Story \X (1..MaxTexts)), upTo : 0..NChapters,
                         lost : BOOLEAN]
    BY <1>1, <1>2, <1>3, <2>1 DEF MemoryInv, MemoryTypeOK
  <2>3. seen < c /\ seen <= end
    BY <1>1, <1>2, <1>5, MemoryAssumption DEF Story
  <2>4. now(seen) = SummariesUpTo(summaries, seen)
    BY <1>2, <2>3, RememberFacts, SummariesUntouched
  <2>5. now(seen) \subseteq now(end)
    BY <1>2, <2>3, MemoryAssumption DEF SummariesUpTo, Story
  <2>6. ~ distant.lost => distant.cache = now(seen)
    BY <1>5, <2>4 DEF MemoryInv, DistantIsCurrent
  <2>7. ~ distant'.lost => distant'.cache = now(end)
    BY <2>2, <2>5, <2>6
  <2>8. QED
    BY <2>2, <2>7 DEF DistantIsCurrent
<1>6. QED
  BY <1>4, <1>5

LEMMA AcceptRememberedKeeps ==
  ASSUME MemoryInv, NEW c \in Story, AcceptRemembered(c) PROVE MemoryInv'
<1>1. AcceptText(c) /\ Remember(c) /\ distant' = Refreshed(c, summaries')
  BY DEF AcceptRemembered
<1>2. PastAlone'
  BY <1>1, AcceptTextFacts DEF PastAlone
<1>3. MemoryTypeOK'
  BY <1>1, AcceptTextFacts, RememberFacts, RefreshedIsCurrent, MemoryAssumption
     DEF MemoryTypeOK
<1>4. QED
  BY <1>1, <1>2, <1>3, RememberFacts, RefreshedIsCurrent DEF MemoryInv

LEMMA AcceptForgottenKeeps ==
  ASSUME MemoryInv, NEW c \in Story, AcceptForgotten(c) PROVE MemoryInv'
<1>1. AcceptText(c) /\ UNCHANGED <<summaries, profiles, distant>>
  BY DEF AcceptForgotten
<1>2. MemoryTypeOK'
  BY <1>1, AcceptTextFacts, MemoryAssumption DEF MemoryInv, MemoryTypeOK
<1>3. MemoryOfTexts'
  BY <1>1, AcceptTextFacts DEF MemoryInv, MemoryTypeOK, MemoryOfTexts
<1>4. DistantIsCurrent' /\ PastAlone'
  BY <1>1, AcceptTextFacts DEF MemoryInv, DistantIsCurrent, SummariesUpTo, PastAlone
<1>5. QED
  BY <1>2, <1>3, <1>4 DEF MemoryInv

LEMMA AcceptHalfRememberedKeeps ==
  ASSUME MemoryInv, NEW c \in Story, AcceptHalfRemembered(c) PROVE MemoryInv'
<1>1. AcceptText(c) /\ Remember(c) /\ distant' = [distant EXCEPT !.lost = TRUE]
  BY DEF AcceptHalfRemembered
<1>2. /\ distant' \in [cache : SUBSET (Story \X (1..MaxTexts)), upTo : 0..NChapters,
                       lost : BOOLEAN]
      /\ distant'.lost
  BY <1>1 DEF MemoryInv, MemoryTypeOK
<1>3. MemoryTypeOK'
  BY <1>1, <1>2, AcceptTextFacts, RememberFacts, MemoryAssumption DEF MemoryTypeOK
<1>4. DistantIsCurrent' /\ PastAlone'
  BY <1>1, <1>2, AcceptTextFacts DEF DistantIsCurrent, PastAlone
<1>5. QED
  BY <1>1, <1>3, <1>4, RememberFacts DEF MemoryInv

(*************************** rewrite and revisions ************************)

LEMMA RewriteFromKeeps ==
  ASSUME MemoryInv, NEW n \in Story, RewriteFrom(n) PROVE MemoryInv'
<1>1. /\ texts' = [c \in Story |-> IF c >= n THEN 0 ELSE texts[c]]
      /\ summaries' = [c \in Story |-> IF c >= n THEN NoSummary ELSE summaries[c]]
      /\ profiles' = {c \in Story : summaries'[c].changes}
      /\ distant' = [cache |-> {}, upTo |-> n - 1, lost |-> FALSE]
      /\ rewriting' = n
  BY DEF RewriteFrom
<1>2. NoSummary \in [of : 0..MaxTexts, changes : BOOLEAN]
  BY MemoryAssumption DEF NoSummary
<1>3. n \in 1..NChapters /\ n - 1 \in 0..NChapters /\ n \in 0..NChapters
  BY MemoryAssumption DEF Story
<1>4. MemoryTypeOK'
  BY <1>1, <1>2, <1>3, MemoryAssumption DEF MemoryInv, MemoryTypeOK
<1>5. \A c \in Story : c >= n => summaries'[c].of = 0 /\ ~ summaries'[c].changes
  BY <1>1 DEF NoSummary
<1>6. \A c \in Story : ~ (c >= n) => summaries'[c] = summaries[c] /\ texts'[c] = texts[c]
  BY <1>1
<1>7. \A c \in Story : c >= n \/ c < n
  BY <1>3 DEF Story
<1>8. MemoryOfTexts'
  BY <1>1, <1>5, <1>6 DEF MemoryInv, MemoryOfTexts
<1>9. DistantIsCurrent' /\ PastAlone'
  BY <1>1, <1>5, <1>7 DEF DistantIsCurrent, PastAlone
<1>10. QED
  BY <1>4, <1>8, <1>9 DEF MemoryInv

LEMMA ApplyRevisionKeeps ==
  ASSUME MemoryInv, NEW c \in Story, ApplyRevision(c) PROVE MemoryInv'
<1>1. /\ summaries[c].of > 0 /\ profiles' = profiles \cup {c}
      /\ UNCHANGED <<texts, summaries, distant, rewriting>>
  BY DEF ApplyRevision, Summarised
<1>2. MemoryTypeOK' /\ MemoryOfTexts'
  BY <1>1 DEF MemoryInv, MemoryTypeOK, MemoryOfTexts
<1>3. DistantIsCurrent'
  BY <1>1 DEF MemoryInv, DistantIsCurrent, SummariesUpTo
<1>4. rewriting > 0 => c < rewriting
  BY <1>1, MemoryAssumption DEF MemoryInv, MemoryTypeOK, PastAlone, Story
<1>5. PastAlone'
  BY <1>1, <1>4 DEF MemoryInv, PastAlone
<1>6. QED
  BY <1>2, <1>3, <1>5 DEF MemoryInv

(******************************** theorems ********************************)

LEMMA MemoryStarts == MemoryInit => MemoryInv
<1> SUFFICES ASSUME MemoryInit PROVE MemoryInv
  OBVIOUS
<1>1. MemoryTypeOK
  BY MemoryAssumption DEF MemoryInit, MemoryTypeOK, NoSummary
<1>2. MemoryOfTexts /\ DistantIsCurrent /\ PastAlone
  BY DEF MemoryInit, NoSummary, MemoryOfTexts, DistantIsCurrent, PastAlone
<1>3. QED
  BY <1>1, <1>2 DEF MemoryInv

LEMMA MemorySteps == MemoryInv /\ [MemoryNext]_memoryVars => MemoryInv'
<1> SUFFICES ASSUME MemoryInv, [MemoryNext]_memoryVars PROVE MemoryInv'
  OBVIOUS
<1>1. CASE UNCHANGED memoryVars
  BY <1>1 DEF memoryVars, MemoryInv, MemoryTypeOK, MemoryOfTexts, DistantIsCurrent,
              SummariesUpTo, PastAlone
<1>2. QED
  BY <1>1, AcceptRememberedKeeps, AcceptForgottenKeeps, AcceptHalfRememberedKeeps,
     RewriteFromKeeps, ApplyRevisionKeeps
     DEF MemoryNext

LEMMA MemoryInvariant == MemorySpec => []MemoryInv
  BY MemoryStarts, MemorySteps, PTL DEF MemorySpec

(* The rows of texts, summaries, profiles and the distant memory keep their types. *)
THEOREM MemoryTypes == MemorySpec => []MemoryTypeOK
<1>1. MemoryInv => MemoryTypeOK
  BY DEF MemoryInv
<1>2. QED
  BY <1>1, MemoryInvariant, PTL

(* The distant memory that _update_distant_memory_cache extends step by step is the full   *)
(* compression of the summaries two chapters back and before, unless a refresh timed out,  *)
(* for every number of chapters and in whatever order they were accepted and rewritten. *)
THEOREM DistantMemoryIsCurrent == MemorySpec => []DistantIsCurrent
<1>1. MemoryInv => DistantIsCurrent
  BY DEF MemoryInv
<1>2. QED
  BY <1>1, MemoryInvariant, PTL

(* A chapter that is rewritten is written from its past alone: reset_resources_from_chapter *)
(* leaves nothing of a dropped text in summaries, profiles or distant memory. *)
THEOREM RewriteForgetsTheFuture == MemorySpec => []RewriteForgets
<1>1. MemoryInv => RewriteForgets
  <2> SUFFICES ASSUME MemoryInv, rewriting > 0, NEW c \in ToldOf(rewriting)
               PROVE  c < rewriting /\ texts[c] > 0
    BY DEF RewriteForgets
  <2>1. distant.cache = {}
    BY DEF MemoryInv, PastAlone
  <2>2. c \in profiles \/ c \in Summarised
    BY <2>1 DEF ToldOf
  <2>3. CASE c \in profiles
    BY <2>3 DEF MemoryInv, PastAlone, MemoryOfTexts
  <2>4. CASE c \in Summarised
    <3>1. c \in Story /\ summaries[c].of > 0
      BY <2>4 DEF Summarised
    <3>2. ~ (c >= rewriting)
      BY <3>1 DEF MemoryInv, PastAlone
    <3>3. QED
      BY <3>1, <3>2, MemoryAssumption DEF MemoryInv, MemoryTypeOK, MemoryOfTexts, Story
  <2>5. QED
    BY <2>2, <2>3, <2>4
<1>2. QED
  BY <1>1, MemoryInvariant, PTL

(****************************** ModelConfig ******************************)

(***************************************************************************)
(* Any number of projects, whatever requests saved, copied and deleted     *)
(* their configurations: a project that may be started has a client for    *)
(* every role.  The reason is an invariant of the rows: a project without  *)
(* a writer's row has no row at all, because every way to write rows       *)
(* either demands the writer's or takes over rows that have it.  And what  *)
(* the system saves does not reach a project that was created before.      *)
(***************************************************************************)

\* rows that the pipeline can take alone
HasWriter(rows) == RolesOf(rows) # {} => rows["writer"].row

ConfigInv ==
  /\ ConfigTypeOK
  /\ \A p \in Projects : HasWriter(projectRows[p])
  /\ \A p \in created : projectRows[p]["writer"].row

(******************************** reading *********************************)

LEMMA ConfigRowTypes == NoRow \in ConfigRow /\ EnvRow \in ConfigRow /\ EnvRow.row /\ ~ NoRow.row
<1>1. 0 \in 0..SavedKeys
  BY ModelConfigAssumption
<1>2. NoRow \in ConfigRow
  BY <1>1 DEF NoRow, ConfigRow
<1>3. EnvRow \in ConfigRow /\ EnvRow.row
  BY <1>2 DEF EnvRow, ConfigRow
<1>4. QED
  BY <1>2, <1>3 DEF NoRow

\* the system always offers a writer
LEMMA SystemConfigsComplete ==
  ASSUME ConfigTypeOK
  PROVE  SystemConfigs \in [Role -> ConfigRow] /\ SystemConfigs["writer"].row
<1>1. CASE RolesOf(systemRows) = {}
  BY <1>1, ConfigRowTypes DEF SystemConfigs, Role
<1>2. CASE RolesOf(systemRows) # {}
  <2>1. SystemConfigs = [r \in Role |-> IF systemRows[r].row \/ r \notin RequiredRoles
                                        THEN systemRows[r] ELSE EnvRow]
    BY <1>2 DEF SystemConfigs
  <2>2. QED
    BY <2>1, ConfigRowTypes DEF ConfigTypeOK, Role, RequiredRoles
<1>3. QED
  BY <1>1, <1>2

LEMMA SnapshotsComplete ==
  ASSUME ConfigTypeOK, NEW s \in Snapshots
  PROVE  s \in [Role -> ConfigRow] /\ s["writer"].row
<1>1. s = SystemConfigs \/ s = [SystemConfigs EXCEPT !["prompt_builder"] = NoRow]
  BY DEF Snapshots
<1>2. QED
  BY <1>1, SystemConfigsComplete, ConfigRowTypes DEF Role

LEMMA ShownComplete ==
  ASSUME ConfigInv, NEW p \in Projects, NEW c \in ShownConfigs(p)
  PROVE  c \in [Role -> ConfigRow] /\ c["writer"].row
<1>1. PICK s \in Snapshots :
        c = [r \in Role |-> IF projectRows[p][r].row THEN projectRows[p][r] ELSE s[r]]
  BY DEF ShownConfigs
<1>2. s \in [Role -> ConfigRow] /\ s["writer"].row
  BY SnapshotsComplete DEF ConfigInv
<1>3. QED
  BY <1>1, <1>2 DEF ConfigInv, ConfigTypeOK, Role

LEMMA SomeShown == ASSUME NEW p PROVE ShownConfigs(p) # {}
  BY DEF ShownConfigs, Snapshots

(******************************** writing *********************************)

LEMMA SaveTypes ==
  ASSUME ConfigTypeOK, NEW k \in {0, 1}, Save(k)
  PROVE  /\ saves' \in [left : 0..MaxSaves, keys : 0..SavedKeys]
         /\ k = 1 => saves.keys + 1 \in 0..SavedKeys
  BY ModelConfigAssumption DEF ConfigTypeOK, Save

\* a payload that names the writer leaves rows with one
LEMMA AfterComplete ==
  ASSUME ConfigTypeOK, NEW old \in [Role -> ConfigRow], NEW roles \in SUBSET Role,
         NEW form \in Form, NEW changed \in roles, Complete(roles),
         form.key = "new" => saves.keys + 1 \in 0..SavedKeys
  PROVE  /\ After(old, roles, changed, form) \in [Role -> ConfigRow]
         /\ HasWriter(After(old, roles, changed, form))
         /\ After(old, roles, changed, form)["writer"].row
<1> DEFINE f(r) == IF r = changed THEN form ELSE AsShown(old[r])
<1>1. ASSUME NEW r \in Role
      PROVE  Merged(old[r], f(r)) \in ConfigRow /\ Merged(old[r], f(r)).row
  <2>1. old[r] \in ConfigRow
    OBVIOUS
  <2>2. f(r) \in Form /\ (f(r).key = "new" => saves.keys + 1 \in 0..SavedKeys)
    BY <2>1 DEF Form, AsShown, ConfigRow
  <2> HIDE DEF f
  <2>3. (f(r).channel /\ channelRow.present) \in BOOLEAN
    BY <2>2 DEF Form, ConfigTypeOK
  <2>4. QED
    BY <2>1, <2>2, <2>3, ModelConfigAssumption DEF Merged, ConfigRow, Form
<1>2. After(old, roles, changed, form) =
        [r \in Role |-> IF r \notin roles THEN NoRow ELSE Merged(old[r], f(r))]
  BY DEF After
<1> HIDE DEF f
<1>3. "writer" \in roles /\ "writer" \in Role
  BY DEF Complete, RequiredRoles, Role
<1>4. QED
  BY <1>1, <1>2, <1>3, ConfigRowTypes DEF HasWriter

LEMMA SaveSystemConfigsKeeps == ASSUME ConfigInv, SaveSystemConfigs PROVE ConfigInv'
<1>1. PICK roles \in SUBSET Role, form \in Form, changed \in Role :
        /\ changed \in roles /\ Complete(roles)
        /\ Save(IF form.key = "new" THEN 1 ELSE 0)
        /\ systemRows' = After(systemRows, roles, changed, form)
  BY DEF SaveSystemConfigs
<1>2. UNCHANGED <<projectRows, created, channelRow>>
  BY DEF SaveSystemConfigs
<1>3. /\ saves' \in [left : 0..MaxSaves, keys : 0..SavedKeys]
      /\ form.key = "new" => saves.keys + 1 \in 0..SavedKeys
  BY <1>1, SaveTypes DEF ConfigInv
<1>4. systemRows' \in [Role -> ConfigRow]
  BY <1>1, <1>3, AfterComplete DEF ConfigInv, ConfigTypeOK
<1>5. QED
  BY <1>2, <1>3, <1>4 DEF ConfigInv, ConfigTypeOK

LEMMA SaveProjectConfigsKeeps ==
  ASSUME ConfigInv, NEW p \in Projects, SaveProjectConfigs(p) PROVE ConfigInv'
<1>1. PICK roles \in SUBSET Role, form \in Form, changed \in Role :
        /\ changed \in roles /\ Complete(roles)
        /\ Save(IF form.key = "new" THEN 1 ELSE 0)
        /\ projectRows' = [projectRows EXCEPT ![p] = After(@, roles, changed, form)]
  BY DEF SaveProjectConfigs
<1>2. UNCHANGED <<systemRows, created, channelRow>>
  BY DEF SaveProjectConfigs
<1>3. /\ saves' \in [left : 0..MaxSaves, keys : 0..SavedKeys]
      /\ form.key = "new" => saves.keys + 1 \in 0..SavedKeys
  BY <1>1, SaveTypes DEF ConfigInv
<1>4. projectRows[p] \in [Role -> ConfigRow]
  BY DEF ConfigInv, ConfigTypeOK
<1>5. /\ After(projectRows[p], roles, changed, form) \in [Role -> ConfigRow]
      /\ HasWriter(After(projectRows[p], roles, changed, form))
      /\ After(projectRows[p], roles, changed, form)["writer"].row
  BY <1>1, <1>3, <1>4, AfterComplete DEF ConfigInv
<1>6. QED
  BY <1>1, <1>2, <1>3, <1>5 DEF ConfigInv, ConfigTypeOK

LEMMA CreateProjectKeeps ==
  ASSUME ConfigInv, NEW p \in Projects, CreateProject(p) PROVE ConfigInv'
<1>1. PICK s \in Snapshots :
        projectRows' = [projectRows EXCEPT ![p] = [r \in Role |-> [s[r] EXCEPT !.key = 0]]]
  BY DEF CreateProject
<1>2. /\ created' = created \cup {p} /\ Save(0)
      /\ UNCHANGED <<systemRows, channelRow>>
  BY DEF CreateProject
<1>3. s \in [Role -> ConfigRow] /\ s["writer"].row
  BY SnapshotsComplete DEF ConfigInv
<1> DEFINE rows == [r \in Role |-> [s[r] EXCEPT !.key = 0]]
<1>4. rows \in [Role -> ConfigRow] /\ rows["writer"].row
  <2>1. ASSUME NEW r \in Role
        PROVE  [s[r] EXCEPT !.key = 0] \in ConfigRow /\ [s[r] EXCEPT !.key = 0].row = s[r].row
    BY <1>3, ModelConfigAssumption DEF ConfigRow
  <2>2. QED
    BY <1>3, <2>1 DEF Role
<1> HIDE DEF rows
<1>5. projectRows' = [projectRows EXCEPT ![p] = rows]
  BY <1>1 DEF rows
<1>6. QED
  BY <1>2, <1>4, <1>5, SaveTypes DEF ConfigInv, ConfigTypeOK, HasWriter

LEMMA CopyProjectKeeps ==
  ASSUME ConfigInv, NEW p \in Projects, NEW q \in Projects, CopyProject(p, q) PROVE ConfigInv'
<1>1. PICK c \in ShownConfigs(p) : projectRows' = [projectRows EXCEPT ![q] = c]
  BY DEF CopyProject
<1>2. /\ created' = created \cup {q} /\ Save(0)
      /\ UNCHANGED <<systemRows, channelRow>>
  BY DEF CopyProject
<1>3. c \in [Role -> ConfigRow] /\ c["writer"].row
  BY ShownComplete
<1>4. QED
  BY <1>1, <1>2, <1>3, SaveTypes DEF ConfigInv, ConfigTypeOK, HasWriter

LEMMA DeleteProjectKeeps ==
  ASSUME ConfigInv, NEW p \in Projects, DeleteProject(p) PROVE ConfigInv'
<1>1. /\ created' = created \ {p} /\ Save(0)
      /\ projectRows' = [projectRows EXCEPT ![p] = NoRows]
      /\ UNCHANGED <<systemRows, channelRow>>
  BY DEF DeleteProject
<1>2. NoRows \in [Role -> ConfigRow] /\ HasWriter(NoRows)
  BY ConfigRowTypes DEF NoRows, HasWriter, RolesOf
<1>3. QED
  BY <1>1, <1>2, SaveTypes DEF ConfigInv, ConfigTypeOK

LEMMA SaveChannelKeeps == ASSUME ConfigInv, SaveChannel PROVE ConfigInv'
<1>1. PICK key \in {"keep", "clear", "new"}, variable \in BOOLEAN :
        /\ Save(IF key = "new" THEN 1 ELSE 0)
        /\ channelRow' = [present |-> TRUE, variable |-> variable,
                          key |-> IF key = "clear" THEN 0
                                  ELSE IF key = "new" THEN saves.keys + 1 ELSE channelRow.key]
        /\ UNCHANGED <<systemRows, projectRows, created>>
  BY DEF SaveChannel
<1>2. /\ saves' \in [left : 0..MaxSaves, keys : 0..SavedKeys]
      /\ key = "new" => saves.keys + 1 \in 0..SavedKeys
  BY <1>1, SaveTypes DEF ConfigInv
<1>3. channelRow' \in [present : BOOLEAN, key : 0..SavedKeys, variable : BOOLEAN]
  BY <1>1, <1>2, ModelConfigAssumption DEF ConfigInv, ConfigTypeOK
<1>4. QED
  BY <1>1, <1>2, <1>3 DEF ConfigInv, ConfigTypeOK

LEMMA DeleteChannelKeeps == ASSUME ConfigInv, DeleteChannel PROVE ConfigInv'
<1> DEFINE off(rows) == [r \in Role |-> [rows[r] EXCEPT !.channel = FALSE]]
<1>1. /\ systemRows' = off(systemRows)
      /\ projectRows' = [p \in Projects |-> off(projectRows[p])]
      /\ channelRow' = [present |-> FALSE, key |-> 0, variable |-> FALSE]
      /\ created' = created /\ Save(0)
  BY DEF DeleteChannel
<1>2. ASSUME NEW rows \in [Role -> ConfigRow]
      PROVE  /\ off(rows) \in [Role -> ConfigRow]
             /\ HasWriter(rows) => HasWriter(off(rows))
             /\ off(rows)["writer"].row = rows["writer"].row
  <2>1. ASSUME NEW r \in Role
        PROVE  off(rows)[r] \in ConfigRow /\ off(rows)[r].row = rows[r].row
    BY DEF ConfigRow
  <2>2. off(rows) \in [Role -> ConfigRow]
    BY <2>1
  <2> HIDE DEF off
  <2>3. "writer" \in Role
    BY DEF Role
  <2>4. QED
    BY <2>1, <2>2, <2>3 DEF HasWriter, RolesOf
<1>3. channelRow' \in [present : BOOLEAN, key : 0..SavedKeys, variable : BOOLEAN]
  BY <1>1, ModelConfigAssumption
<1> HIDE DEF off
<1>4. QED
  BY <1>1, <1>2, <1>3, SaveTypes DEF ConfigInv, ConfigTypeOK

(******************************** theorems ********************************)

LEMMA ConfigStarts == ConfigInit => ConfigInv
BY ConfigRowTypes, ModelConfigAssumption
   DEF ConfigInit, ConfigInv, ConfigTypeOK, NoRows, HasWriter, RolesOf

LEMMA ConfigSteps == ConfigInv /\ [ConfigNext]_configVars => ConfigInv'
<1> SUFFICES ASSUME ConfigInv, [ConfigNext]_configVars PROVE ConfigInv'
  OBVIOUS
<1>1. CASE UNCHANGED configVars
  BY <1>1 DEF configVars, ConfigInv, ConfigTypeOK
<1>2. QED
  BY <1>1, SaveSystemConfigsKeeps, SaveProjectConfigsKeeps, CreateProjectKeeps,
     CopyProjectKeeps, DeleteProjectKeeps, SaveChannelKeeps, DeleteChannelKeeps
     DEF ConfigNext

LEMMA ConfigInvariant == ConfigSpec => []ConfigInv
  BY ConfigStarts, ConfigSteps, PTL DEF ConfigSpec

(* The rows of configurations, the channel and the counters keep their types. *)
THEOREM ConfigTypes == ConfigSpec => []ConfigTypeOK
<1>1. ConfigInv => ConfigTypeOK
  BY DEF ConfigInv
<1>2. QED
  BY <1>1, ConfigInvariant, PTL

(* A project that ensure_required_model_roles lets start has a configuration for every role *)
(* RuntimeService is asked for, although the two read different rows. *)
THEOREM StartedProjectsHaveClients == ConfigSpec => []StartedHasClients
<1>1. ConfigInv => StartedHasClients
  <2> SUFFICES ASSUME ConfigInv, NEW p \in Projects, NEW r \in Role
               PROVE  RuntimeConfig(p, r, "writer").row
    BY DEF StartedHasClients, ConfigInv, ConfigTypeOK
  <2> DEFINE rows == IF RolesOf(projectRows[p]) # {} THEN projectRows[p]
                     ELSE CHOOSE c \in ShownConfigs(p) : TRUE
  <2>1. rows["writer"].row
    <3>1. CASE RolesOf(projectRows[p]) # {}
      BY <3>1 DEF ConfigInv, HasWriter
    <3>2. CASE RolesOf(projectRows[p]) = {}
      <4>1. (CHOOSE c \in ShownConfigs(p) : TRUE) \in ShownConfigs(p)
        BY SomeShown
      <4>2. QED
        BY <3>2, <4>1, ShownComplete
    <3>3. QED
      BY <3>1, <3>2
  <2>2. RuntimeConfig(p, r, "writer") = IF rows[r].row THEN rows[r] ELSE rows["writer"]
    BY DEF RuntimeConfig
  <2> HIDE DEF rows
  <2>3. QED
    BY <2>1, <2>2
<1>2. QED
  BY <1>1, ConfigInvariant, PTL

(* Saving the system's configuration changes neither the configuration nor the key that an  *)
(* existing project writes or builds its prompts with: its own rows have a writer, so       *)
(* RuntimeService never looks at the system's (SystemSettings.vue's "only affects projects  *)
(* created later"). *)
THEOREM SystemSavesStayOut == ConfigSpec => SystemSettingsStayOut
<1>1. ASSUME ConfigInv, [ConfigNext]_configVars,
             systemRows' # systemRows, channelRow' = channelRow,
             NEW p \in created, NEW r \in Role
      PROVE  ClientOf(p, r)' = ClientOf(p, r)
  <2>1. SaveSystemConfigs
    <3>1. ~ DeleteChannel
      BY <1>1 DEF DeleteChannel
    <3>2. QED
      BY <1>1, <3>1 DEF ConfigNext, configVars, SaveProjectConfigs, CreateProject, CopyProject,
                        DeleteProject, SaveChannel
  <2>2. UNCHANGED <<projectRows, channelRow>>
    BY <2>1 DEF SaveSystemConfigs
  <2>3. RolesOf(projectRows[p]) # {}
    BY <1>1 DEF ConfigInv, RolesOf, Role
  <2>4. RuntimeConfig(p, r, "writer")
          = IF projectRows[p][r].row THEN projectRows[p][r] ELSE projectRows[p]["writer"]
    BY <2>3 DEF RuntimeConfig
  <2>5. RuntimeConfig(p, r, "writer")'
          = IF projectRows[p][r].row THEN projectRows[p][r] ELSE projectRows[p]["writer"]
    BY <2>2, <2>3 DEF RuntimeConfig
  <2>6. QED
    BY <2>2, <2>4, <2>5 DEF ClientOf, KeySource
<1>2. ConfigInv /\ [ConfigNext]_configVars
        => [systemRows' # systemRows /\ channelRow' = channelRow
              => \A p \in created, r \in Role : ClientOf(p, r)' = ClientOf(p, r)]_configVars
  BY <1>1
<1>3. QED
  BY <1>2, ConfigInvariant, PTL DEF ConfigSpec, SystemSettingsStayOut

(******************************* Channels ********************************)

(***************************************************************************)
(* A channel has one default, for any number of requests, models and      *)
(* lists, while no two requests replace its list, and no two move its      *)
(* flags, at the same time; a change and a refresh may interleave.         *)
(*                                                                         *)
(* OneDefault is about the rows between transactions; the invariant says   *)
(* what a request under way will make of them.  One that flags models has  *)
(* the flags to move as it read them (CurrentFlags), and one that replaces *)
(* the list replaces all of it (WholeList), until two requests overlap,    *)
(* which channelInfo remembers.                                            *)
(***************************************************************************)

Flagging(a)  == admin[a].pc \in {"flagging", "flagged"}
Replacing(a) == admin[a].pc \in {"deleting", "replacing"}
OneOf(S) == \A x, y \in S : x = y

\* a request that writes has one default to write, and flags no other model
OneWanted(x) ==
  x.pc \notin {"idle", "discovering"} =>
    (\E m \in Models : x.wanted = {m}) /\ x.chosen \subseteq x.wanted
Listed ==
  \A m \in Models : /\ listed[m].list <= channelInfo.lists
                    /\ listed[m].flag => listed[m].list > 0
RowsRead ==
  \A a \in Admins : /\ \A x \in admin[a].rows : x[2] <= channelInfo.lists
                    /\ admin[a].list <= channelInfo.lists
                    /\ Replacing(a) => admin[a].list > 0
\* the flags to move, as they were read, are those to move now, or all of another list
CurrentFlags(x) ==
  \/ x.rows \cap RowsOf(Models) = {}
  \/ \A m \in Models : listed[m].list > 0 =>
       (<<m, listed[m].list>> \in x.rows <=> listed[m].flag # (m \in x.chosen))
\* the list to come replaces all that there is
WholeList(x) ==
  /\ x.rows = RowsOf(Models)
  /\ \A m \in Models : listed[m].list # x.list
  /\ \A b \in Admins : Flagging(b) => \A y \in admin[b].rows : y[2] # x.list
InTurn ==
  /\ \A a, b \in Admins : Flagging(a) /\ Flagging(b) => a = b
  /\ \A a, b \in Admins : Replacing(a) /\ Replacing(b) => a = b
  /\ \A a \in Admins : Flagging(a) => CurrentFlags(admin[a])
  /\ \A a \in Admins : Replacing(a) => WholeList(admin[a])
  /\ OneOf(Flagged)

ChannelsInv ==
  /\ ChannelsTypeOK
  /\ \A a \in Admins : OneWanted(admin[a])
  /\ Listed /\ RowsRead
  /\ ~ channelInfo.overlapped => InTurn

LEMMA IdleAdminTyped == IdleAdmin \in AdminRow
<1>1. (CHOOSE m \in Models : TRUE) \in Models
  BY ChannelsAssumption
<1> QED  BY <1>1, ChannelsAssumption DEF IdleAdmin, AdminRow, AdminPhase

LEMMA RowsFacts ==
  ASSUME ChannelsTypeOK, NEW S \in SUBSET Models
  PROVE  /\ RowsOf(S) \in SUBSET ListedName
         /\ \A m \in Models : \A l : <<m, l>> \in RowsOf(S) <=> m \in S /\ l = listed[m].list /\ l > 0
         /\ \A x \in RowsOf(S) : \E m \in S : x = <<m, listed[m].list>> /\ listed[m].list > 0
<1>1. \A m \in Models : listed[m].list \in 0..MaxLists
  BY DEF ChannelsTypeOK, ListedRow
<1> QED  BY <1>1, ChannelsAssumption DEF RowsOf, ListedName

\* A request that neither flags nor replaces, or goes on with the same rows, disturbs no other.
LEMMA MovesOn ==
  ASSUME ChannelsInv, NEW a \in Admins, NEW row \in AdminRow,
         admin' = [admin EXCEPT ![a] = row], OneWanted(row),
         \A x \in row.rows : x[2] <= channelInfo.lists, row.list <= channelInfo.lists,
         \/ row.pc \notin {"flagging", "flagged", "deleting", "replacing"}
         \/ /\ row.pc \in {"flagging", "flagged"} <=> Flagging(a)
            /\ row.pc \in {"deleting", "replacing"} <=> Replacing(a)
            /\ row.rows = admin[a].rows /\ row.chosen = admin[a].chosen
            /\ row.list = admin[a].list,
         channelDefault' \in Models, UNCHANGED <<listed, channelInfo>>
  PROVE  ChannelsInv'
<1>1. /\ admin' \in [Admins -> AdminRow]
      /\ \A b \in Admins : admin'[b] = IF b = a THEN row ELSE admin[b]
  BY DEF ChannelsInv, ChannelsTypeOK
<1>2. ChannelsTypeOK'
  BY <1>1 DEF ChannelsInv, ChannelsTypeOK
<1>3. (\A b \in Admins : OneWanted(admin[b]))' /\ Listed' /\ RowsRead'
  BY <1>1 DEF ChannelsInv, OneWanted, Listed, RowsRead, Replacing
<1>4. \A S \in SUBSET Models : RowsOf(S)' = RowsOf(S)
  BY DEF RowsOf
<1>5. ASSUME InTurn PROVE InTurn'
  <2>1. \A b \in Admins : /\ Flagging(b)' => Flagging(b)
                          /\ Replacing(b)' => Replacing(b)
                          /\ Flagging(b)' \/ Replacing(b)' =>
                               /\ admin'[b].rows = admin[b].rows
                               /\ admin'[b].chosen = admin[b].chosen
                               /\ admin'[b].list = admin[b].list
    BY <1>1 DEF Flagging, Replacing
  <2>2. \A b \in Admins : Flagging(b)' => CurrentFlags(admin[b])'
    BY <1>4, <1>5, <2>1 DEF InTurn, CurrentFlags
  <2>3. \A b \in Admins : Replacing(b)' => WholeList(admin[b])'
    BY <1>4, <1>5, <2>1 DEF InTurn, WholeList
  <2> QED  BY <1>5, <2>1, <2>2, <2>3 DEF InTurn, Flagged
<1> QED  BY <1>2, <1>3, <1>5 DEF ChannelsInv

LEMMA LoadsKeep ==
  ASSUME ChannelsInv, NEW a \in Admins,
         UpdateLoads(a) \/ RefreshLoads(a) \/ DiscoveryFails(a) \/ RequestDies(a)
  PROVE  ChannelsInv'
<1>1. channelDefault \in Models /\ UNCHANGED <<channelDefault, listed, channelInfo>>
  BY DEF ChannelsInv, ChannelsTypeOK, UpdateLoads, RefreshLoads, DiscoveryFails, RequestDies
<1>2. /\ IdleAdmin \in AdminRow /\ IdleAdmin.pc = "idle"
      /\ IdleAdmin.rows = {} /\ IdleAdmin.chosen = {} /\ IdleAdmin.list = 0
  BY IdleAdminTyped DEF IdleAdmin
<1>3. \E row \in AdminRow :
        /\ admin' = [admin EXCEPT ![a] = row]
        /\ row.rows = {} /\ row.chosen = {} /\ row.list = 0
        /\ \/ row.pc \in {"idle", "discovering"}
           \/ row.pc = "loaded" /\ \E m \in Models : row.wanted = {m}
  <2>1. CASE UpdateLoads(a)
    <3>1. PICK m \in Models :
            admin' = [admin EXCEPT ![a] = [IdleAdmin EXCEPT !.pc = "loaded", !.wanted = {m},
                                                            !.loaded = channelDefault]]
      BY <2>1 DEF UpdateLoads
    <3> DEFINE row == [IdleAdmin EXCEPT !.pc = "loaded", !.wanted = {m},
                                        !.loaded = channelDefault]
    <3>2. /\ row \in AdminRow /\ row.rows = {} /\ row.chosen = {}
          /\ row.pc = "loaded" /\ row.wanted = {m} /\ row.list = 0
      BY <1>1, <1>2 DEF AdminRow, AdminPhase
    <3> HIDE DEF row
    <3> QED  BY <3>1, <3>2 DEF row
  <2>2. CASE RefreshLoads(a)
    <3> DEFINE row == [IdleAdmin EXCEPT !.pc = "discovering", !.loaded = channelDefault]
    <3>1. /\ row \in AdminRow /\ row.rows = {} /\ row.chosen = {} /\ row.pc = "discovering"
          /\ row.list = 0
      BY <1>1, <1>2 DEF AdminRow, AdminPhase
    <3>2. admin' = [admin EXCEPT ![a] = row]
      BY <2>2 DEF RefreshLoads
    <3> HIDE DEF row
    <3> QED  BY <3>1, <3>2
  <2>3. CASE DiscoveryFails(a) \/ RequestDies(a)
    BY <1>2, <2>3 DEF DiscoveryFails, RequestDies, Finish
  <2> QED  BY <2>1, <2>2, <2>3
<1>4. 0 <= channelInfo.lists
  BY ChannelsAssumption DEF ChannelsInv, ChannelsTypeOK
<1> QED  BY <1>1, <1>3, <1>4, MovesOn DEF OneWanted

LEMMA FlushesKeep ==
  ASSUME ChannelsInv, NEW a \in Admins, UpdateFlags(a) \/ ReplaceFlushes(a)
  PROVE  ChannelsInv'
<1>1. /\ channelDefault' \in Models /\ UNCHANGED <<listed, channelInfo>>
      /\ admin \in [Admins -> AdminRow] /\ admin[a] \in AdminRow /\ OneWanted(admin[a])
      /\ \A x \in admin[a].rows : x[2] <= channelInfo.lists
      /\ admin[a].list <= channelInfo.lists
  BY DEF ChannelsInv, ChannelsTypeOK, UpdateFlags, ReplaceFlushes, RowsRead
<1>2. CASE UpdateFlags(a)
  <2> DEFINE row == [admin[a] EXCEPT !.pc = "flagged"]
  <2>1. /\ row \in AdminRow /\ row.pc = "flagged" /\ row.rows = admin[a].rows
        /\ row.chosen = admin[a].chosen /\ row.wanted = admin[a].wanted
        /\ row.list = admin[a].list
    BY <1>1 DEF AdminRow, AdminPhase
  <2>2. admin' = [admin EXCEPT ![a] = row] /\ admin[a].pc = "flagging"
    BY <1>1, <1>2 DEF UpdateFlags
  <2> HIDE DEF row
  <2> QED  BY <1>1, <2>1, <2>2, MovesOn DEF OneWanted, Flagging, Replacing
<1>3. CASE ReplaceFlushes(a)
  <2>1. PICK holds \in BOOLEAN :
          admin' = [admin EXCEPT ![a].pc = "replacing", ![a].holdsRow = holds]
    BY <1>3 DEF ReplaceFlushes
  <2> DEFINE row == [admin[a] EXCEPT !.pc = "replacing", !.holdsRow = holds]
  <2>2. /\ row \in AdminRow /\ row.pc = "replacing" /\ row.rows = admin[a].rows
        /\ row.chosen = admin[a].chosen /\ row.wanted = admin[a].wanted
        /\ row.list = admin[a].list
    BY <1>1 DEF AdminRow, AdminPhase
  <2>3. admin' = [admin EXCEPT ![a] = row] /\ admin[a].pc = "deleting"
    BY <1>1, <1>3, <2>1 DEF ReplaceFlushes
  <2> HIDE DEF row
  <2> QED  BY <1>1, <2>2, <2>3, MovesOn DEF OneWanted, Flagging, Replacing
<1> QED  BY <1>2, <1>3

LEMMA UpdateReadsKeeps == ASSUME ChannelsInv, NEW a \in Admins, UpdateReads(a) PROVE ChannelsInv'
<1> DEFINE changes == admin[a].wanted # {admin[a].loaded}
           known == {m \in admin[a].wanted : listed[m].list > 0}
           stale == {m \in Models : known # {} /\ listed[m].list > 0
                                      /\ listed[m].flag # (m \in known)}
           row == [admin[a] EXCEPT !.pc = "flagging", !.chosen = known,
                                   !.holdsRow = changes, !.rows = RowsOf(stale)]
<1>1. /\ admin[a] \in AdminRow /\ admin \in [Admins -> AdminRow] /\ admin[a].pc = "loaded"
      /\ UNCHANGED <<channelDefault, listed>> /\ Overlaps({"flagging", "flagged"}, a)
      /\ admin' = [admin EXCEPT ![a] = row]
      /\ channelInfo \in [lists : 0..MaxLists, overlapped : BOOLEAN]
  BY DEF UpdateReads, ChannelsInv, ChannelsTypeOK
<1>2. PICK w \in Models : admin[a].wanted = {w}
  BY <1>1 DEF ChannelsInv, OneWanted
<1>3. /\ known \subseteq {w} /\ known \in SUBSET Models /\ stale \in SUBSET Models
      /\ RowsOf(stale) \in SUBSET ListedName
      /\ \A m \in Models : \A l : <<m, l>> \in RowsOf(stale) <=>
                                m \in stale /\ l = listed[m].list /\ l > 0
      /\ \A x \in RowsOf(stale) : \E m \in Models : x = <<m, listed[m].list>>
      /\ \A m \in Models : m \in stale <=> /\ known # {} /\ listed[m].list > 0
                                           /\ listed[m].flag # (m \in known)
      /\ changes \in BOOLEAN
  <2>1. known \subseteq {w} /\ known \in SUBSET Models /\ stale \in SUBSET Models
    BY <1>2
  <2> QED  BY <2>1, RowsFacts DEF ChannelsInv
<1> HIDE DEF known, stale, changes
<1>4. /\ row \in AdminRow /\ row.pc = "flagging" /\ row.chosen = known
      /\ row.rows = RowsOf(stale) /\ row.wanted = {w} /\ row.list = admin[a].list
  BY <1>1, <1>2, <1>3 DEF AdminRow, AdminPhase
<1> HIDE DEF row
<1>5. /\ admin' \in [Admins -> AdminRow]
      /\ \A b \in Admins : admin'[b] = IF b = a THEN row ELSE admin[b]
  BY <1>1, <1>4
<1>6. /\ channelInfo' \in [lists : 0..MaxLists, overlapped : BOOLEAN]
      /\ channelInfo'.lists = channelInfo.lists
      /\ ~ channelInfo'.overlapped => /\ ~ channelInfo.overlapped
                                      /\ \A b \in Admins : Flagging(b) => b = a
  BY <1>1 DEF Overlaps, At, Flagging
<1>7. ChannelsTypeOK'
  BY <1>1, <1>5, <1>6 DEF ChannelsInv, ChannelsTypeOK
<1>8. (\A b \in Admins : OneWanted(admin[b]))' /\ Listed'
  BY <1>1, <1>3, <1>4, <1>5, <1>6 DEF ChannelsInv, OneWanted, Listed
<1>9. RowsRead'
  BY <1>1, <1>3, <1>4, <1>5, <1>6 DEF ChannelsInv, Listed, RowsRead, Replacing
<1>10. ASSUME InTurn, ~ channelInfo'.overlapped PROVE InTurn'
  <2>1. RowsOf(Models)' = RowsOf(Models)
    BY <1>1 DEF RowsOf
  <2>2. \A b \in Admins : Replacing(b)' => Replacing(b) /\ b # a /\ admin'[b] = admin[b]
    BY <1>4, <1>5 DEF Replacing
  <2>3. \A b \in Admins : Flagging(b)' => b = a
    BY <1>5, <1>6, <1>10 DEF Flagging
  <2>4. CurrentFlags(admin[a])'
    <3>1. CASE known = {}
      <4>1. RowsOf(stale) = {}
        BY <1>3, <3>1 DEF RowsOf
      <4> QED  BY <1>4, <1>5, <4>1 DEF CurrentFlags
    <3>2. CASE known # {}
      <4>1. \A m \in Models : listed[m].list > 0 =>
              (<<m, listed[m].list>> \in RowsOf(stale) <=> listed[m].flag # (m \in known))
        BY <1>3, <3>2
      <4> QED  BY <1>1, <1>4, <1>5, <4>1 DEF CurrentFlags
    <3> QED  BY <3>1, <3>2
  <2>5. ASSUME NEW b \in Admins, Replacing(b)' PROVE WholeList(admin[b])'
    <3>1. /\ admin'[b] = admin[b] /\ admin[b].rows = RowsOf(Models)
          /\ \A m \in Models : listed[m].list # admin[b].list
      BY <1>10, <2>2, <2>5 DEF InTurn, WholeList
    <3>2. \A y \in row.rows : y[2] # admin[b].list
      BY <1>3, <1>4, <3>1
    <3>3. \A c \in Admins : Flagging(c)' => admin'[c] = row
      BY <1>5, <2>3
    <3> QED  BY <1>1, <2>1, <3>1, <3>2, <3>3 DEF WholeList
  <2> QED  BY <1>1, <1>10, <2>2, <2>3, <2>4, <2>5 DEF InTurn, Flagged
<1> QED  BY <1>6, <1>7, <1>8, <1>9, <1>10 DEF ChannelsInv

\* The commit of the flags: what is flagged is the model chosen, or what was flagged before.
LEMMA UpdateCommitsKeeps ==
  ASSUME ChannelsInv, NEW a \in Admins, UpdateCommits(a)
  PROVE  ChannelsInv'
<1> DEFINE x == admin[a]
<1>1. /\ x \in AdminRow /\ admin \in [Admins -> AdminRow] /\ x.pc = "flagged"
      /\ admin' = [admin EXCEPT ![a] = IdleAdmin] /\ channelInfo' = channelInfo
      /\ listed \in [Models -> ListedRow] /\ WriteDefault(a) /\ channelDefault \in Models
      /\ x.rows \in SUBSET ListedName
      /\ OneWanted(x)
  BY DEF UpdateCommits, Finish, ChannelsInv, ChannelsTypeOK, AdminRow
<1>2. /\ listed' \in [Models -> ListedRow]
      /\ \A m \in Models :
           /\ listed'[m].list = listed[m].list
           /\ listed'[m].flag = IF <<m, listed[m].list>> \in x.rows THEN m \in x.chosen
                                ELSE listed[m].flag
  <2>1. listed' = [m \in Models |-> IF <<m, listed[m].list>> \in x.rows
                                    THEN [listed[m] EXCEPT !.flag = m \in x.chosen]
                                    ELSE listed[m]]
    BY DEF UpdateCommits
  <2>2. ASSUME NEW m \in Models, NEW f \in BOOLEAN
        PROVE  /\ [listed[m] EXCEPT !.flag = f] \in ListedRow
               /\ [listed[m] EXCEPT !.flag = f].list = listed[m].list
               /\ [listed[m] EXCEPT !.flag = f].flag = f
    BY <1>1 DEF ListedRow
  <2> HIDE DEF x
  <2>3. \A m \in Models : (m \in x.chosen) \in BOOLEAN
    OBVIOUS
  <2> QED  BY <1>1, <2>1, <2>2, <2>3
<1>3. channelDefault' \in Models
  <2>1. PICK m \in Models : x.wanted = {m}
    BY <1>1 DEF OneWanted
  <2>2. (CHOOSE d \in x.wanted : TRUE) \in Models
    BY <2>1
  <2> QED  BY <1>1, <2>2 DEF WriteDefault
<1>4. /\ IdleAdmin \in AdminRow /\ IdleAdmin.pc = "idle" /\ IdleAdmin.rows = {}
  BY IdleAdminTyped DEF IdleAdmin
<1>5. \A b \in Admins : admin'[b] = IF b = a THEN IdleAdmin ELSE admin[b]
  BY <1>1, <1>4
<1>6. ChannelsTypeOK'
  BY <1>1, <1>2, <1>3, <1>4 DEF ChannelsInv, ChannelsTypeOK
<1>7. (\A b \in Admins : OneWanted(admin[b]))' /\ RowsRead'
  <2>1. 0 <= channelInfo.lists /\ IdleAdmin.list = 0
    BY ChannelsAssumption DEF ChannelsInv, ChannelsTypeOK, IdleAdmin
  <2> QED  BY <1>1, <1>4, <1>5, <2>1 DEF ChannelsInv, OneWanted, RowsRead, Replacing
<1>8. Listed'
  <2>1. \A m \in Models : <<m, listed[m].list>> \in x.rows => listed[m].list > 0
    BY <1>1 DEF ListedName
  <2> QED  BY <1>1, <1>2, <2>1 DEF ChannelsInv, Listed
<1>9. ASSUME InTurn PROVE InTurn'
  <2>1. RowsOf(Models)' = RowsOf(Models)
    BY <1>2 DEF RowsOf
  <2>2. \A b \in Admins : /\ ~ Flagging(b)'
                          /\ Replacing(b)' => Replacing(b) /\ admin'[b] = admin[b]
    BY <1>1, <1>4, <1>5, <1>9 DEF Flagging, Replacing, InTurn
  <2>3. ASSUME NEW b \in Admins, Replacing(b)' PROVE WholeList(admin[b])'
    <3>1. admin'[b] = admin[b] /\ WholeList(admin[b])
      BY <1>9, <2>2, <2>3 DEF InTurn
    <3> QED  BY <1>2, <2>1, <2>2, <3>1 DEF WholeList
  <2>4. OneOf(Flagged)'
    <3>1. CurrentFlags(x) /\ OneOf(Flagged) /\ OneOf(x.chosen)
      BY <1>1, <1>9 DEF InTurn, Flagging, OneWanted, OneOf
    <3>2. CASE x.rows \cap RowsOf(Models) = {}
      <4>1. \A m \in Models : listed[m].flag => listed[m].list > 0
        BY DEF ChannelsInv, Listed
      <4>2. \A m \in Models : <<m, listed[m].list>> \notin x.rows
        <5>1. \A m \in Models : <<m, listed[m].list>> \in x.rows => listed[m].list > 0
          BY <1>1 DEF ListedName
        <5> QED  BY <3>2, <5>1, RowsFacts DEF ChannelsInv
      <4> QED  BY <1>2, <3>1, <4>2 DEF Flagged, OneOf
    <3>3. CASE \A m \in Models : listed[m].list > 0 =>
                 (<<m, listed[m].list>> \in x.rows <=> listed[m].flag # (m \in x.chosen))
      <4>1. \A m \in Models : listed'[m].flag => m \in x.chosen
        <5>1. \A m \in Models : listed[m].flag \in BOOLEAN /\ (listed[m].flag => listed[m].list > 0)
          BY <1>1 DEF ListedRow, ChannelsInv, Listed
        <5> QED  BY <1>2, <3>3, <5>1
      <4> QED  BY <3>1, <4>1 DEF Flagged, OneOf
    <3> QED  BY <3>1, <3>2, <3>3 DEF CurrentFlags
  <2> QED  BY <2>2, <2>3, <2>4, <1>9 DEF InTurn
<1> QED  BY <1>1, <1>6, <1>7, <1>8, <1>9 DEF ChannelsInv

LEMMA ReplaceBeginsKeeps ==
  ASSUME ChannelsInv, NEW a \in Admins, admin[a].pc \in {"loaded", "discovering"},
         NEW d \in Models, NEW models \in SUBSET Models, NEW holds \in BOOLEAN,
         ReplaceBegins(a, {d}, models, holds)
  PROVE  ChannelsInv'
<1> DEFINE k == channelInfo.lists + 1
           row == [admin[a] EXCEPT !.pc = "deleting", !.wanted = {d}, !.found = models,
                     !.chosen = {d} \cap models, !.rows = RowsOf(Models), !.holdsRow = holds,
                     !.list = k]
<1>1. /\ admin \in [Admins -> AdminRow] /\ admin[a] \in AdminRow
      /\ channelInfo \in [lists : 0..MaxLists, overlapped : BOOLEAN]
      /\ k \in 1..MaxLists /\ channelInfo.lists \in 0..MaxLists /\ MaxLists \in Nat
      /\ admin' = [admin EXCEPT ![a] = row] /\ UNCHANGED <<channelDefault, listed>>
  <2>1. /\ channelInfo.lists \in 0..MaxLists /\ channelInfo.lists < MaxLists
        /\ MaxLists \in Nat
    BY ChannelsAssumption DEF ReplaceBegins, ChannelsInv, ChannelsTypeOK
  <2>2. /\ admin \in [Admins -> AdminRow] /\ admin[a] \in AdminRow
        /\ channelInfo \in [lists : 0..MaxLists, overlapped : BOOLEAN]
    BY DEF ChannelsInv, ChannelsTypeOK
  <2>3. admin' = [admin EXCEPT ![a] = row] /\ UNCHANGED <<channelDefault, listed>>
    BY <2>2 DEF ReplaceBegins
  <2> QED  BY <2>1, <2>2, <2>3
<1>2. /\ channelInfo' \in [lists : 0..MaxLists, overlapped : BOOLEAN] /\ channelInfo'.lists = k
      /\ ~ channelInfo'.overlapped => /\ ~ channelInfo.overlapped
                                      /\ \A b \in Admins : Replacing(b) => b = a
  <2>1. channelInfo' = [lists |-> k, overlapped |-> channelInfo.overlapped
                                                    \/ At({"deleting", "replacing"}, a)]
    BY DEF ReplaceBegins
  <2>2. At({"deleting", "replacing"}, a) <=> \E b \in Admins \ {a} : Replacing(b)
    BY DEF At, Replacing
  <2>3. At({"deleting", "replacing"}, a) \in BOOLEAN
    BY DEF At
  <2> HIDE DEF k, row
  <2> QED  BY <1>1, <2>1, <2>2, <2>3
<1>3. /\ RowsOf(Models) \in SUBSET ListedName
      /\ \A x \in RowsOf(Models) : \E m \in Models : x = <<m, listed[m].list>>
  BY RowsFacts DEF ChannelsInv
<1>4. /\ row \in AdminRow /\ row.pc = "deleting" /\ row.rows = RowsOf(Models)
      /\ row.wanted = {d} /\ row.chosen = {d} \cap models /\ row.list = k
  <2>1. PICK rows \in SUBSET ListedName : rows = RowsOf(Models)
    BY <1>3
  <2>2. PICK l \in 0..MaxLists : l = k
    BY <1>1
  <2>3. {d} \in SUBSET Models /\ {d} \cap models \in SUBSET Models
    OBVIOUS
  <2>4. row = [admin[a] EXCEPT !.pc = "deleting", !.wanted = {d}, !.found = models,
                 !.chosen = {d} \cap models, !.rows = rows, !.holdsRow = holds, !.list = l]
    BY <2>1, <2>2
  <2> HIDE DEF row, k
  <2> QED  BY <1>1, <2>1, <2>2, <2>3, <2>4 DEF AdminRow, AdminPhase
<1> HIDE DEF row
<1>5. /\ admin' \in [Admins -> AdminRow]
      /\ \A b \in Admins : admin'[b] = IF b = a THEN row ELSE admin[b]
  BY <1>1, <1>4
<1>6. ChannelsTypeOK'
  BY <1>1, <1>2, <1>5 DEF ChannelsInv, ChannelsTypeOK
<1>7. (\A b \in Admins : OneWanted(admin[b]))'
  BY <1>4, <1>5 DEF ChannelsInv, OneWanted
<1>8. \A m \in Models : listed[m].list \in 0..MaxLists /\ listed[m].list < k
  <2>1. \A m \in Models : listed[m].list \in 0..MaxLists
    BY DEF ChannelsInv, ChannelsTypeOK, ListedRow
  <2> QED  BY <1>1, <2>1 DEF ChannelsInv, Listed
<1>9. \A b \in Admins : \A x \in admin[b].rows : x[2] \in 1..MaxLists /\ x[2] < k
  <2>1. \A b \in Admins : \A x \in admin[b].rows : x[2] \in 1..MaxLists
    BY <1>1 DEF AdminRow, ListedName
  <2> QED  BY <1>1, <2>1 DEF ChannelsInv, RowsRead
<1>10. Listed'
  BY <1>1, <1>2, <1>8 DEF ChannelsInv, Listed
<1>11. RowsRead'
  <2>1. \A x \in row.rows : x[2] <= k
    <3>1. \A m \in Models : <<m, listed[m].list>>[2] <= k
      BY <1>1, <1>8
    <3> QED  BY <1>3, <1>4, <3>1
  <2>2. \A b \in Admins : /\ \A x \in admin[b].rows : x[2] <= k
                          /\ admin[b].list <= k
                          /\ Replacing(b) => admin[b].list > 0
    <3>1. \A b \in Admins : admin[b].list \in 0..MaxLists
      BY <1>1 DEF AdminRow
    <3> QED  BY <1>1, <1>9, <3>1 DEF ChannelsInv, RowsRead
  <2> QED  BY <1>1, <1>2, <1>4, <1>5, <2>1, <2>2 DEF RowsRead, Replacing
<1>12. ASSUME InTurn, ~ channelInfo'.overlapped PROVE InTurn'
  <2>1. RowsOf(Models)' = RowsOf(Models)
    BY <1>1 DEF RowsOf
  <2>2. \A b \in Admins : /\ Flagging(b)' => Flagging(b) /\ admin'[b] = admin[b]
                          /\ Replacing(b)' => b = a
    BY <1>2, <1>4, <1>5, <1>12 DEF Flagging, Replacing
  <2>3. \A b \in Admins : Flagging(b)' => CurrentFlags(admin[b])'
    BY <1>1, <1>12, <2>1, <2>2 DEF InTurn, CurrentFlags
  <2>4. WholeList(admin[a])'
    <3>1. \A m \in Models : listed[m].list # k
      BY <1>1, <1>8
    <3>2. \A b \in Admins : \A x \in admin[b].rows : x[2] # k
      BY <1>1, <1>9
    <3>3. admin'[a] = row
      BY <1>5
    <3> QED  BY <1>1, <1>4, <2>1, <2>2, <3>1, <3>2, <3>3 DEF WholeList
  <2> QED  BY <1>1, <1>12, <2>2, <2>3, <2>4 DEF InTurn, Flagged
<1> QED  BY <1>2, <1>6, <1>7, <1>10, <1>11, <1>12 DEF ChannelsInv

\* The commit of a list: the rows are the new list's, unless it conflicts with another.
LEMMA ReplaceCommitsKeeps ==
  ASSUME ChannelsInv, NEW a \in Admins, ReplaceCommits(a)
  PROVE  ChannelsInv'
<1> DEFINE x == admin[a]
           kept == {m \in Models : listed[m].list > 0 /\ <<m, listed[m].list>> \notin x.rows}
<1>1. /\ x \in AdminRow /\ admin \in [Admins -> AdminRow] /\ x.pc = "replacing"
      /\ admin' = [admin EXCEPT ![a] = IdleAdmin] /\ channelInfo' = channelInfo
      /\ listed \in [Models -> ListedRow] /\ channelDefault \in Models
      /\ OneWanted(x) /\ MaxLists \in Nat /\ Replacing(a)
      /\ channelInfo.lists \in 0..MaxLists
  BY ChannelsAssumption
     DEF ReplaceCommits, Finish, ChannelsInv, ChannelsTypeOK, AdminRow, Replacing
<1>2. /\ IdleAdmin \in AdminRow /\ IdleAdmin.pc = "idle" /\ IdleAdmin.rows = {}
      /\ IdleAdmin.list = 0
  BY IdleAdminTyped DEF IdleAdmin
<1>3. \A b \in Admins : admin'[b] = IF b = a THEN IdleAdmin ELSE admin[b]
  BY <1>1, <1>2
<1>4. (\A b \in Admins : OneWanted(admin[b]))' /\ RowsRead'
  BY <1>1, <1>2, <1>3 DEF ChannelsInv, OneWanted, RowsRead, Replacing
<1>5. \A b \in Admins : /\ Flagging(b)' => Flagging(b) /\ admin'[b] = admin[b]
                        /\ Replacing(b)' => Replacing(b) /\ admin'[b] = admin[b] /\ b # a
  BY <1>2, <1>3 DEF Flagging, Replacing
<1>6. CASE kept \cap x.found # {}
  <2>1. UNCHANGED <<channelDefault, listed>>
    BY <1>6 DEF ReplaceCommits
  <2>2. ChannelsTypeOK' /\ Listed'
    BY <1>1, <1>2, <2>1 DEF ChannelsInv, ChannelsTypeOK, Listed
  <2>3. ASSUME InTurn PROVE InTurn'
    <3>1. RowsOf(Models)' = RowsOf(Models)
      BY <2>1 DEF RowsOf
    <3>2. \A b \in Admins : Flagging(b)' => CurrentFlags(admin[b])'
      BY <1>5, <2>1, <2>3, <3>1 DEF InTurn, CurrentFlags
    <3>3. \A b \in Admins : Replacing(b)' => WholeList(admin[b])'
      BY <1>5, <2>1, <2>3, <3>1 DEF InTurn, WholeList
    <3> QED  BY <1>5, <2>1, <2>3, <3>2, <3>3 DEF InTurn, Flagged
  <2> QED  BY <1>1, <1>4, <2>2, <2>3 DEF ChannelsInv
<1>7. CASE kept \cap x.found = {}
  <2>1. /\ listed' = [m \in Models |->
             IF m \in x.found THEN [list |-> x.list, flag |-> m \in x.chosen]
             ELSE IF m \in kept THEN listed[m] ELSE NotListed]
        /\ WriteDefault(a)
    BY <1>7 DEF ReplaceCommits
  <2>2. channelDefault' \in Models
    <3>1. PICK m \in Models : x.wanted = {m}
      BY <1>1 DEF OneWanted
    <3>2. (CHOOSE d \in x.wanted : TRUE) \in Models
      BY <3>1
    <3> QED  BY <1>1, <2>1, <3>2 DEF WriteDefault
  <2>3. x.list \in 1..MaxLists /\ x.list <= channelInfo.lists
    <3>1. x.list \in 0..MaxLists
      BY <1>1 DEF AdminRow
    <3> QED  BY <1>1, <3>1 DEF ChannelsInv, RowsRead
  <2>4. \A m \in Models : [list |-> x.list, flag |-> m \in x.chosen] \in ListedRow
    BY <1>1, <2>3 DEF ListedRow
  <2>5. NotListed \in ListedRow /\ NotListed.list = 0 /\ NotListed.flag = FALSE
    BY <1>1 DEF ListedRow, NotListed
  <2>6. listed' \in [Models -> ListedRow]
    BY <1>1, <2>1, <2>4, <2>5
  <2>7. \A m \in Models :
          \/ listed'[m].list = x.list /\ listed'[m].flag = (m \in x.chosen)
          \/ listed'[m].list = 0 /\ listed'[m].flag = FALSE
          \/ m \in kept /\ listed'[m] = listed[m]
    BY <2>1, <2>5
  <2>8. ChannelsTypeOK'
    BY <1>1, <1>2, <2>2, <2>6 DEF ChannelsInv, ChannelsTypeOK
  <2>9. Listed'
    <3>1. \A m \in Models : /\ listed[m].list <= channelInfo.lists
                            /\ listed[m].flag => listed[m].list > 0
      BY DEF ChannelsInv, Listed
    <3>2. x.list > 0 /\ 0 <= channelInfo.lists
      BY <1>1, <2>3
    <3> HIDE DEF x, kept
    <3> QED  BY <1>1, <2>3, <2>7, <3>1, <3>2 DEF Listed
  <2>10. ASSUME InTurn PROVE InTurn'
    <3>1. /\ x.rows = RowsOf(Models)
          /\ \A b \in Admins : Flagging(b) => \A y \in admin[b].rows : y[2] # x.list
      BY <1>1, <2>10 DEF InTurn, WholeList
    <3>2. kept = {}
      BY <3>1, RowsFacts DEF ChannelsInv
    <3>3. \A b \in Admins : ~ Replacing(b)'
      BY <1>1, <1>5, <2>10 DEF InTurn
    <3>4. \A y \in RowsOf(Models)' : y[2] = x.list
      <4>1. \A m \in Models : listed'[m].list > 0 => listed'[m].list = x.list
        <5> HIDE DEF x, kept
        <5> QED  BY <2>7, <3>2
      <4>2. RowsOf(Models)' = {<<m, listed'[m].list>> : m \in {n \in Models : listed'[n].list > 0}}
        BY DEF RowsOf
      <4> QED  BY <4>1, <4>2
    <3>5. \A b \in Admins : Flagging(b)' => CurrentFlags(admin[b])'
      BY <1>5, <3>1, <3>4 DEF CurrentFlags
    <3>6. OneOf(Flagged)'
      <4>1. \A m \in Models : listed'[m].flag => m \in x.chosen
        BY <2>7, <3>2
      <4>2. OneOf(x.chosen)
        BY <1>1 DEF OneWanted, OneOf
      <4> QED  BY <4>1, <4>2 DEF Flagged, OneOf
    <3> QED  BY <1>5, <2>10, <3>3, <3>5, <3>6 DEF InTurn
  <2> QED  BY <1>1, <1>4, <2>8, <2>9, <2>10 DEF ChannelsInv
<1> QED  BY <1>6, <1>7

LEMMA ReplacesKeep ==
  ASSUME ChannelsInv, NEW a \in Admins, RefreshReplaces(a) \/ ListReplaces(a)
  PROVE  ChannelsInv'
<1>1. admin[a] \in AdminRow /\ admin[a].loaded \in Models /\ OneWanted(admin[a])
  BY DEF ChannelsInv, ChannelsTypeOK, AdminRow
<1>2. CASE RefreshReplaces(a)
  <2>1. PICK models \in SUBSET Models :
          IF admin[a].loaded \in models
          THEN ReplaceBegins(a, {admin[a].loaded}, models, FALSE)
          ELSE IF models = {} THEN ReplaceBegins(a, {admin[a].loaded}, {}, FALSE)
          ELSE \E suggested \in models : ReplaceBegins(a, {suggested}, models, FALSE)
    BY <1>2 DEF RefreshReplaces
  <2>2. \E d \in Models : ReplaceBegins(a, {d}, models, FALSE)
    BY <1>1, <2>1
  <2> QED  BY <1>2, <2>2, ReplaceBeginsKeeps DEF RefreshReplaces
<1>3. CASE ListReplaces(a)
  <2>1. PICK models \in SUBSET Models, holds \in BOOLEAN :
          ReplaceBegins(a, admin[a].wanted, models, holds)
    BY <1>3 DEF ListReplaces
  <2>2. PICK d \in Models : admin[a].wanted = {d}
    BY <1>1, <1>3 DEF OneWanted, ListReplaces
  <2> QED  BY <1>3, <2>1, <2>2, ReplaceBeginsKeeps DEF ListReplaces
<1> QED  BY <1>2, <1>3

LEMMA ChannelsStarts == ChannelsInit => ChannelsInv
<1> SUFFICES ASSUME ChannelsInit PROVE ChannelsInv
  OBVIOUS
<1>1. (CHOOSE m \in Models : TRUE) \in Models
  BY ChannelsAssumption
<1>2. ChannelsTypeOK
  BY <1>1, IdleAdminTyped, ChannelsAssumption
     DEF ChannelsInit, ChannelsTypeOK, ListedRow, NotListed
<1>3. /\ \A a \in Admins : /\ admin[a].pc = "idle" /\ admin[a].rows = {}
                           /\ admin[a].list = 0
      /\ \A m \in Models : listed[m].list = 0 /\ ~ listed[m].flag
      /\ channelInfo.lists = 0
  BY DEF ChannelsInit, IdleAdmin, NotListed
<1>4. InTurn
  BY <1>3 DEF InTurn, Flagging, Replacing, OneOf, Flagged
<1> QED  BY <1>2, <1>3, <1>4 DEF ChannelsInv, OneWanted, Listed, RowsRead, Replacing

LEMMA ChannelsSteps == ChannelsInv /\ [ChannelsNext]_channelVars => ChannelsInv'
<1> SUFFICES ASSUME ChannelsInv, [ChannelsNext]_channelVars PROVE ChannelsInv'
  OBVIOUS
<1>1. CASE UNCHANGED channelVars
  BY <1>1 DEF channelVars, ChannelsInv, ChannelsTypeOK, OneWanted, Listed, RowsRead, InTurn, Flagging,
              Replacing, CurrentFlags, WholeList, RowsOf, Flagged
<1> QED  BY <1>1, LoadsKeep, FlushesKeep, UpdateReadsKeeps, UpdateCommitsKeeps, ReplacesKeep,
            ReplaceCommitsKeeps DEF ChannelsNext

LEMMA ChannelsInvariant == ChannelsSpec => []ChannelsInv
  BY ChannelsStarts, ChannelsSteps, PTL DEF ChannelsSpec

\* The rows of a channel, its models and the requests that change them keep their types.
THEOREM ChannelsTypes == ChannelsSpec => []ChannelsTypeOK
<1>1. ChannelsInv => ChannelsTypeOK
  BY DEF ChannelsInv
<1> QED  BY <1>1, ChannelsInvariant, PTL

\* Any number of requests, models and lists: as long as no two of update_channel's moved
\* the flags at the same time, and no two replaced the list, one model is the default.
THEOREM ChannelHasOneDefault == ChannelsSpec => []OneDefault
<1>1. ChannelsInv => OneDefault
  <2> SUFFICES ASSUME OneOf(Flagged) PROVE Cardinality(Flagged) <= 1
    BY DEF ChannelsInv, InTurn, OneDefault
  <2>1. CASE Flagged = {}
    BY <2>1, FS_EmptySet
  <2>2. CASE Flagged # {}
    <3>1. PICK m \in Flagged : Flagged = {m}
      BY <2>2 DEF OneOf
    <3>2. Cardinality({m}) = 1
      BY FS_Singleton
    <3> QED  BY <3>1, <3>2
  <2> QED  BY <2>1, <2>2
<1> QED  BY <1>1, ChannelsInvariant, PTL

(****************************** MCServices *******************************)

(***************************************************************************)
(* The composed specification lets each service do what its own            *)
(* specification lets it do, and nothing else: it implements them all, so  *)
(* what is proved of a service alone holds in the composition, and what    *)
(* the run finds in the composition is found for the services.             *)
(***************************************************************************)

LEMMA ServicesStart ==
  ServicesInit =>
    /\ Init /\ PromptInit /\ MemoryInit /\ ChannelsInit /\ ConfigInit
    /\ subject = "review" => ReviewInit
BY DEF ServicesInit

LEMMA ServicesStep ==
  [ServicesNext]_servicesVars =>
    /\ [Next]_vars
    /\ [PromptNext]_promptVars
    /\ [MemoryNext]_memoryVars
    /\ [ChannelsNext]_channelVars
    /\ [ConfigNext]_configVars
    /\ (subject = "review")' <=> subject = "review"
    /\ subject = "review" => [ReviewNext]_review
<1> SUFFICES ASSUME [ServicesNext]_servicesVars
             PROVE  /\ Next \/ UNCHANGED vars
                    /\ PromptNext \/ UNCHANGED promptVars
                    /\ MemoryNext \/ UNCHANGED memoryVars
                    /\ ChannelsNext \/ UNCHANGED channelVars
                    /\ ConfigNext \/ UNCHANGED configVars
                    /\ (subject = "review")' <=> subject = "review"
                    /\ subject = "review" => ReviewNext \/ UNCHANGED review
  OBVIOUS
<1>1. CASE UNCHANGED servicesVars
  BY <1>1 DEF servicesVars
<1>2. CASE ServicesNext
  BY <1>2 DEF ServicesNext
<1> QED  BY <1>1, <1>2

\* The services side by side behave as each behaves alone: a reader of one service's
\* specification misses nothing that the others do.
THEOREM ServicesImplement ==
  ServicesSpec =>
    /\ Spec /\ PromptSpec /\ MemorySpec /\ ChannelsSpec /\ ConfigSpec
    /\ subject = "review" => ReviewSpec
BY ServicesStart, ServicesStep, PTL
   DEF ServicesSpec, Spec, PromptSpec, MemorySpec, ChannelsSpec, ConfigSpec, ReviewSpec

\* a review has one saved row once it was normalised, none before
LEMMA ReviewRowTypes == ReviewSpec => []ReviewTypeOK
<1>1. ReviewInv => review.answer \in Answer
  BY DEF ReviewInv
<1>2. ReviewInit => ReviewTypeOK
  <2> SUFFICES ASSUME ReviewInit PROVE ReviewTypeOK
    OBVIOUS
  <2>1. review.phase = "answered" /\ review.saved = <<>>
    BY DEF ReviewInit
  <2> QED  BY <1>1, <2>1, ReviewStarts, EmptySeq DEF ReviewTypeOK
<1>3. ReviewInv /\ ReviewTypeOK /\ [ReviewNext]_review => ReviewTypeOK'
  <2> SUFFICES ASSUME ReviewInv, ReviewTypeOK, [ReviewNext]_review PROVE ReviewTypeOK'
    OBVIOUS
  <2>1. review'.answer \in Answer
    BY ReviewSteps DEF ReviewInv
  <2>2. CASE SaveReview
    <3>1. PICK row : review' = [review EXCEPT !.phase = "saved", !.saved = <<row>>]
      BY <2>2 DEF SaveReview
    <3>2. review'.phase = "saved" /\ review'.saved = <<row>>
      BY <3>1 DEF ReviewInv
    <3> QED  BY <2>1, <3>2 DEF ReviewTypeOK
  <2>3. CASE Decide
    <3>1. PICK verdict : review' = [review EXCEPT !.phase = "decided", !.verdict = verdict]
      BY <2>3 DEF Decide
    <3>2. review'.phase = "decided" /\ review'.saved = review.saved
      BY <3>1 DEF ReviewInv
    <3> QED  BY <2>1, <2>3, <3>2 DEF ReviewTypeOK, Decide
  <2>4. CASE UNCHANGED review
    BY <2>4 DEF ReviewTypeOK
  <2> QED  BY <2>2, <2>3, <2>4 DEF ReviewNext
<1> QED  BY <1>2, <1>3, ReviewStarts, ReviewSteps, PTL DEF ReviewSpec

\* The rows of all the services keep their types, for any number of workers, handlers,
\* chapters, models and projects.
THEOREM ServicesTypes == ServicesSpec => []ServicesTypeOK
<1>1. TypeOK /\ PromptTypeOK /\ MemoryTypeOK /\ ChannelsTypeOK /\ ConfigTypeOK
        /\ (subject = "review" => ReviewTypeOK)
      => ServicesTypeOK
  BY DEF ServicesTypeOK
<1>2. ServicesSpec /\ ~ (subject = "review") => []~ (subject = "review")
  BY ServicesStep, PTL DEF ServicesSpec
<1> QED
  BY <1>1, <1>2, ServicesImplement, TypeCorrect, PromptTypes, MemoryTypes, ChannelsTypes,
     ConfigTypes, ReviewRowTypes, PTL

\* What services.cfg checks of a few workers, chapters and models holds for any number of
\* them: the leases, the versions of a prompt, the memory, the gates, the default model of a
\* channel and the clients of a project, side by side.
THEOREM ServicesHold ==
  ServicesSpec =>
    /\ [](LeaseExclusive /\ LeaseCovers)
    /\ [](VersionsFollowCreation /\ OneApproved)
    /\ [](DistantIsCurrent /\ RewriteForgets)
    /\ []GateHolds
    /\ []OneDefault
    /\ []StartedHasClients
    /\ SystemSettingsStayOut
<1>1. ServicesInit /\ ~ (subject = "review") => GateHolds
  BY DEF ServicesInit, ReviewAtRest, GateHolds
<1>2. GateHolds /\ ~ (subject = "review") /\ [ServicesNext]_servicesVars => GateHolds'
  BY DEF ServicesNext, servicesVars, GateHolds
<1>3. ServicesSpec /\ ~ (subject = "review") => []GateHolds
  BY <1>1, <1>2, ServicesStep, PTL DEF ServicesSpec
<1> QED
  BY <1>3, ServicesImplement, Exclusive, Covers, VersionsAreTheHistory, OneVersionApproved,
     DistantMemoryIsCurrent, RewriteForgetsTheFuture, PassedMeetsGates, ChannelHasOneDefault,
     StartedProjectsHaveClients, SystemSavesStayOut, PTL
=============================================================================
