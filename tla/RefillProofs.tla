---------------------------- MODULE RefillProofs ----------------------------
(***************************************************************************)
(* What a refill group keeps, for any number of slots, spools, filaments    *)
(* and any sequence of requests, reports, crashes and edits at the printer. *)
(***************************************************************************)
EXTENDS Refill, TLAPS

(***************************************************************************)
(* The invariant.                                                           *)
(***************************************************************************)
StepRec == [wire : Wires, state : StepStates, before : Declarations, target : Declarations,
            writes : BOOLEAN, tagged : BOOLEAN, spool : Spools \cup {NoSpool},
            same : BOOLEAN, old : BOOLEAN, restores : BOOLEAN]
StepLists == {<<>>} \cup [1 .. 2 -> StepRec]
GroupStates == {"pending", "needs_attention", "restoration_pending", "disabled"}
GroupRec == [enabled : BOOLEAN, state : GroupStates, steps : StepLists]
Expected == [is : BOOLEAN, decl : Declarations]
Drive == [at : {"step", "send", "wait"}, by : {"owner", "worker", "remove"}, index : 1 .. 3]
Command == [at : {"sent"}, wire : Wires, decl : Declarations, alias : BOOLEAN]

\* A group has a step for each of two slots.
GroupTyped ==
    /\ group \in GroupRec
    /\ \A i, j \in DOMAIN group.steps : group.steps[i].wire = group.steps[j].wire => i = j

DriveTyped ==
    /\ drive \in {NoDrive} \cup Drive
    /\ drive.at \in {"send", "wait"} => drive.index \in DOMAIN group.steps

ReportsTyped ==
    /\ tray \in [Wires -> Trays] /\ seen \in [Wires -> Trays]
    /\ {busy, seenBusy, fresh, link, removal, attached} \subseteq BOOLEAN
    /\ fresh => link
    /\ first \in [Wires -> {"unset", "first", "later"}]
    /\ expected \in [Wires -> Expected]

RefillTyped ==
    /\ ReportsTyped /\ GroupTyped /\ DriveTyped
    /\ command \in {NoCommand} \cup Command
    /\ budget \in [Events -> Nat]
    /\ ours \in [Wires -> BOOLEAN] /\ theirs \in [Wires -> {"no", "declared", "reported"}]
    /\ sends \in [Wires -> Nat]

\* A step whose write was sent is not one that a drive would write.
WasSent(s) ==
    IF group.enabled THEN s.state \in {"applying", "uncertain", "owned", "conflict"}
    ELSE s.restores /\ s.state \in {"restoring", "uncertain"} \cup SETTLED

SentOnce ==
    /\ \A w \in Wires : sends[w] <= 1
    /\ \A i \in DOMAIN group.steps : sends[group.steps[i].wire] # 0 => WasSent(group.steps[i])
    /\ drive.at \in {"send", "wait"} =>
           /\ Step.state = (IF group.enabled THEN "applying" ELSE "restoring")
           /\ ~ group.enabled => Step.restores
    /\ drive.at = "send" => sends[Step.wire] = 0

OwesNothing ==
    group.state = "disabled" =>
        ~ group.enabled /\ \A i \in DOMAIN group.steps : group.steps[i].state \in SETTLED

\* Only a removal puts anything back.
OnlyRemovalRestores == group.enabled => \A i \in DOMAIN group.steps : ~ group.steps[i].restores

RefillInv == RefillTyped /\ OnlyRemovalRestores /\ SentOnce /\ OwesNothing

\* Nobody's declaration is written over: it takes a restart, which forgets that a slot has
\* changed, and a slot that was empty when the steps of the last run are adopted.
Calm ==
    \A b \in Troubles : \/ b["crash"] = 0
                        \/ b["unload"] = 0 /\ \A t \in Seats, w \in Wires : t[w].spool # NoSpool

Scope == \/ budget["crash"] = 0 /\ \A i \in DOMAIN group.steps : ~ group.steps[i].old
         \/ budget["unload"] = 0 /\ \A w \in Wires : tray[w].spool # NoSpool

ReportedIsOther ==
    \A i \in DOMAIN group.steps :
        LET s == group.steps[i]
        IN  /\ s.tagged => s.spool \in Tagged
            /\ theirs[s.wire] = "reported" /\ ~ s.tagged =>
                ~ s.same /\ (s.old => first[s.wire] = "later")

SendsToOwn == drive.at = "send" => ~ Step.tagged /\ Step.same

TheirsInv == Scope /\ ReportedIsOther /\ SendsToOwn

\* What a step is about never changes.
Alike(s, t) == /\ t \in StepRec
               /\ <<t.wire, t.before, t.target, t.writes, t.tagged, t.spool>>
                    = <<s.wire, s.before, s.target, s.writes, s.tagged, s.spool>>

NotedStep(g, s, t) ==
    /\ Alike(s, t) /\ t.restores = s.restores
    /\ \/ t.state = s.state
       \/ /\ ~ g.enabled /\ s.state \notin SETTLED \cup {"applying", "restoring"}
          /\ NothingToRestore(s) # "no" /\ t.state = NothingToRestore(s) /\ t.state \in SETTLED
    /\ \/ t.same = s.same /\ t.old = s.old
       \/ Readopts(s) /\ t.same /\ ~ t.old

\* The group h is the group g after some of its steps moved on.
Follows(g, h) == /\ h \in GroupRec /\ h.enabled = g.enabled
                 /\ DOMAIN h.steps = DOMAIN g.steps
                 /\ \/ h.state = g.state
                    \/ ~ g.enabled /\ h.state = RestoringState(h.steps)

NotedAs(g, h) == /\ Follows(g, h)
                 /\ \A i \in DOMAIN g.steps : NotedStep(g, g.steps[i], h.steps[i])

LEMMA NotedIs == \A g \in GroupRec : NotedAs(g, Noted(g))
<1> SUFFICES ASSUME NEW g \in GroupRec PROVE NotedAs(g, Noted(g))
  OBVIOUS
<1> DEFINE readopted == [i \in DOMAIN g.steps |-> Readopted(g.steps[i])]
           settled == [i \in DOMAIN g.steps |-> SettledStep(readopted[i])]
<1>1. \A s \in StepRec : /\ Alike(s, Readopted(s)) /\ Readopted(s).state = s.state
                         /\ Readopted(s).restores = s.restores
                         /\ \/ Readopted(s) = s
                            \/ Readopts(s) /\ Readopted(s).same /\ ~ Readopted(s).old
  BY ZenonT(40) DEF Readopted, StepRec, Alike
<1> DEFINE Settled(s, t) ==
               /\ ~ s.state \in SETTLED \cup {"applying", "restoring"}
               /\ NothingToRestore(s) # "no" /\ t.state = NothingToRestore(s) /\ t.state \in SETTLED
<1>2. \A s \in StepRec : LET t == SettledStep(s)
                         IN  /\ Alike(s, t) /\ t.restores = s.restores /\ t.same = s.same /\ t.old = s.old
                             /\ t.state = s.state \/ Settled(s, t)
  <2> SUFFICES ASSUME NEW s \in StepRec
               PROVE  LET t == SettledStep(s)
                      IN  /\ Alike(s, t) /\ t.restores = s.restores /\ t.same = s.same /\ t.old = s.old
                          /\ t.state = s.state \/ Settled(s, t)
    OBVIOUS
  <2>1. NothingToRestore(s) \in {"released_empty", "restored", "no"}
    BY DEF NothingToRestore
  <2> QED
    BY <2>1 DEF SettledStep, StepRec, Alike, StepStates, SETTLED
<1>3. g.steps \in StepLists /\ g.enabled \in BOOLEAN /\ g.state \in GroupStates
      /\ \A i \in DOMAIN g.steps : g.steps[i] \in StepRec
  BY DEF GroupRec, StepLists
<1>4. /\ readopted \in StepLists /\ DOMAIN readopted = DOMAIN g.steps
      /\ settled \in StepLists /\ DOMAIN settled = DOMAIN g.steps
      /\ \A i \in DOMAIN g.steps : readopted[i] = Readopted(g.steps[i])
                                   /\ settled[i] = SettledStep(Readopted(g.steps[i]))
  <2>1. CASE g.steps = <<>>
    BY <2>1 DEF StepLists
  <2>2. CASE g.steps \in [1 .. 2 -> StepRec]
    BY <2>2, <1>1, <1>2, <1>3 DEF StepLists, Alike
  <2> QED
    BY <2>1, <2>2, <1>3 DEF StepLists
<1>5. \A t \in StepLists : RestoringState(t) \in GroupStates
  BY DEF RestoringState, GroupStates
<1>6. CASE g.enabled
  <2>1. Noted(g) = [g EXCEPT !.steps = readopted]
    BY <1>6 DEF Noted
  <2> HIDE DEF readopted, settled
  <2>2. Noted(g) \in GroupRec /\ Noted(g).enabled = g.enabled /\ Noted(g).state = g.state /\ Noted(g).steps = readopted
    BY <2>1, <1>3, <1>4 DEF GroupRec
  <2> QED
    BY <2>2, <1>1, <1>3, <1>4 DEF NotedStep, NotedAs, Follows
<1>7. CASE ~ g.enabled /\ settled # g.steps
  <2>1. Noted(g) = [g EXCEPT !.steps = settled, !.state = RestoringState(settled)]
    BY <1>7 DEF Noted
  <2> HIDE DEF readopted, settled
  <2>2. Noted(g) \in GroupRec /\ Noted(g).enabled = g.enabled /\ Noted(g).steps = settled /\ Noted(g).state = RestoringState(settled)
    BY <2>1, <1>3, <1>4, <1>5 DEF GroupRec
  <2>3. ASSUME NEW i \in DOMAIN g.steps PROVE NotedStep(g, g.steps[i], settled[i])
    <3> DEFINE s == g.steps[i]
               r == Readopted(s)
    <3>1. s \in StepRec /\ r \in StepRec /\ settled[i] = SettledStep(r)
      BY <1>1, <1>3, <1>4 DEF Alike
    <3>2. Alike(s, SettledStep(r)) /\ r.wire = s.wire /\ r.writes = s.writes /\ r.state = s.state
      BY <3>1, <1>1, <1>2 DEF Alike
    <3>3. NothingToRestore(r) = NothingToRestore(s)
      BY <3>2 DEF NothingToRestore
    <3> QED
      BY <3>1, <3>2, <3>3, <1>1, <1>2, <1>7 DEF NotedStep
  <2> QED
    BY <2>2, <2>3, <1>4, <1>7 DEF NotedAs, Follows
<1>8. CASE ~ g.enabled /\ settled = g.steps
  <2>1. Noted(g) = g
    BY <1>8 DEF Noted
  <2> QED
    BY <2>1, <1>3 DEF NotedStep, Alike, NotedAs, Follows
<1> QED
  BY <1>3, <1>6, <1>7, <1>8

LEMMA NotedNext == (\A g \in GroupRec : NotedAs(g, Noted(g)))'
BY NotedIs, PTL

\* Try again moves only a step in doubt whose slot shows one of its two declarations.
RetriedStep(s, t) ==
    \/ t = s
    \/ /\ s.state = "uncertain" /\ s.same /\ Shown(s.wire) /\ Editable(s.wire)
       /\ t = [s EXCEPT !.state = t.state]
       /\ \/ t.state = "owned" /\ Current(s) = s.target
          \/ t.state = (IF s.restores THEN "restored" ELSE "pending") /\ Current(s) = s.before

RetriedAs(g, h) ==
    /\ h \in GroupRec /\ h.enabled = g.enabled /\ DOMAIN h.steps = DOMAIN g.steps
    /\ \/ h = g
       \/ h.state = IF g.enabled THEN "pending" ELSE "restoration_pending"
    /\ \A i \in DOMAIN g.steps : RetriedStep(g.steps[i], h.steps[i])

LEMMA RetriedIs == ASSUME NEW g \in GroupRec PROVE RetriedAs(g, Retried(g))
<1> DEFINE Judge(s) ==
            LET desired == IF s.restores THEN s.before ELSE s.target
                previous == IF s.restores THEN s.target ELSE s.before
            IN  IF ~(s.state = "uncertain" /\ Shown(s.wire) /\ Editable(s.wire) /\ s.same) THEN s
                ELSE IF Current(s) = desired
                     THEN [s EXCEPT !.state = IF s.restores THEN "restored" ELSE "owned"]
                ELSE IF Current(s) = previous
                     THEN [s EXCEPT !.state = IF s.restores THEN "owned" ELSE "pending"]
                ELSE s
           judged == [i \in DOMAIN g.steps |-> Judge(g.steps[i])]
<1>1. \A s \in StepRec : Judge(s) \in StepRec /\ RetriedStep(s, Judge(s))
  BY DEF StepRec, StepStates, SETTLED, RetriedStep
<1>2. Retried(g) = IF judged = g.steps THEN g
                   ELSE [g EXCEPT !.steps = judged,
                                  !.state = IF g.enabled THEN "pending" ELSE "restoration_pending"]
  BY DEF Retried
<1> HIDE DEF Judge
<1>3. g.steps \in StepLists /\ g.enabled \in BOOLEAN /\ g.state \in GroupStates
      /\ \A i \in DOMAIN g.steps : g.steps[i] \in StepRec
  BY DEF GroupRec, StepLists
<1>4. judged \in StepLists /\ DOMAIN judged = DOMAIN g.steps
      /\ \A i \in DOMAIN g.steps : judged[i] = Judge(g.steps[i])
  <2>1. CASE g.steps = <<>>
    BY <2>1 DEF StepLists
  <2>2. CASE g.steps \in [1 .. 2 -> StepRec]
    BY <2>2, <1>1, <1>3 DEF StepLists
  <2> QED
    BY <2>1, <2>2, <1>3 DEF StepLists
<1> HIDE DEF judged
<1>5. CASE judged = g.steps
  BY <1>2, <1>3, <1>5 DEF RetriedAs, RetriedStep
<1>6. CASE judged # g.steps
  <2>1. Retried(g) = [g EXCEPT !.steps = judged,
                               !.state = IF g.enabled THEN "pending" ELSE "restoration_pending"]
    BY <1>2, <1>6
  <2>2. /\ Retried(g) \in GroupRec /\ Retried(g).enabled = g.enabled /\ Retried(g).steps = judged
        /\ Retried(g).state = IF g.enabled THEN "pending" ELSE "restoration_pending"
    BY <2>1, <1>3, <1>4 DEF GroupRec, GroupStates
  <2> QED
    BY <2>2, <1>1, <1>3, <1>4 DEF RetriedAs
<1> QED
  BY <1>5, <1>6

\* A removal gives up what it cannot put back.
ReleasedAs(g, h) ==
    /\ Follows(g, h)
    /\ \A i \in DOMAIN g.steps :
           \/ h.steps[i] = g.steps[i]
           \/ ~ g.enabled /\ Keeps(g.steps[i]) /\ h.steps[i] = [g.steps[i] EXCEPT !.state = "released"]

LEMMA ReleasedIs == ASSUME NEW g \in GroupRec PROVE ReleasedAs(g, Released(g))
<1> DEFINE kept == [i \in DOMAIN g.steps |-> IF Keeps(g.steps[i])
                                             THEN [g.steps[i] EXCEPT !.state = "released"]
                                             ELSE g.steps[i]]
<1>1. Released(g) = IF g.enabled \/ kept = g.steps THEN g
                    ELSE [g EXCEPT !.steps = kept, !.state = RestoringState(kept)]
  BY DEF Released
<1>2. g.steps \in StepLists /\ g.enabled \in BOOLEAN /\ g.state \in GroupStates
      /\ \A i \in DOMAIN g.steps : g.steps[i] \in StepRec
  BY DEF GroupRec, StepLists
<1>3. \A s \in StepRec : [s EXCEPT !.state = "released"] \in StepRec
  BY DEF StepRec, StepStates, SETTLED
<1>4. kept \in StepLists /\ DOMAIN kept = DOMAIN g.steps
      /\ \A i \in DOMAIN g.steps : kept[i] = IF Keeps(g.steps[i])
                                             THEN [g.steps[i] EXCEPT !.state = "released"]
                                             ELSE g.steps[i]
  <2>1. CASE g.steps = <<>>
    BY <2>1 DEF StepLists
  <2>2. CASE g.steps \in [1 .. 2 -> StepRec]
    BY <2>2, <1>2, <1>3 DEF StepLists
  <2> QED
    BY <2>1, <2>2, <1>2 DEF StepLists
<1> HIDE DEF kept
<1>5. CASE g.enabled \/ kept = g.steps
  BY <1>1, <1>2, <1>5 DEF ReleasedAs, Follows
<1>6. CASE ~ (g.enabled \/ kept = g.steps)
  <2>1. Released(g) = [g EXCEPT !.steps = kept, !.state = RestoringState(kept)]
    BY <1>1, <1>6
  <2>2. RestoringState(kept) \in GroupStates
    BY DEF RestoringState, GroupStates
  <2>3. /\ Released(g) \in GroupRec /\ Released(g).enabled = g.enabled /\ Released(g).steps = kept
        /\ Released(g).state = RestoringState(kept)
    BY <2>1, <2>2, <1>2, <1>4 DEF GroupRec
  <2> QED
    BY <2>3, <1>2, <1>4, <1>6 DEF ReleasedAs, Follows
<1> QED
  BY <1>5, <1>6

\* What the steps of a typed group are.
LEMMA StepAt ==
    ASSUME RefillTyped, NEW i \in DOMAIN group.steps
    PROVE  /\ i \in 1 .. 2 /\ DOMAIN group.steps = 1 .. 2
           /\ group.steps \in [1 .. 2 -> StepRec]
           /\ group.steps[i] \in StepRec /\ group.steps[i].wire \in Wires
           /\ group.steps[i].state \in StepStates
           /\ seen[group.steps[i].wire] \in Trays /\ tray[group.steps[i].wire] \in Trays
<1>1. group.steps \in StepLists /\ group.steps # <<>>
  BY DEF RefillTyped, GroupTyped, GroupRec, StepLists
<1>2. group.steps \in [1 .. 2 -> StepRec]
  BY <1>1 DEF StepLists
<1>3. group.steps[i] \in StepRec
  BY <1>2
<1> QED
  BY <1>2, <1>3 DEF StepRec, RefillTyped, ReportsTyped

\* The drive saves what became of its step.
Saved(x, y) ==
    /\ group' \in GroupRec /\ group'.enabled = group.enabled /\ group'.state = y
    /\ DOMAIN group'.steps = DOMAIN group.steps
    /\ \A i \in DOMAIN group.steps : i # drive.index => group'.steps[i] = group.steps[i]
    /\ group'.steps[drive.index] = [Step EXCEPT !.state = x]

LEMMA SaveIs ==
    ASSUME RefillTyped, drive.index \in DOMAIN group.steps, NEW x \in StepStates,
           NEW y \in GroupStates, Save(x, y)
    PROVE  Saved(x, y)
<1>1. group.steps \in [1 .. 2 -> StepRec] /\ drive.index \in 1 .. 2 /\ group.enabled \in BOOLEAN
      /\ group \in GroupRec
  BY StepAt DEF RefillTyped, GroupTyped, GroupRec
<1>2. [Step EXCEPT !.state = x] \in StepRec
  BY <1>1 DEF Step, StepRec
<1>3. group' = [group EXCEPT !.steps = [group.steps EXCEPT ![drive.index] = [Step EXCEPT !.state = x]], !.state = y]
  BY <1>1 DEF Save, Step, GroupRec, StepRec
<1> QED
  BY <1>1, <1>2, <1>3 DEF Saved, GroupRec, StepLists

\* A write first saves that it is on its way.
Wrote ==
    /\ group' \in GroupRec /\ group'.enabled = group.enabled /\ group'.state = group.state
    /\ DOMAIN group'.steps = DOMAIN group.steps
    /\ \A i \in DOMAIN group.steps : i # drive.index => group'.steps[i] = group.steps[i]
    /\ group'.steps[drive.index] = [Step EXCEPT !.state = IF group.enabled THEN "applying" ELSE "restoring",
                                                !.restores = ~ group.enabled]

\* One step of a drive, by the exit it takes.
DriveStepAs ==
    /\ drive.at = "step" /\ drive.index \in DOMAIN group.steps
    /\ \/ /\ Path(Step) = "skip" /\ Onward /\ group' = group
          /\ ~ group.enabled /\ Step.state \in SETTLED
       \/ /\ Path(Step) = "settle" /\ Onward /\ Saved(NothingToRestore(Step), group.state)
          /\ ~ group.enabled /\ Step.state \notin SETTLED
          /\ NothingToRestore(Step) \in {"released_empty", "restored"}
       \/ /\ Path(Step) = "review" /\ LeaveOrOnward /\ Saved(Step.state, "needs_attention")
       \/ /\ Path(Step) = "busy" /\ Leave /\ Saved(Step.state, Waiting)
       \/ /\ Path(Step) = "conflict" /\ LeaveOrOnward /\ Saved("conflict", "needs_attention")
          /\ ~ InDoubt(Step) /\ (~ group.enabled => Step.state \notin SETTLED)
          /\ ~ group.enabled => NothingToRestore(Step) = "no"
       \/ /\ Path(Step) = "achieved" /\ Onward /\ Saved(Achieved, group.state)
          /\ ~ InDoubt(Step) /\ (~ group.enabled => Step.state \notin SETTLED)
          /\ ~ group.enabled => NothingToRestore(Step) = "no"
          /\ group.enabled => Step.state # "conflict"
          /\ Shown(Step.wire) /\ SameSource(Step) /\ Current(Step) = Desired(Step)
       \/ /\ Path(Step) = "write" /\ drive' = [drive EXCEPT !.at = "send"] /\ UNCHANGED removal /\ Wrote
          /\ ~ InDoubt(Step) /\ (~ group.enabled => Step.state \notin SETTLED)
          /\ ~ group.enabled => NothingToRestore(Step) = "no"
          /\ group.enabled => Step.state \notin {"conflict", "owned"}
          /\ Shown(Step.wire) /\ SameSource(Step) /\ Editable(Step.wire)
          /\ Current(Step) = Expects(Step) /\ Current(Step) # Desired(Step)

LEMMA DriveStepIs ==
    ASSUME RefillTyped, DriveStep
    PROVE  DriveStepAs
<1>1. /\ drive.at = "step" /\ drive.index \in DOMAIN group.steps /\ drive.index \in 1 .. 2
      /\ group.steps \in [1 .. 2 -> StepRec] /\ Step \in StepRec /\ Step.state \in StepStates
      /\ group \in GroupRec /\ group.enabled \in BOOLEAN /\ group.state \in GroupStates
  BY StepAt DEF DriveStep, Step, RefillTyped, GroupTyped, GroupRec
<1>2. NothingToRestore(Step) \in {"released_empty", "restored", "no"}
  BY DEF NothingToRestore
<1>3. {"released_empty", "restored", "conflict", Achieved} \subseteq StepStates
      /\ {"needs_attention", Waiting} \subseteq GroupStates
  BY DEF StepStates, SETTLED, Achieved, GroupStates, Waiting
<1>4. CASE Path(Step) = "skip" /\ Onward /\ UNCHANGED group
  BY <1>1, <1>4 DEF Path, DriveStepAs
<1>5. CASE Path(Step) = "settle" /\ Onward /\ Save(NothingToRestore(Step), group.state)
  <2>1. ~ group.enabled /\ Step.state \notin SETTLED /\ NothingToRestore(Step) # "no"
    BY <1>5 DEF Path
  <2>2. Saved(NothingToRestore(Step), group.state)
    BY <1>1, <1>2, <1>3, <1>5, <2>1, SaveIs
  <2> QED
    BY <1>1, <1>2, <1>5, <2>1, <2>2 DEF DriveStepAs
<1>6. CASE Path(Step) = "review" /\ LeaveOrOnward /\ Save(Step.state, "needs_attention")
  <2>1. Saved(Step.state, "needs_attention")
    BY <1>1, <1>3, <1>6, SaveIs
  <2> QED
    BY <1>1, <1>6, <2>1 DEF DriveStepAs
<1>7. CASE Path(Step) = "busy" /\ Leave /\ Save(Step.state, Waiting)
  <2>1. Saved(Step.state, Waiting)
    BY <1>1, <1>3, <1>7, SaveIs
  <2> QED
    BY <1>1, <1>7, <2>1 DEF DriveStepAs
<1>8. CASE Path(Step) = "conflict" /\ LeaveOrOnward /\ Save("conflict", "needs_attention")
  <2>1. Saved("conflict", "needs_attention")
    BY <1>1, <1>3, <1>8, SaveIs
  <2>2. /\ ~ InDoubt(Step) /\ (~ group.enabled => Step.state \notin SETTLED)
        /\ ~ group.enabled => NothingToRestore(Step) = "no"
    BY <1>8 DEF Path
  <2> QED
    BY <1>1, <1>8, <2>1, <2>2 DEF DriveStepAs
<1>9. CASE Path(Step) = "achieved" /\ Onward /\ Save(Achieved, group.state)
  <2>1. Saved(Achieved, group.state)
    BY <1>1, <1>3, <1>9, SaveIs
  <2>2. /\ ~ InDoubt(Step) /\ (~ group.enabled => Step.state \notin SETTLED)
        /\ ~ group.enabled => NothingToRestore(Step) = "no"
        /\ group.enabled => Step.state # "conflict"
        /\ Shown(Step.wire) /\ SameSource(Step) /\ Current(Step) = Desired(Step)
    BY <1>9 DEF Path
  <2> QED
    BY <1>1, <1>9, <2>1, <2>2 DEF DriveStepAs
<1>10. CASE /\ Path(Step) = "write"
            /\ group' = [group EXCEPT !.steps[drive.index].state =
                                          IF group.enabled THEN "applying" ELSE "restoring",
                                      !.steps[drive.index].restores = ~group.enabled]
            /\ drive' = [drive EXCEPT !.at = "send"] /\ UNCHANGED removal
  <2>1. /\ ~ InDoubt(Step) /\ (~ group.enabled => Step.state \notin SETTLED)
        /\ ~ group.enabled => NothingToRestore(Step) = "no"
        /\ group.enabled => Step.state # "conflict"
        /\ Shown(Step.wire) /\ SameSource(Step) /\ Editable(Step.wire)
        /\ Current(Step) = Expects(Step)
        /\ ~ (Current(Step) = Desired(Step) /\ (group.enabled => Step.state = "owned" \/ Expects(Step) = Desired(Step)))
    BY <1>10 DEF Path
  <2>2. Current(Step) # Desired(Step) /\ (group.enabled => Step.state # "owned")
    BY <2>1 DEF Expects, Desired
  <2> DEFINE new == [Step EXCEPT !.state = IF group.enabled THEN "applying" ELSE "restoring",
                                 !.restores = ~ group.enabled]
  <2>3. new \in StepRec
    BY <1>1 DEF StepRec, StepStates
  <2>4. group' = [group EXCEPT !.steps = [group.steps EXCEPT ![drive.index] = new]]
    BY <1>1, <1>10 DEF Step, GroupRec, StepRec
  <2>5. Wrote
    BY <1>1, <2>3, <2>4 DEF Wrote, GroupRec, StepLists
  <2> QED
    BY <1>1, <1>10, <2>1, <2>2, <2>5 DEF DriveStepAs
<1> QED
  BY <1>4, <1>5, <1>6, <1>7, <1>8, <1>9, <1>10 DEF DriveStep

LEMMA InitRefill == RefillInit => RefillInv
<1> SUFFICES ASSUME RefillInit PROVE RefillInv
  OBVIOUS
<1>1. ASSUME NEW w \in Wires PROVE Unseen.decl \in Declarations /\ Unseen \in Trays
  <2>1. tray \in [Wires -> Trays]
    BY RefillAssumption DEF RefillInit
  <2>2. tray[w].decl \in Declarations
    BY <2>1 DEF Trays
  <2> QED
    BY <2>2 DEF Unseen, Trays
<1>2. ReportsTyped
  BY <1>1, RefillAssumption DEF RefillInit, ReportsTyped, Expected, NotExpected
<1>3. group = NoGroup /\ NoGroup \in GroupRec /\ DOMAIN NoGroup.steps = {} /\ ~ NoGroup.enabled
  BY DEF RefillInit, NoGroup, GroupRec, StepLists, GroupStates
<1>4. GroupTyped /\ DriveTyped
  BY <1>3 DEF GroupTyped, DriveTyped, RefillInit, NoDrive
<1>5. RefillTyped
  BY <1>2, <1>4, RefillAssumption DEF RefillTyped, RefillInit
<1>6. SentOnce /\ OwesNothing /\ OnlyRemovalRestores
  BY <1>3 DEF SentOnce, OwesNothing, OnlyRemovalRestores, RefillInit, NoDrive
<1> QED
  BY <1>5, <1>6 DEF RefillInv

(***************************************************************************)
(* Types.                                                                   *)
(***************************************************************************)
LEMMA SameSlots ==
    ASSUME GroupTyped, group' \in GroupRec, DOMAIN group'.steps = DOMAIN group.steps,
           \A i \in DOMAIN group.steps : group'.steps[i].wire = group.steps[i].wire
    PROVE  GroupTyped'
BY DEF GroupTyped

LEMMA SavedSlots ==
    ASSUME RefillTyped, NEW x, NEW y, Saved(x, y), drive.index \in DOMAIN group.steps
    PROVE  GroupTyped'
<1>1. Step \in StepRec /\ [Step EXCEPT !.state = x].wire = Step.wire
  BY StepAt DEF Step, StepRec
<1> QED
  BY <1>1, SameSlots DEF Saved, Step, RefillTyped

LEMMA DrivesOn ==
    ASSUME RefillTyped, drive.index \in DOMAIN group.steps, Onward \/ Leave
    PROVE  DriveTyped' /\ removal' \in BOOLEAN
<1>1. drive \in Drive /\ drive.index \in 1 .. 2 /\ removal \in BOOLEAN
  <2>1. drive.index \in 1 .. 2
    BY StepAt
  <2> QED
    BY <2>1 DEF RefillTyped, DriveTyped, ReportsTyped, NoDrive
<1>2. CASE Onward
  <2>1. drive' \in Drive /\ drive'.at = "step" /\ removal' \in BOOLEAN
    <3>1. drive.index + 1 \in 1 .. 3 /\ drive.by \in {"owner", "worker", "remove"}
      BY <1>1 DEF Drive
    <3>2. drive' = [at |-> "step", by |-> drive.by, index |-> drive.index + 1] /\ removal' = removal
      BY <1>1, <1>2 DEF Onward, Drive
    <3> QED
      BY <1>1, <3>1, <3>2 DEF Drive
  <2> QED
    BY <2>1 DEF DriveTyped
<1>3. CASE Leave
  <2>1. drive' = NoDrive /\ removal' \in BOOLEAN
    BY <1>1, <1>3 DEF Leave
  <2> QED
    BY <2>1 DEF DriveTyped, NoDrive
<1> QED
  BY <1>2, <1>3

LEMMA StepTypes ==
    ASSUME RefillTyped, DriveStep
    PROVE  RefillTyped'
<1>1. /\ UNCHANGED <<amsVars, reportVars, attached, command, budget, history>>
  BY DEF DriveStep
<1>2. DriveStepAs
  BY DriveStepIs
<1>3. Step \in StepRec /\ drive.index \in 1 .. 2 /\ DOMAIN group.steps = 1 .. 2 /\ drive \in Drive
  BY <1>2, StepAt, SMTT(60) DEF DriveStepAs, Step, RefillTyped, DriveTyped, NoDrive
<1>4. GroupTyped'
  <2>1. CASE group' = group
    BY <2>1 DEF RefillTyped, GroupTyped
  <2>2. CASE \E x, y : Saved(x, y)
    BY <1>2, <2>2, SavedSlots DEF DriveStepAs
  <2>3. CASE Wrote
    <3>1. group'.steps[drive.index].wire = Step.wire
      BY <1>3, <2>3 DEF Wrote, StepRec
    <3> QED
      BY <3>1, <2>3, SameSlots DEF Wrote, Step, RefillTyped
  <2> QED
    BY <1>2, <2>1, <2>2, <2>3 DEF DriveStepAs
<1>5. DriveTyped' /\ removal' \in BOOLEAN
  <2>1. CASE Onward \/ Leave
    BY <1>2, <2>1, DrivesOn DEF DriveStepAs
  <2>2. CASE drive' = [drive EXCEPT !.at = "send"] /\ UNCHANGED removal /\ Wrote
    BY <1>3, <2>2 DEF DriveTyped, Drive, Wrote, RefillTyped, ReportsTyped
  <2> QED
    BY <1>2, <2>1, <2>2 DEF DriveStepAs, LeaveOrOnward
<1> QED
  BY <1>1, <1>4, <1>5 DEF RefillTyped, ReportsTyped, amsVars, reportVars, history

LEMMA DrivingTypes ==
    ASSUME RefillTyped, Driving
    PROVE  RefillTyped'
<1>1. CASE DriveStep
  BY <1>1, StepTypes
<1>2. CASE DriveSends
  <2>1. /\ drive.index \in DOMAIN group.steps /\ Step \in StepRec /\ Step.wire \in Wires /\ drive \in Drive
    BY <1>2, StepAt, SMTT(60) DEF RefillTyped, DriveTyped, DriveSends, Step, NoDrive
  <2>2. Desired(Step) \in Declarations /\ group.enabled \in BOOLEAN
    BY <2>1 DEF Desired, StepRec, RefillTyped, GroupTyped, GroupRec
  <2>3. expected' \in [Wires -> Expected]
    BY <1>2, <2>1, <2>2 DEF DriveSends, RefillTyped, ReportsTyped, Expected
  <2>4. command' \in Command
    BY <1>2, <2>1, <2>2 DEF DriveSends, Command
  <2>5. sends' \in [Wires -> Nat]
    BY <1>2, <2>1 DEF DriveSends, RefillTyped
  <2>6. DriveTyped'
    BY <1>2, <2>1 DEF DriveSends, DriveTyped, Drive
  <2> QED
    BY <1>2, <2>3, <2>4, <2>5, <2>6 DEF DriveSends, RefillTyped, ReportsTyped, GroupTyped, amsVars
<1>3. CASE NotSent \/ DriveConfirms \/ DriveGivesUp
  <2>1. drive.index \in DOMAIN group.steps
    BY <1>3 DEF RefillTyped, DriveTyped, NotSent, DriveConfirms, DriveGivesUp
  <2>2. \E x \in StepStates, y \in GroupStates : Save(x, y)
    BY <1>3 DEF NotSent, DriveConfirms, DriveGivesUp, Waiting, Achieved, StepStates, SETTLED, GroupStates
  <2>3. GroupTyped'
    BY <2>1, <2>2, SaveIs, SavedSlots
  <2>4. DriveTyped' /\ removal' \in BOOLEAN
    BY <1>3, <2>1, DrivesOn DEF NotSent, DriveConfirms, DriveGivesUp
  <2>5. command' \in {NoCommand} \cup Command /\ budget' \in [Events -> Nat]
    BY <1>3 DEF NotSent, DriveConfirms, DriveGivesUp, Unanswered, Spend, RefillTyped, Events
  <2> QED
    BY <1>3, <2>3, <2>4, <2>5
       DEF NotSent, DriveConfirms, DriveGivesUp, RefillTyped, ReportsTyped, amsVars, reportVars, history
<1>4. CASE DriveEnds
  <2>1. group.steps \in StepLists /\ group.enabled \in BOOLEAN /\ group \in GroupRec
    BY DEF RefillTyped, GroupTyped, GroupRec
  <2>2. Status(group) \in GroupStates
    BY DEF Status, GroupStates
  <2>3. group' \in GroupRec /\ group'.steps = group.steps
    BY <1>4, <2>1, <2>2 DEF DriveEnds, GroupRec
  <2>4. GroupTyped'
    BY <2>3 DEF RefillTyped, GroupTyped
  <2>5. drive' = NoDrive /\ removal' \in BOOLEAN
    BY <1>4 DEF DriveEnds, Leave, RefillTyped, ReportsTyped
  <2> QED
    BY <1>4, <2>4, <2>5
       DEF DriveEnds, RefillTyped, ReportsTyped, DriveTyped, NoDrive, amsVars, reportVars, history
<1> QED
  BY <1>1, <1>2, <1>3, <1>4 DEF Driving

\* A request or the worker starts a drive.
LEMMA DrivesTypes ==
    ASSUME NEW by \in {"owner", "worker", "remove"}, Drives(by)
    PROVE  drive' \in Drive /\ drive'.at = "step" /\ DriveTyped'
BY DEF Drives, Drive, DriveTyped

LEMMA PlansTypes ==
    ASSUME RefillTyped, NEW pair \in Pairs, NEW c \in Colours, Plans(pair, c)
    PROVE  /\ GroupTyped' /\ group'.enabled /\ group'.state = "pending" /\ DOMAIN group'.steps = 1 .. 2
           /\ \A i \in 1 .. 2 : \E w \in Wires, t \in Declarations : group'.steps[i] = NewStep(w, w, t)
<1> DEFINE target == [seen[Anchor(pair)].decl EXCEPT !.colour = c]
<1>1. pair[1] \in Wires /\ pair[2] \in Wires /\ pair[1] # pair[2] /\ Anchor(pair) \in Wires
  BY DEF Pairs, Anchor
<1>2. \A w \in Wires : seen[w] \in Trays /\ seen[w].decl \in Declarations /\ seen[w].spool \in Spools \cup {NoSpool}
  BY DEF RefillTyped, ReportsTyped, Trays
<1>3. target \in Declarations
  BY <1>1, <1>2 DEF Declarations
<1>4. \A w \in Wires : /\ NewStep(w, Anchor(pair), target) \in StepRec
                       /\ NewStep(w, Anchor(pair), target).wire = w
                       /\ NewStep(w, Anchor(pair), target) = NewStep(w, w, target)
  BY <1>2, <1>3 DEF NewStep, StepRec, StepStates
<1>5. group' = [enabled |-> TRUE, state |-> "pending",
                steps |-> <<NewStep(pair[1], Anchor(pair), target), NewStep(pair[2], Anchor(pair), target)>>]
  BY DEF Plans
<1> HIDE DEF target
<1>6. group'.steps = <<NewStep(pair[1], Anchor(pair), target), NewStep(pair[2], Anchor(pair), target)>>
      /\ group'.enabled /\ group'.state = "pending"
  BY <1>5
<1>7. /\ DOMAIN group'.steps = 1 .. 2 /\ group'.steps \in [1 .. 2 -> StepRec]
      /\ group'.steps[1] = NewStep(pair[1], Anchor(pair), target)
      /\ group'.steps[2] = NewStep(pair[2], Anchor(pair), target)
  BY <1>1, <1>4, <1>6
<1>8. group' \in GroupRec
  BY <1>5, <1>6, <1>7 DEF GroupRec, StepLists, GroupStates
<1>9. GroupTyped'
  BY <1>1, <1>4, <1>7, <1>8 DEF GroupTyped
<1> QED
  BY <1>1, <1>3, <1>4, <1>6, <1>7, <1>9

LEMMA PlanTypes ==
    ASSUME RefillTyped, NEW pair \in Pairs, NEW c \in Colours, Plans(pair, c)
    PROVE  /\ GroupTyped' /\ ours' \in [Wires -> BOOLEAN] /\ sends' \in [Wires -> Nat]
           /\ theirs' \in [Wires -> {"no", "declared", "reported"}]
<1>1. GroupTyped'
  BY PlansTypes
<1> QED
  BY <1>1 DEF Plans, RefillTyped

LEMMA DisabledIs ==
    ASSUME NEW g \in GroupRec
    PROVE  /\ Disabled(g) \in GroupRec /\ ~ Disabled(g).enabled /\ Disabled(g).steps = g.steps
           /\ Disabled(g).state = "restoration_pending"
BY DEF Disabled, GroupRec, GroupStates

LEMMA RetriedSlots ==
    ASSUME GroupTyped, NEW g \in GroupRec, g.steps = group.steps, group' = Retried(g)
    PROVE  GroupTyped'
<1>1. RetriedAs(g, group')
  BY RetriedIs
<1>2. \A i \in DOMAIN group.steps : g.steps[i] \in StepRec
  BY DEF GroupTyped, GroupRec, StepLists
<1>3. ASSUME NEW s \in StepRec, NEW t, RetriedStep(s, t) PROVE t.wire = s.wire
  BY <1>3 DEF RetriedStep, StepRec
<1>4. \A i \in DOMAIN group.steps : group'.steps[i].wire = group.steps[i].wire
  BY <1>1, <1>2, <1>3 DEF RetriedAs
<1> QED
  BY <1>1, <1>4, SameSlots DEF RetriedAs

LEMMA RearmedTypes ==
    ASSUME RefillTyped, NEW g
    PROVE  Rearmed(g) \in [Wires -> Nat]
BY DEF RefillTyped, Rearmed

\* One step is reviewed.
Settles(i, state) ==
    /\ group' \in GroupRec /\ group'.enabled = group.enabled
    /\ DOMAIN group'.steps = DOMAIN group.steps
    /\ \A j \in DOMAIN group.steps : j # i => group'.steps[j] = group.steps[j]
    /\ group'.steps[i] = [group.steps[i] EXCEPT !.state = state]
    /\ group'.state = IF state \in {"released", "released_empty"} THEN RestoringState(group'.steps)
                      ELSE IF group.enabled THEN "pending" ELSE "restoration_pending"

LEMMA ReviewedIs ==
    ASSUME RefillTyped, NEW i \in DOMAIN group.steps, NEW state \in StepStates, Reviewed(i, state)
    PROVE  Settles(i, state) /\ GroupTyped'
<1>1. group.steps \in [1 .. 2 -> StepRec] /\ i \in 1 .. 2 /\ group \in GroupRec /\ group.enabled \in BOOLEAN
      /\ group.steps[i] \in StepRec
  BY StepAt DEF RefillTyped, GroupTyped, GroupRec
<1> DEFINE steps == [group.steps EXCEPT ![i] = [group.steps[i] EXCEPT !.state = state]]
<1>2. /\ steps \in [1 .. 2 -> StepRec] /\ DOMAIN steps = DOMAIN group.steps
      /\ \A j \in DOMAIN group.steps : j # i => steps[j] = group.steps[j]
      /\ steps[i] = [group.steps[i] EXCEPT !.state = state] /\ steps[i].wire = group.steps[i].wire
  BY <1>1 DEF StepRec
<1>3. [group EXCEPT !.steps[i].state = state] = [group EXCEPT !.steps = steps]
  BY <1>1 DEF GroupRec, StepRec
<1> DEFINE becomes == IF state \in {"released", "released_empty"} THEN RestoringState(steps)
                      ELSE IF group.enabled THEN "pending" ELSE "restoration_pending"
<1>4. group' = [[group EXCEPT !.steps = steps] EXCEPT !.state = becomes]
  <2>1. [group EXCEPT !.steps = steps].steps = steps /\ [group EXCEPT !.steps = steps].enabled = group.enabled
    BY <1>1 DEF GroupRec
  <2> QED
    BY <1>3, <2>1 DEF Reviewed
<1>5. becomes \in GroupStates
  BY DEF RestoringState, GroupStates
<1> HIDE DEF steps, becomes
<1>6. group' \in GroupRec /\ group'.steps = steps /\ group'.enabled = group.enabled /\ group'.state = becomes
  BY <1>1, <1>2, <1>4, <1>5 DEF GroupRec, StepLists
<1>7. Settles(i, state)
  BY <1>2, <1>6 DEF Settles, becomes
<1>8. \A j \in DOMAIN group.steps : group'.steps[j].wire = group.steps[j].wire
  BY <1>2, <1>6
<1> QED
  BY <1>6, <1>7, <1>8, SameSlots DEF Settles, RefillTyped

LEMMA OwnerTypes ==
    ASSUME RefillTyped, Owner
    PROVE  RefillTyped'
<1>1. ASSUME NEW pair \in Pairs, SetBackup(pair) PROVE RefillTyped'
  <2>1. UNCHANGED <<amsVars, reportVars, removal, attached, command, budget>> /\ Drives("owner")
    BY <1>1 DEF SetBackup
  <2>2. drive' \in Drive /\ DriveTyped'
    BY <2>1, DrivesTypes
  <2>3. /\ GroupTyped' /\ ours' \in [Wires -> BOOLEAN] /\ sends' \in [Wires -> Nat]
        /\ theirs' \in [Wires -> {"no", "declared", "reported"}]
    <3>1. CASE Plans(pair, seen[Anchor(pair)].decl.colour)
      <4>1. Anchor(pair) \in Wires
        BY DEF Pairs, Anchor
      <4>2. seen[Anchor(pair)].decl.colour \in Colours
        BY <4>1 DEF RefillTyped, ReportsTyped, Trays, Declarations
      <4> QED
        BY <3>1, <4>2, PlanTypes
    <3>2. CASE group' = Retried(group) /\ sends' = Rearmed(Retried(group)) /\ UNCHANGED <<ours, theirs>>
      <4>1. group \in GroupRec
        BY DEF RefillTyped, GroupTyped
      <4> QED
        BY <3>2, <4>1, RetriedSlots, RearmedTypes DEF RefillTyped
    <3> QED
      BY <1>1, <3>1, <3>2 DEF SetBackup
  <2> QED
    BY <2>1, <2>2, <2>3 DEF RefillTyped, ReportsTyped, amsVars, reportVars
<1>2. ASSUME NEW pair \in Pairs, NEW c \in Colours, PlanRefill(pair, c) PROVE RefillTyped'
  <2>1. /\ GroupTyped' /\ ours' \in [Wires -> BOOLEAN] /\ sends' \in [Wires -> Nat]
        /\ theirs' \in [Wires -> {"no", "declared", "reported"}]
    BY <1>2, PlanTypes DEF PlanRefill
  <2>2. UNCHANGED <<amsVars, reportVars, taskVars, command, budget>> /\ drive = NoDrive
    BY <1>2 DEF PlanRefill, Serving, Locked
  <2> QED
    BY <2>1, <2>2 DEF RefillTyped, ReportsTyped, DriveTyped, NoDrive, amsVars, reportVars, taskVars
<1>3. CASE ExecuteRefill
  <2>1. UNCHANGED <<amsVars, reportVars, group, removal, attached, command, budget, history>> /\ Drives("owner")
    BY <1>3 DEF ExecuteRefill
  <2>2. drive' \in Drive /\ DriveTyped'
    BY <2>1, DrivesTypes
  <2> QED
    BY <2>1, <2>2 DEF RefillTyped, ReportsTyped, GroupTyped, amsVars, reportVars, history
<1>4. CASE Disable
  <2>1. group' = Disabled(group) /\ group \in GroupRec
    BY <1>4 DEF Disable, RefillTyped, GroupTyped
  <2>2. GroupTyped'
    BY <2>1, DisabledIs DEF RefillTyped, GroupTyped
  <2>3. sends' \in [Wires -> Nat] /\ drive = NoDrive
    BY <1>4 DEF Disable, Serving, Locked
  <2> QED
    BY <1>4, <2>2, <2>3
       DEF Disable, RefillTyped, ReportsTyped, DriveTyped, NoDrive, amsVars, reportVars, taskVars
<1>5. CASE RemoveBackup
  <2>1. UNCHANGED <<amsVars, reportVars, attached, command, budget, ours, theirs>>
    BY <1>5 DEF RemoveBackup
  <2>2. CASE removal' = TRUE /\ UNCHANGED <<group, sends, drive>>
    BY <2>1, <2>2 DEF RefillTyped, ReportsTyped, GroupTyped, DriveTyped, amsVars, reportVars
  <2>3. ASSUME NEW g \in {group, Disabled(group)}, group' = Retried(g),
               sends' \in {[w \in Wires |-> 0], Rearmed(Retried(g))}, Drives("remove"), UNCHANGED removal
        PROVE  RefillTyped'
    <3>1. group \in GroupRec
      BY DEF RefillTyped, GroupTyped
    <3>2. g \in GroupRec /\ g.steps = group.steps
      BY <3>1, DisabledIs
    <3>3. GroupTyped'
      BY <2>3, <3>2, RetriedSlots DEF RefillTyped
    <3>4. sends' \in [Wires -> Nat] /\ drive' \in Drive /\ DriveTyped'
      BY <2>3, RearmedTypes, DrivesTypes
    <3> QED
      BY <2>1, <2>3, <3>3, <3>4 DEF RefillTyped, ReportsTyped, amsVars, reportVars
  <2>4. CASE /\ group' = Retried(IF group.enabled THEN Disabled(group) ELSE group)
             /\ sends' = IF group.enabled THEN [w \in Wires |-> 0]
                         ELSE Rearmed(Retried(IF group.enabled THEN Disabled(group) ELSE group))
             /\ Drives("remove") /\ UNCHANGED removal
    <3>1. CASE group.enabled
      BY <2>3, <2>4, <3>1
    <3>2. CASE ~ group.enabled
      BY <2>3, <2>4, <3>2
    <3> QED
      BY <3>1, <3>2
  <2> QED
    BY <1>5, <2>2, <2>4 DEF RemoveBackup
<1>6. CASE RemoveEnds
  <2>1. ReleasedAs(group, group') /\ removal' = FALSE /\ drive = NoDrive
    BY <1>6, ReleasedIs DEF RemoveEnds, Locked, RefillTyped, GroupTyped
  <2>2. \A i \in DOMAIN group.steps : group'.steps[i].wire = group.steps[i].wire
    BY <2>1, StepAt DEF ReleasedAs, StepRec
  <2>3. GroupTyped'
    BY <2>1, <2>2, SameSlots DEF ReleasedAs, Follows, RefillTyped
  <2> QED
    BY <1>6, <2>1, <2>3
       DEF RemoveEnds, RefillTyped, ReportsTyped, DriveTyped, NoDrive, amsVars, reportVars, history
<1>7. ASSUME NEW i \in DOMAIN group.steps, Reconcile(i) \/ Release(i) PROVE RefillTyped'
  <2>1. \E state \in StepStates : Reviewed(i, state)
    BY <1>7 DEF Reconcile, Release, StepStates, SETTLED
  <2>2. GroupTyped'
    BY <2>1, ReviewedIs
  <2>3. drive = NoDrive /\ UNCHANGED <<amsVars, reportVars, taskVars, command, budget, theirs, sends>>
    BY <1>7 DEF Reconcile, Release, Serving, Locked, history
  <2>4. ours' \in [Wires -> BOOLEAN]
    BY <1>7 DEF Reconcile, Release, RefillTyped, history
  <2> QED
    BY <2>2, <2>3, <2>4
       DEF RefillTyped, ReportsTyped, DriveTyped, NoDrive, amsVars, reportVars, taskVars
<1> QED
  BY <1>1, <1>2, <1>3, <1>4, <1>5, <1>6, <1>7 DEF Owner

LEMMA WorkerTypes ==
    ASSUME RefillTyped, Worker
    PROVE  RefillTyped'
<1>1. CASE WorkerListens
  <2>1. group' = group \/ NotedAs(group, group')
    BY <1>1, NotedIs DEF WorkerListens, RefillTyped, GroupTyped
  <2>2. \A i \in DOMAIN group.steps : group'.steps[i].wire = group.steps[i].wire
    BY <2>1 DEF NotedAs, NotedStep, Alike
  <2>3. GroupTyped' /\ DOMAIN group'.steps = DOMAIN group.steps
    BY <2>1, <2>2, SameSlots DEF NotedAs, Follows, RefillTyped, GroupTyped
  <2> QED
    BY <1>1, <2>3 DEF WorkerListens, RefillTyped, ReportsTyped, DriveTyped, amsVars, reportVars, history
<1>2. CASE WorkerDrives
  <2>1. Drives("worker")
    BY <1>2 DEF WorkerDrives
  <2>2. drive' \in Drive /\ DriveTyped'
    BY <2>1, DrivesTypes
  <2> QED
    BY <1>2, <2>2 DEF WorkerDrives, RefillTyped, ReportsTyped, GroupTyped, amsVars, reportVars, history
<1> QED
  BY <1>1, <1>2 DEF Worker

\* A report retires sources; then the steps may be noted.
RetiredAs(g, h) ==
    /\ h \in GroupRec /\ h.enabled = g.enabled /\ h.state = g.state /\ DOMAIN h.steps = DOMAIN g.steps
    /\ \A i \in DOMAIN g.steps :
           h.steps[i] = [g.steps[i] EXCEPT !.same = g.steps[i].same /\ ~ Retires(g.steps[i].wire)]

LEMMA RetiredIs == ASSUME NEW g \in GroupRec PROVE RetiredAs(g, Retired(g))
<1> DEFINE steps == [i \in DOMAIN g.steps |->
                        [g.steps[i] EXCEPT !.same = g.steps[i].same /\ ~ Retires(g.steps[i].wire)]]
<1>1. g.steps \in StepLists /\ \A i \in DOMAIN g.steps : g.steps[i] \in StepRec
  BY DEF GroupRec, StepLists
<1>2. \A i \in DOMAIN g.steps :
          [g.steps[i] EXCEPT !.same = g.steps[i].same /\ ~ Retires(g.steps[i].wire)] \in StepRec
  BY <1>1 DEF StepRec
<1>3. Retired(g) = [g EXCEPT !.steps = steps]
  BY <1>1 DEF Retired, GroupRec, StepRec
<1>4. steps \in StepLists /\ DOMAIN steps = DOMAIN g.steps
      /\ \A i \in DOMAIN g.steps :
             steps[i] = [g.steps[i] EXCEPT !.same = g.steps[i].same /\ ~ Retires(g.steps[i].wire)]
  <2>1. CASE g.steps = <<>>
    BY <2>1 DEF StepLists
  <2>2. CASE g.steps \in [1 .. 2 -> StepRec]
    BY <2>2, <1>2 DEF StepLists
  <2> QED
    BY <2>1, <2>2, <1>1 DEF StepLists
<1> HIDE DEF steps
<1> QED
  BY <1>3, <1>4 DEF RetiredAs, GroupRec

LEMMA ReportsIs ==
    ASSUME RefillTyped, Reports
    PROVE  \E g, h \in GroupRec : RetiredAs(group, g) /\ group' = h
                                  /\ (h = g \/ (~ Locked /\ NotedAs(g, h)'))
<1>1. PICK g \in {Retired(group)} : group' = (IF Locked \/ ~attached THEN g ELSE Noted(g)')
  BY DEF Reports
<1>2. RetiredAs(group, g) /\ g \in GroupRec
  BY RetiredIs DEF RefillTyped, GroupTyped, RetiredAs
<1>3. NotedAs(g, Noted(g))'
  BY <1>2, NotedNext
<1>4. PICK h : h = Noted(g)'
  OBVIOUS
<1>5. NotedAs(g, h)'
  BY <1>3, <1>4 DEF NotedAs, Follows, NotedStep
<1>6. h \in GroupRec
  BY <1>5 DEF NotedAs, Follows
<1>7. CASE Locked \/ ~ attached
  BY <1>1, <1>2, <1>7
<1>8. CASE ~ (Locked \/ ~ attached)
  <2>1. group' = h
    BY <1>1, <1>4, <1>8
  <2> QED
    BY <1>2, <1>5, <1>6, <1>8, <2>1
<1> QED
  BY <1>7, <1>8

LEMMA ReportsTypes ==
    ASSUME RefillTyped, Reports
    PROVE  RefillTyped'
<1>1. PICK g, h \in GroupRec : RetiredAs(group, g) /\ group' = h /\ (h = g \/ (~ Locked /\ NotedAs(g, h)'))
  BY ReportsIs
<1>2. DOMAIN group'.steps = DOMAIN group.steps /\ group' \in GroupRec
  BY <1>1 DEF RetiredAs, NotedAs, Follows
<1>3. \A i \in DOMAIN group.steps : group'.steps[i].wire = group.steps[i].wire
  <2>1. \A i \in DOMAIN group.steps : g.steps[i].wire = group.steps[i].wire
    BY <1>1, StepAt DEF RetiredAs, StepRec
  <2> QED
    BY <1>1, <2>1 DEF NotedAs, NotedStep, Alike, RetiredAs
<1>4. GroupTyped' /\ DriveTyped'
  BY <1>2, <1>3, SameSlots DEF RefillTyped, DriveTyped, Reports
<1>5. /\ first' = [w \in Wires |-> FirstAfter(w)]
      /\ expected' = [w \in Wires |-> IF Retires(w) \/ expected[w].decl = tray[w].decl
                                      THEN NotExpected ELSE expected[w]]
      /\ theirs' = [w \in Wires |-> IF theirs[w] = "declared" /\ ShowsChange(w) THEN "reported" ELSE theirs[w]]
      /\ seen' = tray /\ seenBusy' = busy /\ fresh' = TRUE /\ link
      /\ UNCHANGED <<tray, busy, link, drive, removal, attached, command, budget, ours, sends>>
  BY DEF Reports
<1>6. first' \in [Wires -> {"unset", "first", "later"}]
  BY <1>5 DEF FirstAfter, RefillTyped, ReportsTyped
<1>7. \A w \in Wires : NotExpected \in Expected
  <2>1. \A w \in Wires : tray[w].decl \in Declarations
    BY DEF RefillTyped, ReportsTyped, Trays
  <2> QED
    BY <2>1 DEF NotExpected, Expected, Unseen
<1>8. expected' \in [Wires -> Expected]
  BY <1>5, <1>7 DEF RefillTyped, ReportsTyped
<1>9. theirs' \in [Wires -> {"no", "declared", "reported"}]
  BY <1>5 DEF RefillTyped
<1> QED
  BY <1>4, <1>5, <1>6, <1>8, <1>9 DEF RefillTyped, ReportsTyped

\* A restart leaves every step to be adopted again, and a write on its way in doubt.
RestartedAs(g, h) ==
    /\ h \in GroupRec /\ h.enabled = g.enabled /\ DOMAIN h.steps = DOMAIN g.steps
    /\ \A i \in DOMAIN g.steps : h.steps[i] = Interrupted(g.steps[i])
    /\ \/ h.state = g.state
       \/ h.state = "needs_attention"

LEMMA RestartIs == ASSUME RefillTyped, Restart PROVE RestartedAs(group, group')
<1> DEFINE steps == [i \in DOMAIN group.steps |-> Interrupted(group.steps[i])]
<1>1. group.steps \in StepLists /\ group \in GroupRec /\ \A i \in DOMAIN group.steps : group.steps[i] \in StepRec
  BY SMTT(30) DEF RefillTyped, GroupTyped, GroupRec, StepLists
<1>2. \A s \in StepRec : Interrupted(s) \in StepRec
  BY DEF Interrupted, StepRec, StepStates
<1>3. steps \in StepLists /\ DOMAIN steps = DOMAIN group.steps
      /\ \A i \in DOMAIN group.steps : steps[i] = Interrupted(group.steps[i])
  <2>1. CASE group.steps = <<>>
    BY <2>1 DEF StepLists
  <2>2. CASE group.steps \in [1 .. 2 -> StepRec]
    BY <2>2, <1>2 DEF StepLists
  <2> QED
    BY <2>1, <2>2, <1>1 DEF StepLists
<1>4. \/ group' = [group EXCEPT !.steps = steps]
      \/ group' = [group EXCEPT !.steps = steps, !.state = "needs_attention"]
  BY <1>1 DEF Restart, GroupRec
<1> HIDE DEF steps
<1> QED
  BY <1>1, <1>3, <1>4 DEF RestartedAs, GroupRec, GroupStates

LEMMA RestartTypes ==
    ASSUME RefillTyped, Restart
    PROVE  RefillTyped'
<1>1. RestartedAs(group, group')
  BY RestartIs
<1>2. \A i \in DOMAIN group.steps : group'.steps[i].wire = group.steps[i].wire
  BY <1>1, StepAt DEF RestartedAs, Interrupted, StepRec
<1>3. GroupTyped'
  BY <1>1, <1>2, SameSlots DEF RestartedAs, RefillTyped
<1>4. drive' = NoDrive /\ DriveTyped'
  BY DEF Restart, DriveTyped, NoDrive
<1>5. \A w \in Wires : Unseen \in Trays /\ NotExpected \in Expected
  <2>1. \A w \in Wires : tray[w].decl \in Declarations
    BY DEF RefillTyped, ReportsTyped, Trays
  <2> QED
    BY <2>1 DEF NotExpected, Expected, Unseen, Trays
<1>6. ReportsTyped'
  BY <1>5 DEF Restart, RefillTyped, ReportsTyped, amsVars
<1>7. command' \in {NoCommand} \cup Command /\ budget' \in [Events -> Nat]
      /\ theirs' \in [Wires -> {"no", "declared", "reported"}]
  BY DEF Restart, Unanswered, Spend, RefillTyped, Events
<1> QED
  BY <1>3, <1>4, <1>6, <1>7 DEF Restart, RefillTyped

LEMMA SpendTypes ==
    ASSUME RefillTyped, NEW e \in Events, Spend(e)
    PROVE  budget' \in [Events -> Nat]
BY DEF Spend, RefillTyped

LEMMA WorldTypes ==
    ASSUME RefillTyped, World
    PROVE  RefillTyped'
<1>1. CASE Lands
  <2>1. command \in Command
    BY <1>1 DEF Lands, RefillTyped, NoCommand
  <2>2. tray' \in [Wires -> Trays] /\ ours' \in [Wires -> BOOLEAN]
    BY <1>1, <2>1 DEF Lands, RefillTyped, ReportsTyped, Trays, Command
  <2> QED
    BY <1>1, <2>2 DEF Lands, RefillTyped, ReportsTyped, GroupTyped, DriveTyped, reportVars, taskVars
<1>2. CASE PrinterTurns \/ LinkLost \/ LinkBack \/ Silence
  <2>1. budget' \in [Events -> Nat]
    BY <1>2, SpendTypes DEF PrinterTurns, LinkLost, LinkBack, Silence, Events, RefillTyped
  <2>2. UNCHANGED <<tray, seen, first, expected, seenBusy, group, taskVars, command, history>>
    BY <1>2 DEF PrinterTurns, LinkLost, LinkBack, Silence, amsVars, reportVars
  <2>3. {busy', fresh', link'} \subseteq BOOLEAN /\ (fresh' => link')
    <3>1. {busy, fresh, link} \subseteq BOOLEAN /\ (fresh => link)
      BY DEF RefillTyped, ReportsTyped
    <3>2. CASE PrinterTurns
      <4>1. busy' = ~ busy /\ fresh' = fresh /\ link' = link
        BY <3>2 DEF PrinterTurns, reportVars
      <4> QED
        BY <3>1, <4>1
    <3>3. CASE LinkLost
      BY <3>1, <3>3 DEF LinkLost, amsVars
    <3>4. CASE LinkBack
      BY <3>1, <3>4 DEF LinkBack, amsVars
    <3>5. CASE Silence
      BY <3>1, <3>5 DEF Silence, amsVars
    <3> QED
      BY <1>2, <3>2, <3>3, <3>4, <3>5
  <2> QED
    BY <2>1, <2>2, <2>3 DEF RefillTyped, ReportsTyped, GroupTyped, DriveTyped, taskVars, history
<1>3. CASE Restart
  BY <1>3, RestartTypes
<1>4. ASSUME NEW w \in Wires, NEW t \in Trays, Changes(w, t),
             NEW e \in {"unload", "load", "declare"}, Spend(e), command' \in {NoCommand} \cup Command
      PROVE  RefillTyped'
  <2>1. budget' \in [Events -> Nat]
    BY <1>4, SpendTypes DEF Events
  <2>2. /\ tray' \in [Wires -> Trays] /\ ours' \in [Wires -> BOOLEAN]
        /\ theirs' \in [Wires -> {"no", "declared", "reported"}]
    BY <1>4 DEF Changes, RefillTyped, ReportsTyped
  <2> QED
    BY <1>4, <2>1, <2>2
       DEF Changes, RefillTyped, ReportsTyped, GroupTyped, DriveTyped, reportVars, taskVars
<1>5. ASSUME NEW w \in Wires, Unloads(w) PROVE RefillTyped'
  <2>1. [tray[w] EXCEPT !.spool = NoSpool] \in Trays
    BY DEF RefillTyped, ReportsTyped, Trays
  <2>2. command' \in {NoCommand} \cup Command
    BY <1>5 DEF Unloads, RefillTyped, NoCommand, Command
  <2> QED
    BY <1>4, <1>5, <2>1, <2>2 DEF Unloads
<1>6. ASSUME NEW w \in Wires, NEW d \in Declarations, OwnerDeclares(w, d) PROVE RefillTyped'
  <2>1. [tray[w] EXCEPT !.decl = d] \in Trays
    BY DEF RefillTyped, ReportsTyped, Trays
  <2> QED
    BY <1>4, <1>6, <2>1 DEF OwnerDeclares, RefillTyped
<1>7. ASSUME NEW w \in Wires, NEW sp \in Spools, Loads(w, sp) PROVE RefillTyped'
  <2>1. [tray[w] EXCEPT !.spool = sp] \in Trays
    BY DEF RefillTyped, ReportsTyped, Trays
  <2> QED
    BY <1>4, <1>7, <2>1 DEF Loads, RefillTyped
<1> QED
  BY <1>1, <1>2, <1>3, <1>5, <1>6, <1>7 DEF World

LEMMA TypesKept ==
    ASSUME RefillTyped, [RefillNext]_refillVars
    PROVE  RefillTyped'
<1>1. CASE UNCHANGED refillVars
  BY <1>1 DEF refillVars, RefillTyped, ReportsTyped, GroupTyped, DriveTyped
<1> QED
  BY <1>1, OwnerTypes, DrivingTypes, WorkerTypes, ReportsTypes, WorldTypes DEF RefillNext

(***************************************************************************)
(* A write in doubt is not sent again, and a disabled group owes nothing.   *)
(***************************************************************************)
\* A drive that saves a state and moves on or leaves.
LEMMA SavedSent ==
    ASSUME RefillInv, RefillTyped', NEW x \in StepStates, NEW y, Saved(x, y),
           drive.index \in DOMAIN group.steps, Onward \/ Leave, sends' = sends,
           sends[Step.wire] # 0 =>
               x \in IF group.enabled THEN {"applying", "uncertain", "owned", "conflict"}
                     ELSE {"restoring", "uncertain"} \cup SETTLED
    PROVE  SentOnce'
<1>1. drive'.at \in {"step", "none"}
  <2>1. drive \in {NoDrive} \cup Drive
    BY DEF RefillInv, RefillTyped, DriveTyped
  <2>2. CASE Onward
    BY <2>1, <2>2 DEF Onward, NoDrive, Drive
  <2>3. CASE Leave
    BY <2>3 DEF Leave, NoDrive
  <2> QED
    BY <2>2, <2>3
<1>2. \A i \in DOMAIN group.steps : sends[group.steps[i].wire] # 0 => WasSent(group.steps[i])
  BY DEF RefillInv, SentOnce
<1>3. ASSUME NEW i \in DOMAIN group'.steps, sends'[group'.steps[i].wire] # 0
      PROVE  WasSent(group.steps[i])'
  <2>1. CASE i # drive.index
    BY <1>2, <1>3, <2>1 DEF Saved, WasSent
  <2>2. CASE i = drive.index
    <3>1. Step \in StepRec
      BY StepAt DEF RefillInv, Step
    <3>2. group'.steps[i] = [Step EXCEPT !.state = x] /\ group'.enabled = group.enabled
          /\ group'.steps[i].wire = Step.wire /\ group'.steps[i].state = x
          /\ group'.steps[i].restores = Step.restores
      BY <2>2, <3>1 DEF Saved, StepRec
    <3>3. WasSent(Step)
      BY <1>2, <1>3, <3>2 DEF Step
    <3> QED
      BY <1>3, <3>2, <3>3 DEF WasSent
  <2> QED
    BY <2>1, <2>2
<1>4. \A w \in Wires : sends'[w] <= 1
  BY DEF RefillInv, SentOnce
<1> QED
  BY <1>1, <1>3, <1>4 DEF SentOnce

LEMMA DrivingSent ==
    ASSUME RefillInv, Driving, RefillTyped'
    PROVE  SentOnce'
<1>1. RefillTyped /\ SentOnce /\ (drive.at # "none" => drive.index \in 1 .. 3)
  BY DEF RefillInv, RefillTyped, DriveTyped, Drive, NoDrive
<1>2. CASE DriveStep
  <2>1. DriveStepAs /\ sends' = sends /\ drive.index \in DOMAIN group.steps
    BY <1>1, <1>2, DriveStepIs DEF DriveStepAs, DriveStep, history
  <2>2. Step \in StepRec /\ Step.state \in StepStates /\ DOMAIN group.steps = 1 .. 2
        /\ (sends[Step.wire] # 0 => WasSent(Step))
    BY <1>1, <2>1, StepAt DEF Step, SentOnce
  <2>3. CASE group' = group /\ Onward
    <3>1. drive'.at = "step"
      BY <1>1, <2>1, <2>3 DEF Onward, DriveStepAs, RefillTyped, DriveTyped, Drive, NoDrive
    <3> QED
      BY <1>1, <2>1, <2>3, <3>1 DEF SentOnce, WasSent
  <2>4. ASSUME NEW x \in StepStates, NEW y, Saved(x, y), Onward \/ Leave,
               sends[Step.wire] # 0 =>
                   x \in IF group.enabled THEN {"applying", "uncertain", "owned", "conflict"}
                         ELSE {"restoring", "uncertain"} \cup SETTLED
        PROVE  SentOnce'
    BY <2>1, <2>4, SavedSent
  <2>5. CASE /\ Path(Step) = "settle" /\ Onward /\ Saved(NothingToRestore(Step), group.state)
             /\ ~ group.enabled /\ NothingToRestore(Step) \in {"released_empty", "restored"}
    BY <2>4, <2>5 DEF StepStates, SETTLED
  <2>6. CASE \/ LeaveOrOnward /\ Saved(Step.state, "needs_attention")
             \/ Leave /\ Saved(Step.state, Waiting)
    BY <2>2, <2>4, <2>6 DEF WasSent, LeaveOrOnward
  <2>7. CASE /\ LeaveOrOnward /\ Saved("conflict", "needs_attention")
             /\ ~ InDoubt(Step) /\ (~ group.enabled => Step.state \notin SETTLED)
    BY <2>2, <2>4, <2>7 DEF WasSent, LeaveOrOnward, InDoubt, StepStates, SETTLED
  <2>8. CASE Onward /\ Saved(Achieved, group.state)
    BY <2>4, <2>8 DEF Achieved, StepStates, SETTLED
  <2>9. CASE /\ drive' = [drive EXCEPT !.at = "send"] /\ Wrote
             /\ ~ InDoubt(Step) /\ (~ group.enabled => Step.state \notin SETTLED)
             /\ group.enabled => Step.state \notin {"conflict", "owned"}
    <3>1. sends[Step.wire] = 0
      BY <2>2, <2>9 DEF WasSent, InDoubt
    <3>2. drive' = [drive EXCEPT !.at = "send"] /\ drive \in Drive
      BY <2>9, <2>1 DEF DriveStepAs, RefillInv, RefillTyped, DriveTyped, NoDrive
    <3>3. drive'.at = "send" /\ drive'.index = drive.index
      BY <3>2 DEF Drive
    <3>4. /\ Step' = [Step EXCEPT !.state = IF group.enabled THEN "applying" ELSE "restoring",
                                  !.restores = ~ group.enabled]
          /\ group'.enabled = group.enabled
      BY <2>9, <3>3 DEF Wrote, Step
    <3>5. /\ Step'.wire = Step.wire /\ Step'.state = (IF group.enabled THEN "applying" ELSE "restoring")
          /\ Step'.restores = ~ group.enabled
      BY <2>2, <3>4 DEF StepRec
    <3>6. ASSUME NEW i \in DOMAIN group'.steps, sends'[group'.steps[i].wire] # 0
          PROVE  WasSent(group.steps[i])'
      <4>1. i # drive.index
        BY <2>1, <3>1, <3>3, <3>5, <3>6 DEF Step
      <4> QED
        BY <1>1, <2>1, <2>9, <3>6, <4>1 DEF Wrote, SentOnce, WasSent
    <3> QED
      BY <1>1, <2>1, <3>1, <3>3, <3>4, <3>5, <3>6 DEF SentOnce
  <2> QED
    BY <2>1, <2>3, <2>5, <2>6, <2>7, <2>8, <2>9 DEF DriveStepAs
<1>3. CASE DriveSends
  <2>1. /\ drive.index \in DOMAIN group.steps /\ drive \in Drive /\ group' = group /\ sends[Step.wire] = 0
        /\ Step.state = (IF group.enabled THEN "applying" ELSE "restoring")
        /\ ~ group.enabled => Step.restores
    BY <1>1, <1>3 DEF DriveSends, RefillTyped, DriveTyped, SentOnce, NoDrive
  <2>2. drive'.at = "wait" /\ drive'.index = drive.index /\ Step' = Step
    BY <1>3, <2>1 DEF DriveSends, Drive, Step
  <2>3. Step.wire \in Wires /\ sends' = [sends EXCEPT ![Step.wire] = @ + 1] /\ sends \in [Wires -> Nat]
    BY <1>1, <1>3, <2>1, StepAt DEF DriveSends, Step, RefillTyped
  <2>4. \A w \in Wires : sends'[w] <= 1
    BY <1>1, <2>1, <2>3 DEF SentOnce
  <2>5. ASSUME NEW i \in DOMAIN group.steps, sends'[group.steps[i].wire] # 0
        PROVE  WasSent(group.steps[i])
    <3>1. CASE i = drive.index
      BY <2>1, <3>1 DEF WasSent, Step
    <3>2. CASE i # drive.index
      <4>1. group.steps[i].wire # Step.wire /\ group.steps[i].wire \in Wires
        BY <1>1, <2>1, <3>2, StepAt DEF Step, RefillTyped, GroupTyped
      <4> QED
        BY <1>1, <2>3, <2>5, <4>1 DEF SentOnce
    <3> QED
      BY <3>1, <3>2
  <2> QED
    BY <2>1, <2>2, <2>4, <2>5 DEF SentOnce, WasSent
<1>4. CASE NotSent
  <2>1. /\ drive.index \in DOMAIN group.steps /\ sends' = sends /\ sends[Step.wire] = 0 /\ Leave
        /\ Save(IF group.enabled THEN "pending" ELSE "owned", Waiting)
    BY <1>1, <1>4 DEF NotSent, RefillTyped, DriveTyped, SentOnce, history
  <2>2. Saved(IF group.enabled THEN "pending" ELSE "owned", Waiting)
    BY <1>1, <2>1, SaveIs DEF StepStates, Waiting, GroupStates
  <2> QED
    BY <2>1, <2>2, SavedSent DEF StepStates
<1>5. CASE DriveConfirms
  <2>1. /\ drive.index \in DOMAIN group.steps /\ sends' = sends /\ Onward /\ Save(Achieved, "pending")
    BY <1>1, <1>5 DEF DriveConfirms, RefillTyped, DriveTyped, history
  <2>2. Achieved \in StepStates
    BY DEF Achieved, StepStates, SETTLED
  <2>3. Saved(Achieved, "pending")
    BY <1>1, <2>1, <2>2, SaveIs DEF GroupStates
  <2> QED
    BY <2>1, <2>2, <2>3, SavedSent DEF Achieved, SETTLED
<1>6. CASE DriveGivesUp
  <2>1. /\ drive.index \in DOMAIN group.steps /\ sends' = sends /\ Leave /\ Save("uncertain", "needs_attention")
    BY <1>1, <1>6 DEF DriveGivesUp, RefillTyped, DriveTyped, history
  <2>2. Saved("uncertain", "needs_attention")
    BY <1>1, <2>1, SaveIs DEF GroupStates, StepStates
  <2> QED
    BY <2>1, <2>2, SavedSent DEF StepStates
<1>7. CASE DriveEnds
  <2>1. group'.steps = group.steps /\ group'.enabled = group.enabled /\ sends' = sends /\ drive'.at = "none"
    BY <1>1, <1>7 DEF DriveEnds, Leave, NoDrive, history, RefillTyped, GroupTyped, GroupRec
  <2> QED
    BY <1>1, <2>1 DEF SentOnce, WasSent
<1> QED
  BY <1>2, <1>3, <1>4, <1>5, <1>6, <1>7 DEF Driving

LEMMA FreshSends ==
    ASSUME RefillTyped', sends' = [w \in Wires |-> 0], drive'.at \in {"none", "step"}
    PROVE  SentOnce'
<1>1. \A i \in DOMAIN group'.steps : group'.steps[i].wire \in Wires
  BY SMTT(30) DEF RefillTyped, GroupTyped, GroupRec, StepLists, StepRec
<1> QED
  BY <1>1 DEF SentOnce

LEMMA RetriedSent ==
    ASSUME RefillInv, group' = Retried(group), sends' = Rearmed(group'), drive'.at \in {"none", "step"}
    PROVE  SentOnce'
<1>1. RetriedAs(group, group') /\ RefillTyped /\ SentOnce
  BY RetriedIs DEF RefillInv, RefillTyped, GroupTyped
<1>2. \A w \in Wires : sends'[w] \in {0, sends[w]} /\ sends'[w] <= 1
  BY <1>1 DEF Rearmed, SentOnce
<1>3. ASSUME NEW i \in DOMAIN group'.steps, sends'[group'.steps[i].wire] # 0
      PROVE  WasSent(group.steps[i])'
  <2> DEFINE s == group.steps[i]
  <2>1. i \in DOMAIN group.steps /\ s \in StepRec /\ s.wire \in Wires /\ RetriedStep(s, group'.steps[i])
    BY <1>1, <1>3, StepAt DEF RetriedAs
  <2>2. group'.steps[i].wire = s.wire
    BY <2>1 DEF RetriedStep, StepRec
  <2>3. group'.steps[i].state = s.state /\ sends[s.wire] # 0
    BY <1>1, <1>3, <2>1, <2>2 DEF Rearmed, RetriedAs
  <2>4. group'.steps[i] = s
    BY <2>1, <2>3 DEF RetriedStep, StepRec
  <2> QED
    BY <1>1, <2>1, <2>3, <2>4 DEF SentOnce, WasSent, RetriedAs
<1> QED
  BY <1>2, <1>3 DEF SentOnce

LEMMA OwnerSent ==
    ASSUME RefillInv, Owner, RefillTyped'
    PROVE  SentOnce'
<1>1. RefillTyped /\ SentOnce /\ OnlyRemovalRestores
  BY DEF RefillInv
<1>2. ASSUME NEW pair \in Pairs, SetBackup(pair) PROVE SentOnce'
  <2>1. drive'.at = "step"
    BY <1>2, DrivesTypes DEF SetBackup
  <2>2. CASE sends' = [w \in Wires |-> 0]
    BY <2>1, <2>2, FreshSends
  <2>3. CASE group' = Retried(group) /\ sends' = Rearmed(Retried(group))
    BY <2>1, <2>3, RetriedSent
  <2> QED
    BY <1>2, <2>2, <2>3 DEF SetBackup, Plans
<1>3. ASSUME NEW pair \in Pairs, NEW c \in Colours, PlanRefill(pair, c) PROVE SentOnce'
  <2>1. sends' = [w \in Wires |-> 0] /\ drive' = NoDrive
    BY <1>3 DEF PlanRefill, Plans, Serving, Locked, taskVars
  <2> QED
    BY <2>1, FreshSends DEF NoDrive
<1>4. CASE ExecuteRefill
  <2>1. drive'.at = "step" /\ group' = group /\ sends' = sends
    BY <1>4, DrivesTypes DEF ExecuteRefill, history
  <2> QED
    BY <1>1, <2>1 DEF SentOnce, WasSent
<1>5. CASE Disable
  <2>1. sends' = [w \in Wires |-> 0] /\ drive' = NoDrive
    BY <1>5 DEF Disable, Serving, Locked, taskVars
  <2> QED
    BY <2>1, FreshSends DEF NoDrive
<1>6. CASE RemoveBackup
  <2>1. CASE removal' = TRUE /\ UNCHANGED <<group, sends, drive>>
    BY <1>1, <2>1 DEF SentOnce, WasSent, Step
  <2>2. CASE group.enabled /\ sends' = [w \in Wires |-> 0] /\ Drives("remove")
    BY <2>2, FreshSends, DrivesTypes
  <2>3. CASE ~ group.enabled /\ group' = Retried(group) /\ sends' = Rearmed(group') /\ Drives("remove")
    BY <2>3, RetriedSent, DrivesTypes
  <2> QED
    BY <1>6, <2>1, <2>2, <2>3 DEF RemoveBackup
<1>7. CASE RemoveEnds
  <2>1. ReleasedAs(group, group') /\ drive' = NoDrive /\ sends' = sends
    BY <1>1, <1>7, ReleasedIs DEF RemoveEnds, Locked, RefillTyped, GroupTyped, history
  <2>2. ASSUME NEW i \in DOMAIN group'.steps, sends'[group'.steps[i].wire] # 0
        PROVE  WasSent(group.steps[i])'
    <3>1. i \in DOMAIN group.steps /\ group.steps[i] \in StepRec /\ group'.enabled = group.enabled
      BY <1>1, <2>1, <2>2, StepAt DEF ReleasedAs, Follows
    <3>2. group'.steps[i].wire = group.steps[i].wire /\ WasSent(group.steps[i])
      BY <1>1, <2>1, <2>2, <3>1 DEF ReleasedAs, SentOnce, StepRec
    <3> QED
      BY <2>1, <3>1, <3>2 DEF ReleasedAs, WasSent, StepRec, SETTLED
  <2> QED
    BY <1>1, <2>1, <2>2 DEF SentOnce, NoDrive
<1>8. ASSUME NEW i \in DOMAIN group.steps, Reconcile(i) \/ Release(i) PROVE SentOnce'
  <2>1. /\ drive' = NoDrive /\ sends' = sends
        /\ \E state \in StepStates :
               /\ Reviewed(i, state)
               /\ \/ ~ group.enabled /\ state \in SETTLED
                  \/ group.steps[i].state = "uncertain" /\ ~ group.steps[i].restores /\ state = "owned"
                  \/ group.steps[i].state = "uncertain" /\ group.steps[i].restores /\ state = "restored"
    BY <1>8 DEF Reconcile, Release, Serving, Locked, taskVars, history, StepStates, SETTLED
  <2>2. PICK state \in StepStates :
               /\ Settles(i, state)
               /\ \/ ~ group.enabled /\ state \in SETTLED
                  \/ group.steps[i].state = "uncertain" /\ ~ group.steps[i].restores /\ state = "owned"
                  \/ group.steps[i].state = "uncertain" /\ group.steps[i].restores /\ state = "restored"
    BY <1>1, <2>1, ReviewedIs
  <2>3. ASSUME NEW j \in DOMAIN group'.steps, sends'[group'.steps[j].wire] # 0
        PROVE  WasSent(group.steps[j])'
    <3>1. j \in DOMAIN group.steps /\ group.steps[j] \in StepRec /\ group'.enabled = group.enabled
      BY <1>1, <2>2, <2>3, StepAt DEF Settles
    <3>2. group'.steps[j].wire = group.steps[j].wire /\ WasSent(group.steps[j])
          /\ group'.steps[j].restores = group.steps[j].restores
      BY <1>1, <2>1, <2>2, <2>3, <3>1 DEF Settles, SentOnce, StepRec
    <3>3. CASE j # i
      BY <2>2, <3>1, <3>2, <3>3 DEF Settles, WasSent
    <3>4. CASE j = i
      <4>1. group'.steps[j].state = state
        BY <2>2, <3>1, <3>4 DEF Settles, StepRec
      <4> QED
        BY <1>1, <2>2, <3>1, <3>2, <3>4, <4>1 DEF WasSent, SETTLED, OnlyRemovalRestores
    <3> QED
      BY <3>3, <3>4
  <2> QED
    BY <1>1, <2>1, <2>3 DEF SentOnce, NoDrive
<1> QED
  BY <1>2, <1>3, <1>4, <1>5, <1>6, <1>7, <1>8 DEF Owner

LEMMA WorkerSent ==
    ASSUME RefillInv, Worker, RefillTyped'
    PROVE  SentOnce'
<1>1. RefillTyped /\ SentOnce
  BY DEF RefillInv
<1>2. CASE WorkerListens
  <2>1. group' = group \/ (drive = NoDrive /\ NotedAs(group, group'))
    <3>1. CASE Locked
      BY <1>2, <3>1 DEF WorkerListens
    <3>2. CASE ~ Locked
      <4>1. group' = Noted(group) /\ group \in GroupRec /\ drive = NoDrive
        BY <1>1, <1>2, <3>2 DEF WorkerListens, Locked, RefillTyped, GroupTyped
      <4> QED
        BY <4>1, NotedIs
    <3> QED
      BY <3>1, <3>2
  <2>2. drive' = drive /\ sends' = sends
    BY <1>2 DEF WorkerListens, history
  <2>3. CASE group' = group
    BY <1>1, <2>2, <2>3 DEF SentOnce, WasSent, Step
  <2>4. CASE drive = NoDrive /\ NotedAs(group, group')
    <3>1. ASSUME NEW i \in DOMAIN group'.steps, sends'[group'.steps[i].wire] # 0
          PROVE  WasSent(group.steps[i])'
      <4>1. i \in DOMAIN group.steps /\ group'.steps[i].wire = group.steps[i].wire
            /\ NotedStep(group, group.steps[i], group'.steps[i]) /\ group'.enabled = group.enabled
        BY <2>4, <3>1 DEF NotedAs, Follows, NotedStep, Alike
      <4>2. WasSent(group.steps[i])
        BY <1>1, <2>2, <3>1, <4>1 DEF SentOnce
      <4> QED
        BY <4>1, <4>2 DEF NotedStep, WasSent
    <3> QED
      BY <1>1, <2>2, <2>4, <3>1 DEF SentOnce, NoDrive
  <2> QED
    BY <2>1, <2>3, <2>4
<1>3. CASE WorkerDrives
  <2>1. drive'.at = "step" /\ group' = group /\ sends' = sends
    BY <1>3, DrivesTypes DEF WorkerDrives, history
  <2> QED
    BY <1>1, <2>1 DEF SentOnce, WasSent
<1> QED
  BY <1>2, <1>3 DEF Worker

LEMMA ReportsSent ==
    ASSUME RefillInv, Reports, RefillTyped'
    PROVE  SentOnce'
<1>1. RefillTyped /\ SentOnce
  BY DEF RefillInv
<1>2. PICK g, h \in GroupRec : RetiredAs(group, g) /\ group' = h /\ (h = g \/ (~ Locked /\ NotedAs(g, h)'))
  BY <1>1, ReportsIs
<1>3. drive' = drive /\ sends' = sends /\ drive.at # "send"
  BY DEF Reports, Running
<1>4. ASSUME NEW i \in DOMAIN group.steps
      PROVE  /\ g.steps[i].state = group.steps[i].state /\ g.steps[i].restores = group.steps[i].restores
             /\ g.steps[i].wire = group.steps[i].wire /\ i \in DOMAIN g.steps
  BY <1>1, <1>2, StepAt DEF RetiredAs, StepRec
<1>5. ASSUME NEW i \in DOMAIN group'.steps, sends'[group'.steps[i].wire] # 0
      PROVE  WasSent(group.steps[i])'
  <2>1. i \in DOMAIN group.steps /\ group'.enabled = group.enabled /\ g.enabled = group.enabled
    BY <1>2 DEF RetiredAs, NotedAs, Follows
  <2>2. group'.steps[i].wire = group.steps[i].wire
    BY <1>2, <1>4, <2>1, SMTT(30) DEF NotedAs, NotedStep, Alike, RetiredAs
  <2>3. WasSent(group.steps[i])
    BY <1>1, <1>3, <1>5, <2>1, <2>2 DEF SentOnce
  <2>4. \/ group'.steps[i].state = group.steps[i].state
        \/ ~ group.enabled /\ group'.steps[i].state \in SETTLED
    BY <1>2, <1>4, <2>1 DEF NotedAs, NotedStep
  <2>5. group'.steps[i].restores = group.steps[i].restores
    BY <1>2, <1>4, <2>1 DEF NotedAs, NotedStep
  <2> QED
    BY <2>1, <2>3, <2>4, <2>5 DEF WasSent
<1>6. CASE drive.at = "wait"
  <2>1. drive.index \in DOMAIN group.steps /\ group' = g /\ drive # NoDrive
    BY <1>1, <1>2, <1>6 DEF RefillTyped, DriveTyped, Locked, NoDrive
  <2>2. Step'.state = Step.state /\ Step'.restores = Step.restores /\ group'.enabled = group.enabled
    BY <1>2, <1>3, <1>4, <2>1 DEF Step, RetiredAs
  <2> QED
    BY <1>1, <1>3, <1>5, <1>6, <2>2 DEF SentOnce
<1> QED
  BY <1>1, <1>3, <1>5, <1>6 DEF SentOnce

LEMMA WorldSent ==
    ASSUME RefillInv, World, RefillTyped'
    PROVE  SentOnce'
<1>1. RefillTyped /\ SentOnce
  BY DEF RefillInv
<1>2. CASE Restart
  <2>1. RestartedAs(group, group') /\ drive' = NoDrive /\ sends' = sends
    BY <1>1, <1>2, RestartIs DEF Restart
  <2>2. ASSUME NEW i \in DOMAIN group'.steps, sends'[group'.steps[i].wire] # 0
        PROVE  WasSent(group.steps[i])'
    <3>1. i \in DOMAIN group.steps /\ group.steps[i] \in StepRec /\ group'.enabled = group.enabled
          /\ group'.steps[i] = Interrupted(group.steps[i])
      BY <1>1, <2>1, <2>2, StepAt DEF RestartedAs
    <3>2. group'.steps[i].wire = group.steps[i].wire /\ WasSent(group.steps[i])
      BY <1>1, <2>1, <2>2, <3>1 DEF SentOnce, StepRec, Interrupted
    <3> QED
      BY <3>1, <3>2 DEF WasSent, StepRec, Interrupted, SETTLED
  <2> QED
    BY <1>1, <2>1, <2>2 DEF SentOnce, NoDrive
<1>3. CASE UNCHANGED <<group, drive, sends>>
  BY <1>1, <1>3 DEF SentOnce, WasSent, Step
<1>4. \/ Restart
      \/ UNCHANGED <<group, drive, sends>>
  BY DEF World, Lands, PrinterTurns, LinkLost, LinkBack, Silence, Unloads, OwnerDeclares, Loads, Changes,
         taskVars, history
<1> QED
  BY <1>2, <1>3, <1>4

LEMMA RestoresKept ==
    ASSUME RefillInv, RefillNext
    PROVE  OnlyRemovalRestores'
<1>1. RefillTyped /\ OnlyRemovalRestores
  BY DEF RefillInv
<1>2. CASE group' = group
  BY <1>1, <1>2 DEF OnlyRemovalRestores
<1>3. ASSUME group'.enabled => group.enabled, DOMAIN group'.steps = DOMAIN group.steps,
             \A i \in DOMAIN group.steps : group'.steps[i].restores = group.steps[i].restores
      PROVE  OnlyRemovalRestores'
  BY <1>1, <1>3 DEF OnlyRemovalRestores
<1>4. \A i \in DOMAIN group.steps : group.steps[i] \in StepRec
  BY <1>1, StepAt
<1>5. ASSUME NEW x, NEW y, Saved(x, y) PROVE OnlyRemovalRestores'
  <2>1. \A i \in DOMAIN group.steps : group'.steps[i].restores = group.steps[i].restores
    BY <1>4, <1>5 DEF Saved, Step, StepRec
  <2> QED
    BY <1>3, <1>5, <2>1 DEF Saved
<1>6. CASE Wrote
  <2>1. group'.enabled => \A i \in DOMAIN group.steps : ~ group'.steps[i].restores
    BY <1>1, <1>4, <1>6 DEF Wrote, Step, StepRec, OnlyRemovalRestores
  <2> QED
    BY <1>6, <2>1 DEF Wrote, OnlyRemovalRestores
<1>7. ASSUME NEW g \in GroupRec, g.steps = group.steps, g.enabled => group.enabled, group' = Retried(g)
      PROVE  OnlyRemovalRestores'
  <2>1. RetriedAs(g, group')
    BY <1>7, RetriedIs
  <2>2. ASSUME NEW s \in StepRec, NEW t, RetriedStep(s, t) PROVE t.restores = s.restores
    BY <2>2 DEF RetriedStep, StepRec
  <2> QED
    BY <1>3, <1>4, <1>7, <2>1, <2>2 DEF RetriedAs
<1>8. ASSUME NEW pair \in Pairs, NEW c \in Colours, Plans(pair, c) PROVE OnlyRemovalRestores'
  <2>1. /\ DOMAIN group'.steps = 1 .. 2
        /\ \A i \in 1 .. 2 : \E w \in Wires, t \in Declarations : group'.steps[i] = NewStep(w, w, t)
    BY <1>1, <1>8, PlansTypes
  <2> QED
    <3>1. ASSUME NEW i \in 1 .. 2 PROVE group'.steps[i].restores = FALSE
      <4>1. PICK w \in Wires, t \in Declarations : group'.steps[i] = NewStep(w, w, t)
        BY <2>1
      <4>2. NewStep(w, w, t).restores = FALSE
        BY DEF NewStep
      <4> QED
        BY <4>1, <4>2
    <3> QED
      BY <2>1, <3>1 DEF OnlyRemovalRestores
<1>9. group \in GroupRec /\ group.enabled \in BOOLEAN
  BY <1>1 DEF RefillTyped, GroupTyped, GroupRec
<1>10. CASE Owner
  <2>1. ASSUME NEW pair \in Pairs, SetBackup(pair) PROVE OnlyRemovalRestores'
    <3>1. Anchor(pair) \in Wires
      BY DEF Pairs, Anchor
    <3>2. seen[Anchor(pair)].decl.colour \in Colours
      BY <1>1, <3>1 DEF RefillTyped, ReportsTyped, Trays, Declarations
    <3> QED
      BY <1>7, <1>8, <1>9, <2>1, <3>2 DEF SetBackup
  <2>2. ASSUME NEW pair \in Pairs, NEW c \in Colours, PlanRefill(pair, c) PROVE OnlyRemovalRestores'
    BY <1>8, <2>2 DEF PlanRefill
  <2>3. CASE Disable
    BY <1>9, <2>3, DisabledIs DEF Disable, OnlyRemovalRestores
  <2>4. CASE RemoveBackup
    <3>1. CASE group.enabled /\ group' = Retried(Disabled(group))
      BY <1>7, <1>9, <3>1, DisabledIs
    <3>2. CASE group' = Retried(group)
      BY <1>7, <1>9, <3>2
    <3> QED
      BY <1>2, <2>4, <3>1, <3>2 DEF RemoveBackup
  <2>5. CASE RemoveEnds
    <3>1. ReleasedAs(group, group')
      BY <1>9, <2>5, ReleasedIs DEF RemoveEnds
    <3>2. \A i \in DOMAIN group.steps : group'.steps[i].restores = group.steps[i].restores
      BY <1>4, <3>1 DEF ReleasedAs, StepRec
    <3> QED
      BY <1>3, <3>1, <3>2 DEF ReleasedAs, Follows
  <2>6. ASSUME NEW i \in DOMAIN group.steps, Reconcile(i) \/ Release(i) PROVE OnlyRemovalRestores'
    <3>1. \E state \in StepStates : Reviewed(i, state)
      BY <2>6 DEF Reconcile, Release, StepStates, SETTLED
    <3>2. PICK state \in StepStates : Settles(i, state)
      BY <1>1, <3>1, ReviewedIs
    <3>3. \A j \in DOMAIN group.steps : group'.steps[j].restores = group.steps[j].restores
      BY <1>4, <3>2 DEF Settles, StepRec
    <3> QED
      BY <1>3, <3>2, <3>3 DEF Settles
  <2> QED
    BY <1>2, <1>10, <2>1, <2>2, <2>3, <2>4, <2>5, <2>6 DEF Owner, ExecuteRefill
<1>11. CASE Driving
  <2>1. CASE DriveStep
    BY <1>1, <1>2, <1>5, <1>6, <2>1, DriveStepIs DEF DriveStepAs
  <2>2. CASE NotSent \/ DriveConfirms \/ DriveGivesUp
    <3>1. drive.index \in DOMAIN group.steps
      BY <1>1, <2>2 DEF RefillTyped, DriveTyped, NotSent, DriveConfirms, DriveGivesUp
    <3>2. \E x \in StepStates, y \in GroupStates : Save(x, y)
      BY <2>2 DEF NotSent, DriveConfirms, DriveGivesUp, Waiting, Achieved, StepStates, SETTLED, GroupStates
    <3> QED
      BY <1>1, <1>5, <3>1, <3>2, SaveIs
  <2>3. CASE DriveEnds
    BY <1>9, <1>3, <2>3 DEF DriveEnds, GroupRec
  <2> QED
    BY <1>2, <1>11, <2>1, <2>2, <2>3 DEF Driving, DriveSends
<1>12. CASE Worker
  <2>1. group' = group \/ NotedAs(group, group')
    BY <1>9, <1>12, NotedIs DEF Worker, WorkerListens, WorkerDrives
  <2> QED
    BY <1>2, <1>3, <2>1 DEF NotedAs, Follows, NotedStep
<1>13. CASE Reports
  <2>1. PICK g, h \in GroupRec : RetiredAs(group, g) /\ group' = h /\ (h = g \/ (~ Locked /\ NotedAs(g, h)'))
    BY <1>1, <1>13, ReportsIs
  <2>2. \A i \in DOMAIN group.steps : g.steps[i].restores = group.steps[i].restores
    BY <1>4, <2>1 DEF RetiredAs, StepRec
  <2>3. \A i \in DOMAIN group.steps : group'.steps[i].restores = group.steps[i].restores
    BY <2>1, <2>2 DEF RetiredAs, NotedAs, NotedStep
  <2> QED
    BY <1>3, <2>1, <2>3 DEF RetiredAs, NotedAs, Follows
<1>14. CASE World
  <2>1. group' = group \/ Restart
    BY <1>14 DEF World, Lands, PrinterTurns, LinkLost, LinkBack, Silence, Unloads, OwnerDeclares, Loads,
                 Changes, taskVars
  <2>2. CASE Restart
    <3>1. RestartedAs(group, group')
      BY <1>1, <2>2, RestartIs
    <3>2. \A i \in DOMAIN group.steps : group'.steps[i].restores = group.steps[i].restores
      BY <1>4, <3>1 DEF RestartedAs, Interrupted, StepRec
    <3> QED
      BY <1>3, <3>1, <3>2 DEF RestartedAs
  <2> QED
    BY <1>2, <2>1, <2>2
<1> QED
  BY <1>10, <1>11, <1>12, <1>13, <1>14 DEF RefillNext

LEMMA OwesKept ==
    ASSUME RefillInv, RefillNext
    PROVE  OwesNothing'
<1>1. RefillTyped /\ OwesNothing /\ group \in GroupRec /\ group.enabled \in BOOLEAN
  BY DEF RefillInv, RefillTyped, GroupTyped, GroupRec
<1>2. CASE group' = group
  BY <1>1, <1>2 DEF OwesNothing
<1>3. ASSUME group'.enabled = group.enabled, group'.state = group.state,
             DOMAIN group'.steps = DOMAIN group.steps,
             \A i \in DOMAIN group.steps :
                 group'.steps[i].state = group.steps[i].state \/ group'.steps[i].state \in SETTLED
      PROVE  OwesNothing'
  BY <1>1, <1>3 DEF OwesNothing
<1>4. CASE group'.state # "disabled"
  BY <1>4 DEF OwesNothing
<1>5. CASE ~ group'.enabled /\ group'.state = RestoringState(group'.steps)
  BY <1>5 DEF OwesNothing, RestoringState
<1>6. \A i \in DOMAIN group.steps : group.steps[i] \in StepRec
  BY <1>1, StepAt
<1>7. ASSUME NEW g \in GroupRec, g = group \/ g.state # "disabled", group' = Retried(g)
      PROVE  OwesNothing'
  <2>1. RetriedAs(g, group')
    BY <1>7, RetriedIs
  <2> QED
    BY <1>2, <1>4, <1>7, <2>1 DEF RetriedAs
<1>8. ASSUME NEW pair, NEW c, Plans(pair, c) PROVE OwesNothing'
  BY <1>4, <1>8 DEF Plans
<1>9. CASE Owner
  <2>1. ASSUME NEW pair \in Pairs, SetBackup(pair) PROVE OwesNothing'
    BY <1>1, <1>7, <1>8, <2>1 DEF SetBackup
  <2>2. ASSUME NEW pair \in Pairs, NEW c \in Colours, PlanRefill(pair, c) PROVE OwesNothing'
    BY <1>8, <2>2 DEF PlanRefill
  <2>3. CASE Disable
    BY <1>1, <1>4, <2>3, DisabledIs DEF Disable
  <2>4. CASE RemoveBackup
    <3>1. CASE group' = Retried(Disabled(group))
      BY <1>1, <1>7, <3>1, DisabledIs
    <3>2. CASE group' = Retried(group)
      BY <1>1, <1>7, <3>2
    <3> QED
      BY <1>2, <2>4, <3>1, <3>2 DEF RemoveBackup
  <2>5. CASE RemoveEnds
    <3>1. ReleasedAs(group, group')
      BY <1>1, <2>5, ReleasedIs DEF RemoveEnds
    <3>2. \A i \in DOMAIN group.steps :
              group'.steps[i].state = group.steps[i].state \/ group'.steps[i].state \in SETTLED
      BY <1>6, <3>1 DEF ReleasedAs, StepRec, SETTLED
    <3> QED
      BY <1>3, <1>5, <3>1, <3>2 DEF ReleasedAs, Follows
  <2>6. ASSUME NEW i \in DOMAIN group.steps, Reconcile(i) \/ Release(i) PROVE OwesNothing'
    <3>1. \E state \in StepStates :
              Reviewed(i, state) /\ (state \in {"released", "released_empty"} => ~ group.enabled)
      BY <2>6 DEF Reconcile, Release, StepStates, SETTLED
    <3>2. PICK state \in StepStates :
              Settles(i, state) /\ (state \in {"released", "released_empty"} => ~ group.enabled)
      BY <1>1, <3>1, ReviewedIs
    <3> QED
      BY <1>4, <1>5, <3>2 DEF Settles
  <2> QED
    BY <1>2, <1>9, <2>1, <2>2, <2>3, <2>4, <2>5, <2>6 DEF Owner, ExecuteRefill
<1>10. CASE Driving
  <2>1. CASE DriveStep
    <3>1. DriveStepAs
      BY <1>1, <2>1, DriveStepIs
    <3>2. ASSUME NEW x \in StepStates, Saved(x, group.state), group.state # "disabled" \/ x \in SETTLED
          PROVE  OwesNothing'
      <4>1. Step \in StepRec
        BY <1>6, <3>1 DEF Step, DriveStepAs
      <4>2. \A i \in DOMAIN group.steps : \/ group'.steps[i].state = group.steps[i].state
                                          \/ i = drive.index /\ group'.steps[i].state = x
        BY <3>2, <4>1 DEF Saved, StepRec
      <4> QED
        BY <1>3, <1>4, <3>2, <4>2 DEF Saved
    <3>3. group.state = "disabled" => ~ group.enabled /\ Step.state \in SETTLED
      BY <1>1, <3>1 DEF OwesNothing, Step, DriveStepAs
    <3>4. CASE \/ Saved(Step.state, "needs_attention") \/ Saved("conflict", "needs_attention")
               \/ Saved(Step.state, Waiting)
      BY <1>4, <3>4 DEF Saved, Waiting
    <3>5. CASE Saved(NothingToRestore(Step), group.state)
               /\ NothingToRestore(Step) \in {"released_empty", "restored"}
      BY <3>2, <3>5 DEF SETTLED, StepStates
    <3>6. CASE Saved(Achieved, group.state) /\ (~ group.enabled => Step.state \notin SETTLED)
      BY <3>2, <3>3, <3>6 DEF Achieved, StepStates, SETTLED
    <3>7. CASE Wrote /\ (~ group.enabled => Step.state \notin SETTLED)
      BY <1>4, <3>3, <3>7 DEF Wrote
    <3> QED
      BY <1>2, <3>1, <3>4, <3>5, <3>6, <3>7 DEF DriveStepAs
  <2>2. CASE NotSent \/ DriveConfirms \/ DriveGivesUp
    <3>1. \E x, y : Save(x, y) /\ y # "disabled"
      BY <2>2 DEF NotSent, DriveConfirms, DriveGivesUp, Waiting
    <3>2. group'.state # "disabled"
      BY <1>1, <3>1 DEF Save, GroupRec
    <3> QED
      BY <1>4, <3>2
  <2>3. CASE DriveEnds
    <3>1. group'.steps = group.steps /\ group'.enabled = group.enabled /\ group'.state = Status(group)
      BY <1>1, <2>3 DEF DriveEnds, GroupRec
    <3> QED
      BY <1>1, <3>1 DEF Status, OwesNothing
  <2> QED
    BY <1>2, <1>10, <2>1, <2>2, <2>3 DEF Driving, DriveSends
<1>11. CASE Worker
  <2>1. group' = group \/ NotedAs(group, group')
    BY <1>1, <1>11, NotedIs DEF Worker, WorkerListens, WorkerDrives
  <2> QED
    BY <1>2, <1>3, <1>5, <2>1 DEF NotedAs, Follows, NotedStep
<1>12. CASE Reports
  <2>1. PICK g, h \in GroupRec : RetiredAs(group, g) /\ group' = h /\ (h = g \/ (~ Locked /\ NotedAs(g, h)'))
    BY <1>1, <1>12, ReportsIs
  <2>2. \A i \in DOMAIN group.steps : g.steps[i].state = group.steps[i].state
    BY <1>6, <2>1 DEF RetiredAs, StepRec
  <2>3. \A i \in DOMAIN group.steps :
            group'.steps[i].state = group.steps[i].state \/ group'.steps[i].state \in SETTLED
    BY <2>1, <2>2 DEF RetiredAs, NotedAs, NotedStep
  <2>4. group'.enabled = group.enabled /\ DOMAIN group'.steps = DOMAIN group.steps
    BY <2>1 DEF RetiredAs, NotedAs, Follows
  <2>5. group'.state = group.state \/ (~ group'.enabled /\ group'.state = RestoringState(group'.steps))
    <3>1. CASE h = g
      BY <2>1, <3>1 DEF RetiredAs
    <3>2. CASE NotedAs(g, h)'
      <4>1. RestoringState(h.steps)' = RestoringState(h.steps)
        BY DEF RestoringState
      <4>2. h.enabled = g.enabled /\ (h.state = g.state \/ (~ g.enabled /\ h.state = RestoringState(h.steps)))
        BY <3>2, <4>1 DEF NotedAs, Follows
      <4> QED
        BY <2>1, <4>2 DEF RetiredAs
    <3> QED
      BY <2>1, <3>1, <3>2
  <2> QED
    BY <1>3, <1>5, <2>3, <2>4, <2>5
<1>13. CASE World
  <2>1. group' = group \/ Restart
    BY <1>13 DEF World, Lands, PrinterTurns, LinkLost, LinkBack, Silence, Unloads, OwnerDeclares, Loads,
                 Changes, taskVars
  <2>2. CASE Restart
    <3>1. RestartedAs(group, group')
      BY <1>1, <2>2, RestartIs
    <3>2. \A i \in DOMAIN group.steps : group.steps[i].state \in SETTLED => group'.steps[i].state \in SETTLED
      BY <1>6, <3>1 DEF RestartedAs, Interrupted, StepRec, SETTLED
    <3> QED
      BY <1>1, <3>1, <3>2 DEF RestartedAs, OwesNothing
  <2> QED
    BY <1>2, <2>1, <2>2
<1> QED
  BY <1>9, <1>10, <1>11, <1>12, <1>13 DEF RefillNext

LEMMA RefillInvKept ==
    ASSUME RefillInv, [RefillNext]_refillVars
    PROVE  RefillInv'
<1>1. RefillTyped'
  BY TypesKept DEF RefillInv
<1>2. CASE UNCHANGED refillVars
  BY <1>1, <1>2 DEF RefillInv, refillVars, OnlyRemovalRestores, SentOnce, WasSent, Step, OwesNothing
<1>3. CASE RefillNext
  BY <1>1, <1>3, OwnerSent, DrivingSent, WorkerSent, ReportsSent, WorldSent, RestoresKept, OwesKept
     DEF RefillInv, RefillNext
<1> QED
  BY <1>2, <1>3

\* Types, in all runs of the bridge.
LEMMA TypesGive == RefillInv => RefillTypeOK
<1> SUFFICES ASSUME RefillInv PROVE RefillTypeOK
  OBVIOUS
<1>1. RefillTyped
  BY DEF RefillInv
<1>2. \A i \in DOMAIN group.steps : group.steps[i].state \in StepStates
  BY <1>1, StepAt
<1>3. drive.index \in 0 .. 3
  BY <1>1 DEF RefillTyped, DriveTyped, Drive, NoDrive
<1>4. group.state \in {"pending", "needs_attention", "restoration_pending", "disabled"}
  BY <1>1 DEF RefillTyped, GroupTyped, GroupRec, GroupStates
<1> QED
  BY <1>1, <1>2, <1>3, <1>4 DEF RefillTypeOK, RefillTyped, ReportsTyped

\* Nothing is sent twice for one request of the owner, and a group that counts as disabled owes
\* nothing: whatever reports, lost answers, crashes, edits at the printer and requests meet, for
\* any number of slots and spools.
THEOREM SentOnceAndOwesNothing == RefillSpec => [](RefillTypeOK /\ NeverResent /\ DisabledOwesNothing)
<1>1. RefillInit => RefillInv
  BY InitRefill
<1>2. RefillInv /\ [RefillNext]_refillVars => RefillInv'
  BY RefillInvKept
<1>3. RefillInv => RefillTypeOK /\ NeverResent /\ DisabledOwesNothing
  BY TypesGive DEF RefillInv, SentOnce, NeverResent, OwesNothing, DisabledOwesNothing
<1> QED
  BY <1>1, <1>2, <1>3, PTL DEF RefillSpec

(***************************************************************************)
(* Nobody's spool or declaration is written over.                           *)
(***************************************************************************)
\* The steps are about the same sources as before.
SourcesStay ==
    /\ DOMAIN group'.steps = DOMAIN group.steps
    /\ \A i \in DOMAIN group.steps :
           LET s == group.steps[i]
               t == group'.steps[i]
           IN  /\ t.wire = s.wire /\ t.tagged = s.tagged /\ t.spool = s.spool
               /\ t.same = s.same /\ t.old = s.old

Planned == \E pair \in Pairs, c \in Colours : Plans(pair, c)

LEMMA SourcesChange ==
    ASSUME RefillInv, RefillNext
    PROVE  SourcesStay \/ Planned \/ WorkerListens \/ Reports \/ Restart
<1>1. RefillTyped /\ group \in GroupRec /\ group.enabled \in BOOLEAN
  BY DEF RefillInv, RefillTyped, GroupTyped, GroupRec
<1>2. \A i \in DOMAIN group.steps : group.steps[i] \in StepRec
  BY <1>1, StepAt
<1>3. CASE group'.steps = group.steps
  BY <1>3 DEF SourcesStay
<1>4. ASSUME NEW x, NEW y, Saved(x, y) PROVE SourcesStay
  BY <1>2, <1>4 DEF Saved, Step, StepRec, SourcesStay
<1>5. CASE Wrote
  <2> DEFINE x == IF group.enabled THEN "applying" ELSE "restoring"
             b == ~ group.enabled
  <2>2. /\ DOMAIN group'.steps = DOMAIN group.steps
        /\ \A i \in DOMAIN group.steps :
               \/ group'.steps[i] = group.steps[i]
               \/ group'.steps[i] = [group.steps[i] EXCEPT !.state = x, !.restores = b]
    BY <1>5 DEF Wrote, Step
  <2> HIDE DEF x, b
  <2>3. ASSUME NEW i \in DOMAIN group.steps
        PROVE  LET s == group.steps[i]
                   t == group'.steps[i]
               IN  /\ t.wire = s.wire /\ t.tagged = s.tagged /\ t.spool = s.spool
                   /\ t.same = s.same /\ t.old = s.old
    <3>1. group.steps[i] \in StepRec
      BY <1>2
    <3>2. CASE group'.steps[i] = group.steps[i]
      BY <3>2
    <3>3. CASE group'.steps[i] = [group.steps[i] EXCEPT !.state = x, !.restores = b]
      BY <3>1, <3>3 DEF StepRec
    <3> QED
      BY <2>2, <3>2, <3>3
  <2> QED
    BY <2>2, <2>3 DEF SourcesStay
<1>6. ASSUME NEW g \in GroupRec, g.steps = group.steps, group' = Retried(g)
      PROVE  SourcesStay
  <2>1. RetriedAs(g, group')
    BY <1>6, RetriedIs
  <2>2. ASSUME NEW s \in StepRec, NEW t, RetriedStep(s, t)
        PROVE  /\ t.wire = s.wire /\ t.tagged = s.tagged /\ t.spool = s.spool
               /\ t.same = s.same /\ t.old = s.old
    BY <2>2 DEF RetriedStep, StepRec
  <2> QED
    BY <1>2, <1>6, <2>1, <2>2 DEF RetriedAs, SourcesStay
<1>7. CASE Owner
  <2>1. ASSUME NEW pair \in Pairs, SetBackup(pair) PROVE SourcesStay \/ Planned
    <3>1. seen[Anchor(pair)].decl.colour \in Colours
      BY <1>1 DEF Pairs, Anchor, RefillTyped, ReportsTyped, Trays, Declarations
    <3> QED
      BY <1>1, <1>6, <2>1, <3>1 DEF SetBackup, Planned
  <2>2. ASSUME NEW pair \in Pairs, NEW c \in Colours, PlanRefill(pair, c) PROVE Planned
    BY <2>2 DEF PlanRefill, Planned
  <2>3. CASE Disable
    BY <1>1, <1>3, <2>3, DisabledIs DEF Disable
  <2>4. CASE RemoveBackup
    <3>1. CASE group' = Retried(Disabled(group))
      BY <1>1, <1>6, <3>1, DisabledIs
    <3>2. CASE group' = Retried(group)
      BY <1>1, <1>6, <3>2
    <3> QED
      BY <1>3, <2>4, <3>1, <3>2 DEF RemoveBackup
  <2>5. CASE RemoveEnds
    <3>1. ReleasedAs(group, group')
      BY <1>1, <2>5, ReleasedIs DEF RemoveEnds
    <3> QED
      BY <1>2, <3>1 DEF ReleasedAs, Follows, StepRec, SourcesStay
  <2>6. ASSUME NEW i \in DOMAIN group.steps, Reconcile(i) \/ Release(i) PROVE SourcesStay
    <3>1. \E state \in StepStates : Reviewed(i, state)
      BY <2>6 DEF Reconcile, Release, StepStates, SETTLED
    <3>2. PICK state \in StepStates : Settles(i, state)
      BY <1>1, <3>1, ReviewedIs
    <3> QED
      BY <1>2, <3>2 DEF Settles, StepRec, SourcesStay
  <2> QED
    BY <1>3, <1>7, <2>1, <2>2, <2>3, <2>4, <2>5, <2>6 DEF Owner, ExecuteRefill
<1>8. CASE Driving
  <2>1. CASE DriveStep
    BY <1>1, <1>3, <1>4, <1>5, <2>1, DriveStepIs DEF DriveStepAs
  <2>2. CASE NotSent \/ DriveConfirms \/ DriveGivesUp
    <3>1. drive.index \in DOMAIN group.steps
      BY <1>1, <2>2 DEF RefillTyped, DriveTyped, NotSent, DriveConfirms, DriveGivesUp
    <3>2. \E x \in StepStates, y \in GroupStates : Save(x, y)
      BY <2>2 DEF NotSent, DriveConfirms, DriveGivesUp, Waiting, Achieved, StepStates, SETTLED, GroupStates
    <3> QED
      BY <1>1, <1>4, <3>1, <3>2, SaveIs
  <2>3. CASE DriveEnds
    BY <1>1, <1>3, <2>3 DEF DriveEnds, GroupRec
  <2> QED
    BY <1>3, <1>8, <2>1, <2>2, <2>3 DEF Driving, DriveSends
<1>9. CASE World
  BY <1>3, <1>9 DEF World, Lands, PrinterTurns, LinkLost, LinkBack, Silence, Unloads, OwnerDeclares, Loads,
                    Changes, taskVars
<1> QED
  BY <1>3, <1>7, <1>8, <1>9 DEF RefillNext, Worker, WorkerDrives

\* The slots' history moves only with a report, a restart, a plan, or people at the printer.
LEMMA HistoryStays ==
    ASSUME RefillInv, RefillNext, ~ Planned, ~ Reports, ~ Restart
    PROVE  first' = first /\ \A w \in Wires : theirs'[w] = "reported" => theirs[w] = "reported"
<1>1. RefillTyped /\ theirs \in [Wires -> {"no", "declared", "reported"}]
  BY DEF RefillInv, RefillTyped
<1>2. CASE Owner
  <2>1. \A pair \in Pairs : ~ Plans(pair, seen[Anchor(pair)].decl.colour)
    BY <1>1 DEF Planned, Pairs, Anchor, RefillTyped, ReportsTyped, Trays, Declarations
  <2> QED
    BY <1>2, <2>1 DEF Owner, SetBackup, PlanRefill, Planned, ExecuteRefill, Disable, RemoveBackup, RemoveEnds,
                      Reconcile, Release, reportVars, history
<1>3. CASE Driving
  BY <1>3 DEF Driving, DriveStep, DriveSends, NotSent, DriveConfirms, DriveGivesUp, DriveEnds, reportVars, history
<1>4. CASE Worker
  BY <1>4 DEF Worker, WorkerListens, WorkerDrives, reportVars, history
<1>5. ASSUME NEW w \in Wires, NEW t, Changes(w, t)
      PROVE  first' = first /\ \A v \in Wires : theirs'[v] = "reported" => theirs[v] = "reported"
  BY <1>1, <1>5 DEF Changes, reportVars
<1>6. CASE World
  BY <1>5, <1>6 DEF World, Lands, PrinterTurns, LinkLost, LinkBack, Silence, Unloads, OwnerDeclares, Loads,
                    reportVars, history
<1> QED
  BY <1>2, <1>3, <1>4, <1>6 DEF RefillNext

LEMMA ScopeKept ==
    ASSUME RefillInv, RefillNext, Scope
    PROVE  Scope'
<1>1. RefillTyped /\ tray \in [Wires -> Trays] /\ budget \in [Events -> Nat]
  BY DEF RefillInv, RefillTyped, ReportsTyped
<1>2. \A e \in Events : budget[e] = 0 => budget'[e] = 0
  <2>1. ASSUME NEW e \in Events, Spend(e) PROVE \A f \in Events : budget[f] = 0 => budget'[f] = 0
    BY <1>1, <2>1 DEF Spend
  <2>2. CASE World
    BY <2>1, <2>2 DEF World, Lands, PrinterTurns, LinkLost, LinkBack, Silence, Restart, Unloads, OwnerDeclares,
                      Loads, Events
  <2>3. CASE Owner
    BY <2>3 DEF Owner, SetBackup, PlanRefill, ExecuteRefill, Disable, RemoveBackup, RemoveEnds, Reconcile, Release
  <2>4. CASE Driving
    BY <2>1, <2>4 DEF Driving, DriveStep, DriveSends, NotSent, DriveConfirms, DriveGivesUp, DriveEnds, Events
  <2> QED
    BY <2>2, <2>3, <2>4 DEF RefillNext, Worker, WorkerListens, WorkerDrives, Reports
<1>3. CASE budget["crash"] = 0 /\ \A i \in DOMAIN group.steps : ~ group.steps[i].old
  <2>1. ~ Restart /\ budget'["crash"] = 0
    BY <1>2, <1>3 DEF Restart, Spend, Events
  <2>2. \A i \in DOMAIN group'.steps : ~ group'.steps[i].old
    <3>1. CASE SourcesStay
      BY <1>3, <3>1 DEF SourcesStay
    <3>2. CASE Planned
      <4>1. PICK pair \in Pairs, c \in Colours : Plans(pair, c)
        BY <3>2 DEF Planned
      <4>2. /\ DOMAIN group'.steps = 1 .. 2
            /\ \A i \in 1 .. 2 : \E w \in Wires, t \in Declarations : group'.steps[i] = NewStep(w, w, t)
        BY <1>1, <4>1, PlansTypes
      <4>3. \A w, t : NewStep(w, w, t).old = FALSE
        BY DEF NewStep
      <4> QED
        BY <4>2, <4>3
    <3>3. CASE WorkerListens
      <4>1. group' = group \/ NotedAs(group, group')
        BY <1>1, <3>3, NotedIs DEF WorkerListens, RefillTyped, GroupTyped
      <4> QED
        BY <1>3, <4>1 DEF NotedAs, Follows, NotedStep
    <3>4. CASE Reports
      <4>1. PICK g, h \in GroupRec : RetiredAs(group, g) /\ group' = h
                                     /\ (h = g \/ (~ Locked /\ NotedAs(g, h)'))
        BY <1>1, <3>4, ReportsIs
      <4>2. \A i \in DOMAIN group.steps : ~ g.steps[i].old
        <5>1. ASSUME NEW i \in DOMAIN group.steps PROVE g.steps[i].old = group.steps[i].old
          BY <1>1, <4>1, StepAt DEF RetiredAs, StepRec
        <5> QED
          BY <1>3, <5>1
      <4> QED
        BY <4>1, <4>2 DEF RetiredAs, NotedAs, Follows, NotedStep
    <3> QED
      BY <2>1, <3>1, <3>2, <3>3, <3>4, SourcesChange
  <2> QED
    BY <2>1, <2>2 DEF Scope
<1>4. CASE budget["unload"] = 0 /\ \A w \in Wires : tray[w].spool # NoSpool
  <2>1. budget'["unload"] = 0 /\ \A w \in Wires : ~ Unloads(w)
    BY <1>2, <1>4 DEF Unloads, Spend, Events
  <2>2. \A w \in Wires : tray'[w].spool # NoSpool
    <3>1. CASE World
      <4>1. CASE Lands
        BY <1>1, <1>4, <4>1 DEF Lands, Trays
      <4>2. ASSUME NEW w \in Wires, NEW d, OwnerDeclares(w, d) PROVE \A v \in Wires : tray'[v].spool # NoSpool
        BY <1>1, <1>4, <4>2 DEF OwnerDeclares, Changes, Trays
      <4>3. ASSUME NEW w \in Wires, NEW sp, Loads(w, sp) PROVE \A v \in Wires : tray'[v].spool # NoSpool
        BY <1>4, <4>3 DEF Loads
      <4> QED
        BY <1>4, <2>1, <3>1, <4>1, <4>2, <4>3
           DEF World, PrinterTurns, LinkLost, LinkBack, Silence, Restart, amsVars
    <3>2. CASE ~ World
      <4>1. tray' = tray
        BY <3>2 DEF RefillNext, Owner, SetBackup, PlanRefill, ExecuteRefill, Disable, RemoveBackup, RemoveEnds,
                    Reconcile, Release, Driving, DriveStep, DriveSends, NotSent, DriveConfirms, DriveGivesUp,
                    DriveEnds, Worker, WorkerListens, WorkerDrives, Reports, amsVars
      <4> QED
        BY <1>4, <4>1
    <3> QED
      BY <3>1, <3>2
  <2> QED
    BY <2>1, <2>2 DEF Scope
<1> QED
  BY <1>3, <1>4 DEF Scope

LEMMA ReportedKept ==
    ASSUME RefillInv, RefillInv', RefillNext, Scope, ReportedIsOther
    PROVE  ReportedIsOther'
<1>1. RefillTyped /\ tray \in [Wires -> Trays] /\ theirs \in [Wires -> {"no", "declared", "reported"}]
      /\ first \in [Wires -> {"unset", "first", "later"}]
  BY DEF RefillInv, RefillTyped, ReportsTyped
<1>2. \A i \in DOMAIN group.steps : group.steps[i] \in StepRec /\ group.steps[i].wire \in Wires
  BY <1>1, StepAt
<1>3. CASE Restart
  <2>1. \A w \in Wires : theirs'[w] # "reported"
    BY <1>1, <1>3 DEF Restart
  <2>2. RestartedAs(group, group')
    BY <1>1, <1>3, RestartIs
  <2>3. \A i \in DOMAIN group.steps : /\ group'.steps[i].wire = group.steps[i].wire
                                      /\ group'.steps[i].tagged = group.steps[i].tagged
                                      /\ group'.steps[i].spool = group.steps[i].spool
    BY <1>2, <2>2, ZenonT(40) DEF RestartedAs, Interrupted, StepRec
  <2> QED
    BY <1>2, <2>1, <2>2, <2>3 DEF RestartedAs, ReportedIsOther
<1>4. CASE Planned
  <2>1. PICK pair \in Pairs, c \in Colours : Plans(pair, c)
    BY <1>4 DEF Planned
  <2>2. \A w \in Wires : theirs'[w] # "reported"
    BY <1>1, <2>1 DEF Plans
  <2>3. /\ DOMAIN group'.steps = 1 .. 2
        /\ \A i \in 1 .. 2 : \E w \in Wires, t \in Declarations : group'.steps[i] = NewStep(w, w, t)
    BY <1>1, <2>1, PlansTypes
  <2>4. \A w, t : NewStep(w, w, t).wire = w /\ (NewStep(w, w, t).tagged => NewStep(w, w, t).spool \in Tagged)
    BY DEF NewStep
  <2> QED
    BY <2>2, <2>3, <2>4 DEF ReportedIsOther
<1>5. CASE WorkerListens
  <2>1. group' = group \/ NotedAs(group, group')
    BY <1>1, <1>5, NotedIs DEF WorkerListens, RefillTyped, GroupTyped
  <2>2. theirs' = theirs /\ first' = first
    BY <1>5 DEF WorkerListens, history, reportVars
  <2>3. ASSUME NotedAs(group, group'), NEW i \in DOMAIN group'.steps
        PROVE  LET s == group'.steps[i]
               IN  /\ s.tagged => s.spool \in Tagged
                   /\ theirs[s.wire] = "reported" /\ ~ s.tagged => ~ s.same /\ (s.old => first[s.wire] = "later")
    <3>1. NotedStep(group, group.steps[i], group'.steps[i]) /\ i \in DOMAIN group.steps
      BY <2>3 DEF NotedAs, Follows
    <3> QED
      BY <3>1 DEF NotedStep, Alike, Readopts, ReportedIsOther
  <2> QED
    BY <2>1, <2>2, <2>3 DEF ReportedIsOther
<1>6. CASE Reports
  <2>1. PICK g, h \in GroupRec : RetiredAs(group, g) /\ group' = h /\ (h = g \/ (~ Locked /\ NotedAs(g, h)'))
    BY <1>1, <1>6, ReportsIs
  <2>2. /\ first' = [w \in Wires |-> FirstAfter(w)]
        /\ theirs' = [w \in Wires |-> IF theirs[w] = "declared" /\ ShowsChange(w) THEN "reported" ELSE theirs[w]]
    BY <1>6 DEF Reports
  <2>3. ASSUME NEW i \in DOMAIN group.steps
        PROVE  LET s == g.steps[i]
               IN  /\ s.wire = group.steps[i].wire /\ s.wire \in Wires
                   /\ s.tagged => s.spool \in Tagged
                   /\ theirs'[s.wire] = "reported" /\ ~ s.tagged => ~ s.same /\ (s.old => first'[s.wire] = "later")
    <3> DEFINE o == group.steps[i]
               s == g.steps[i]
               w == group.steps[i].wire
    <3>1. /\ s.wire = w /\ w \in Wires /\ s.tagged = o.tagged /\ s.spool = o.spool /\ s.old = o.old
          /\ s.same = (o.same /\ ~ Retires(w)) /\ (s.tagged => s.spool \in Tagged)
      <4>1. o \in StepRec /\ w \in Wires /\ s = [o EXCEPT !.same = o.same /\ ~ Retires(w)]
        BY <1>2, <2>1 DEF RetiredAs
      <4>2. /\ s.wire = w /\ s.tagged = o.tagged /\ s.spool = o.spool /\ s.old = o.old
            /\ s.same = (o.same /\ ~ Retires(w))
        BY <4>1 DEF StepRec
      <4>3. o.tagged => o.spool \in Tagged
        BY DEF ReportedIsOther
      <4> QED
        BY <4>1, <4>2, <4>3
    <3>2. ASSUME theirs[w] = "reported", ~ s.tagged PROVE ~ s.same /\ (s.old => first'[w] = "later")
      <4>1. ~ o.same /\ (o.old => first[w] = "later")
        BY <3>1, <3>2 DEF ReportedIsOther
      <4> QED
        BY <2>2, <3>1, <4>1 DEF FirstAfter
    <3>3. ASSUME theirs[w] = "declared", ShowsChange(w), ~ s.tagged
          PROVE  ~ s.same /\ (s.old => first'[w] = "later")
      <4>1. Retires(w) /\ (first[w] # "unset" \/ tray[w].spool = NoSpool)
        BY <3>3 DEF ShowsChange
      <4>2. s.old => tray[w].spool # NoSpool
        BY <3>1 DEF Scope
      <4> QED
        BY <2>2, <3>1, <4>1, <4>2 DEF FirstAfter
    <3> QED
      BY <2>2, <3>1, <3>2, <3>3
  <2>4. ASSUME NEW i \in DOMAIN group'.steps
        PROVE  LET s == group'.steps[i]
               IN  /\ s.tagged => s.spool \in Tagged
                   /\ theirs'[s.wire] = "reported" /\ ~ s.tagged => ~ s.same /\ (s.old => first'[s.wire] = "later")
    <3>1. CASE h = g
      BY <2>1, <2>3, <3>1 DEF RetiredAs
    <3>2. CASE NotedAs(g, h)'
      <4>1. i \in DOMAIN group.steps /\ NotedStep(g, g.steps[i], h.steps[i])'
        BY <2>1, <3>2 DEF NotedAs, Follows, RetiredAs
      <4>2. /\ h.steps[i].wire = g.steps[i].wire /\ h.steps[i].tagged = g.steps[i].tagged
            /\ h.steps[i].spool = g.steps[i].spool
            /\ \/ h.steps[i].same = g.steps[i].same /\ h.steps[i].old = g.steps[i].old
               \/ /\ g.steps[i].old /\ ~ g.steps[i].tagged /\ first'[g.steps[i].wire] = "first"
                  /\ h.steps[i].same /\ ~ h.steps[i].old
        BY <4>1 DEF NotedStep, Alike, Readopts
      <4> QED
        BY <2>1, <2>3, <4>1, <4>2
    <3> QED
      BY <2>1, <3>1, <3>2
  <2> QED
    BY <2>4 DEF ReportedIsOther
<1>7. CASE SourcesStay /\ ~ Planned /\ ~ Reports /\ ~ Restart
  <2>1. first' = first /\ \A w \in Wires : theirs'[w] = "reported" => theirs[w] = "reported"
    BY <1>7, HistoryStays
  <2> QED
    BY <1>2, <1>7, <2>1 DEF SourcesStay, ReportedIsOther
<1> QED
  BY <1>3, <1>4, <1>5, <1>6, <1>7, SourcesChange

LEMMA SendsToOwnKept ==
    ASSUME RefillInv, RefillNext, ReportedIsOther, SendsToOwn
    PROVE  SendsToOwn'
<1>1. RefillTyped /\ drive \in {NoDrive} \cup Drive
  BY DEF RefillInv, RefillTyped, DriveTyped
<1>2. CASE drive' = drive /\ group' = group
  BY <1>2 DEF SendsToOwn, Step
<1>3. CASE drive'.at # "send"
  BY <1>3 DEF SendsToOwn
<1>4. CASE Owner
  <2>1. CASE Serving \/ (removal /\ ~ Locked)
    <3>1. drive = NoDrive
      BY <2>1 DEF Serving, Locked
    <3>2. drive' = NoDrive \/ \E by \in {"owner", "worker", "remove"} : Drives(by)
      BY <1>4, <3>1 DEF Owner, SetBackup, PlanRefill, ExecuteRefill, Disable, RemoveBackup, RemoveEnds,
                        Reconcile, Release, taskVars
    <3> QED
      BY <1>3, <3>2, DrivesTypes DEF NoDrive
  <2>2. CASE RemoveBackup
    <3>1. drive.at # "send" /\ (drive' = drive \/ Drives("remove"))
      BY <2>2 DEF RemoveBackup, Running
    <3> QED
      BY <1>3, <3>1, DrivesTypes
  <2> QED
    BY <1>4, <2>1, <2>2 DEF Owner, SetBackup, PlanRefill, ExecuteRefill, Disable, RemoveEnds, Reconcile, Release
<1>5. CASE DriveStep
  <2>1. DriveStepAs
    BY <1>1, <1>5, DriveStepIs
  <2>2. CASE Onward \/ Leave
    <3>1. CASE Onward
      BY <1>1, <1>3, <3>1 DEF Onward, NoDrive, Drive
    <3>2. CASE Leave
      BY <1>3, <3>2 DEF Leave, NoDrive
    <3> QED
      BY <2>2, <3>1, <3>2
  <2>3. CASE /\ drive' = [drive EXCEPT !.at = "send"] /\ Wrote
             /\ SameSource(Step) /\ Editable(Step.wire)
    <3>1. Step \in StepRec /\ drive.index \in DOMAIN group.steps
      BY <1>1, <2>1, StepAt DEF DriveStepAs, Step
    <3>2. ~ Step.tagged /\ Step.same
      BY <2>3, <3>1 DEF SameSource, Editable, ReportedIsOther, Step
    <3>3. drive'.index = drive.index
      BY <1>1, <2>3 DEF NoDrive, Drive
    <3>4. Step' = [Step EXCEPT !.state = IF group.enabled THEN "applying" ELSE "restoring",
                               !.restores = ~ group.enabled]
      BY <2>3, <3>3 DEF Wrote, Step
    <3>5. Step'.tagged = Step.tagged /\ Step'.same = Step.same
      BY <3>1, <3>4 DEF StepRec
    <3> QED
      BY <3>2, <3>5 DEF SendsToOwn
  <2> QED
    BY <2>1, <2>2, <2>3 DEF DriveStepAs, LeaveOrOnward
<1>6. CASE DriveSends
  BY <1>1, <1>3, <1>6 DEF DriveSends, NoDrive, Drive
<1>7. CASE NotSent \/ DriveConfirms \/ DriveGivesUp \/ DriveEnds
  <2>1. CASE Onward
    BY <1>1, <1>3, <2>1 DEF Onward, NoDrive, Drive
  <2>2. CASE Leave
    BY <1>3, <2>2 DEF Leave, NoDrive
  <2> QED
    BY <1>7, <2>1, <2>2 DEF NotSent, DriveConfirms, DriveGivesUp, DriveEnds
<1>8. CASE Worker
  <2>1. CASE WorkerListens
    BY <1>3, <2>1 DEF WorkerListens, Running
  <2>2. CASE WorkerDrives
    BY <1>3, <2>2, DrivesTypes DEF WorkerDrives
  <2> QED
    BY <1>8, <2>1, <2>2 DEF Worker
<1>9. CASE Reports
  BY <1>3, <1>9 DEF Reports, Running
<1>10. CASE World
  <2>1. CASE Restart
    BY <1>3, <2>1 DEF Restart, NoDrive
  <2> QED
    BY <1>2, <1>10, <2>1 DEF World, Lands, PrinterTurns, LinkLost, LinkBack, Silence, Unloads, OwnerDeclares,
                             Loads, Changes, taskVars
<1> QED
  BY <1>4, <1>5, <1>6, <1>7, <1>8, <1>9, <1>10 DEF RefillNext, Driving

LEMMA TheirsInvKept ==
    ASSUME RefillInv, RefillInv', TheirsInv, [RefillNext]_refillVars
    PROVE  TheirsInv'
<1>1. CASE UNCHANGED refillVars
  BY <1>1 DEF refillVars, TheirsInv, Scope, ReportedIsOther, SendsToOwn, Step
<1> QED
  BY <1>1, ScopeKept, ReportedKept, SendsToOwnKept DEF TheirsInv

LEMMA OnlyOwnSends ==
    ASSUME RefillInv, TheirsInv, [RefillNext]_refillVars, NEW w \in Wires, sends'[w] > sends[w]
    PROVE  theirs[w] # "reported"
<1>1. RefillTyped /\ sends \in [Wires -> Nat]
  BY DEF RefillInv, RefillTyped
<1>2. CASE DriveSends
  <2>1. drive.index \in DOMAIN group.steps /\ drive.at = "send"
    BY <1>1, <1>2 DEF DriveSends, RefillTyped, DriveTyped
  <2>2. Step.wire \in Wires /\ sends' = [sends EXCEPT ![Step.wire] = @ + 1]
    BY <1>1, <1>2, <2>1, StepAt DEF DriveSends, Step
  <2>3. w = Step.wire
    BY <1>1, <2>2
  <2> QED
    BY <2>1, <2>3 DEF TheirsInv, SendsToOwn, ReportedIsOther, Step
<1>3. CASE ~ DriveSends
  <2>1. sends'[w] \in {0, sends[w]}
    <3>1. CASE UNCHANGED refillVars
      BY <3>1 DEF refillVars
    <3>2. CASE Owner
      BY <3>2 DEF Owner, SetBackup, PlanRefill, Plans, ExecuteRefill, Disable, RemoveBackup, RemoveEnds, Reconcile,
                  Release, Rearmed, history
    <3>3. CASE Driving
      BY <1>3, <3>3 DEF Driving, DriveStep, NotSent, DriveConfirms, DriveGivesUp, DriveEnds, history
    <3>4. CASE Worker \/ Reports
      BY <3>4 DEF Worker, WorkerListens, WorkerDrives, Reports, history
    <3>5. CASE World
      BY <3>5 DEF World, Lands, PrinterTurns, LinkLost, LinkBack, Silence, Restart, Unloads, OwnerDeclares, Loads,
                  Changes, history
    <3> QED
      BY <3>1, <3>2, <3>3, <3>4, <3>5 DEF RefillNext
  <2> QED
    BY <1>1, <2>1
<1> QED
  BY <1>2, <1>3

\* A spool or a declaration someone else put in a slot, once a report shows it, is not written
\* over, where no crash of the bridge meets a slot that was emptied: a restart forgets which
\* slots have changed, and an empty slot does not say so again.
THEOREM TheirsStay == ASSUME Calm PROVE RefillSpec => TheirsIsKept
<1>1. RefillInit => RefillInv /\ TheirsInv
  <2> SUFFICES ASSUME RefillInit PROVE TheirsInv
    BY InitRefill
  <2>1. group = NoGroup /\ DOMAIN NoGroup.steps = {} /\ drive.at = "none" /\ budget \in Troubles /\ tray \in Seats
    BY DEF RefillInit, NoGroup, NoDrive
  <2> QED
    BY <2>1 DEF Calm, TheirsInv, Scope, ReportedIsOther, SendsToOwn
<1>2. RefillInv /\ TheirsInv /\ [RefillNext]_refillVars => RefillInv' /\ TheirsInv'
  BY RefillInvKept, TheirsInvKept
<1>3. RefillInv /\ TheirsInv /\ [RefillNext]_refillVars
          => [\A w \in Wires : sends'[w] > sends[w] => theirs[w] # "reported"]_refillVars
  BY OnlyOwnSends
<1> QED
  BY <1>1, <1>2, <1>3, PTL DEF RefillSpec, TheirsIsKept

-----------------------------------------------------------------------------

(***************************************************************************)
(* While a slot still shows an alias the bridge wrote, the group says so:   *)
(* for any number of slots and spools, whatever crashes, lost answers,      *)
(* reports, prints, swapped spools and requests meet.                       *)
(***************************************************************************)

\* Every alias is accounted for: it takes an answer that comes after its 20 s, or a confirmed
\* write that lands after a second edit at the printer, to leave one behind.
FewEdits ==
    \A b \in Troubles : b["declare"] = 0 \/ (b["declare"] = 1 /\ b["unload"] = 0)

Shaped ==
    \A i \in DOMAIN group.steps :
        LET s == group.steps[i]
        IN  /\ s.writes = (s.before # s.target)
            /\ s.tagged => s.spool \in Tagged
            /\ s.old => ~ s.same
            /\ group.enabled => s.state \in {"pending", "applying", "owned", "uncertain", "conflict"}

\* Before the one edit at the printer the bridge knows each declaration, but for its own write.
Awaited(w) == drive.at = "wait" /\ w = Step.wire
Announced(w) == expected[w] = [is |-> TRUE, decl |-> Desired(Step)]
Unedited ==
    budget["declare"] # 0 =>
        /\ budget["declare"] = 1 /\ budget["unload"] = 0
        /\ command # NoCommand => drive.at = "wait"
        /\ \A w \in Wires :
               /\ seen[w].spool # NoSpool => seen[w].spool = tray[w].spool
               /\ fresh /\ ~ Awaited(w) => seen[w].decl = tray[w].decl
               /\ Awaited(w) =>
                      /\ Step.same /\ seen[w].spool # NoSpool
                      /\ tray[w].decl # seen[w].decl => tray[w].decl = Desired(Step) /\ Announced(w)
                      /\ command # NoCommand => /\ tray[w].decl = seen[w].decl /\ Announced(w)
                                                /\ seen[w].decl # Desired(Step)

\* A spool the printer takes a declaration for, as the bridge sees it.
Takes(w) == tray[w].spool \notin Tagged \cup {NoSpool} /\ (fresh => seen[w].spool = tray[w].spool)

Driven ==
    LET w == Step.wire
    IN  /\ drive.at \in {"send", "wait"} => ~ Step.tagged /\ ~ Step.old /\ (group.enabled => Step.writes)
        /\ drive.at = "send" => Step.same /\ seen[w].decl # Desired(Step) /\ (group.enabled => ~ ours[w])
        /\ drive.at = "wait" /\ command # NoCommand =>
               /\ command.wire = w /\ command.decl = Desired(Step)
               /\ seen[w].decl = Desired(Step) => tray[w].decl = Desired(Step)
               /\ command.alias => group.enabled /\ Takes(w)
               /\ group.enabled => ~ ours[w]

\* A write that was confirmed and is still on its way changes nothing.
LeftOver ==
    command # NoCommand /\ drive.at # "wait" =>
        budget["declare"] = 0 /\ tray[command.wire].decl = command.decl

OnRecord(w, s) ==
    /\ s.wire = w /\ s.state \notin {"pending", "restored", "released_empty"} /\ s.writes /\ ~ s.tagged
    /\ tray[w].decl = s.target
    /\ fresh /\ (s.same \/ s.old) /\ ~ (Awaited(w) /\ group.enabled) => seen[w].decl = tray[w].decl

AliasOnRecord ==
    \A w \in Wires : ours[w] => Takes(w) /\ \E i \in DOMAIN group.steps : OnRecord(w, group.steps[i])

AliasInv == Shaped /\ Unedited /\ Driven /\ LeftOver /\ AliasOnRecord

LEMMA InitAlias == ASSUME RefillInit, FewEdits PROVE AliasInv
<1>1. /\ group = NoGroup /\ DOMAIN NoGroup.steps = {} /\ drive.at = "none" /\ command = NoCommand /\ fresh = FALSE
      /\ seen = [w \in Wires |-> Unseen] /\ ours = [w \in Wires |-> FALSE] /\ budget \in Troubles
  BY DEF RefillInit, NoGroup, NoDrive
<1>2. budget["declare"] = 0 \/ (budget["declare"] = 1 /\ budget["unload"] = 0)
  BY <1>1 DEF FewEdits
<1>3. Unseen.spool = NoSpool
  BY DEF Unseen
<1>4. Shaped /\ Driven /\ LeftOver /\ AliasOnRecord
  BY <1>1 DEF Shaped, Driven, LeftOver, AliasOnRecord
<1>5. Unedited
  BY <1>1, <1>2, <1>3 DEF Unedited, Awaited
<1> QED
  BY <1>4, <1>5 DEF AliasInv

(***************************************************************************)
(* The steps.                                                               *)
(***************************************************************************)
\* Which declarations and which source a step is about never changes; a source is only ever
\* retired, but for its adoption after a restart.
LEMMA ShapedKept ==
    ASSUME RefillInv, RefillNext, Shaped
    PROVE  Shaped'
<1>1. RefillTyped /\ group \in GroupRec /\ group.enabled \in BOOLEAN
  BY DEF RefillInv, RefillTyped, GroupTyped, GroupRec
<1>2. \A i \in DOMAIN group.steps : group.steps[i] \in StepRec
  BY <1>1, StepAt
<1> DEFINE Like(s, t) == /\ t.writes = s.writes /\ t.before = s.before /\ t.target = s.target
                         /\ t.tagged = s.tagged /\ t.spool = s.spool
                         /\ t.old /\ t.same => s.old /\ s.same
           Live == {"pending", "applying", "owned", "uncertain", "conflict"}
<1>3. ASSUME DOMAIN group'.steps = DOMAIN group.steps, group'.enabled => group.enabled,
             \A i \in DOMAIN group.steps :
                 /\ Like(group.steps[i], group'.steps[i])
                 /\ group'.enabled => group'.steps[i].state \in Live \cup {group.steps[i].state}
      PROVE  Shaped'
  BY <1>3 DEF Shaped
<1>4. ASSUME NEW x, NEW y, drive.index \in DOMAIN group.steps, Saved(x, y), group.enabled => x \in Live \cup {Step.state}
      PROVE  Shaped'
  <2>1. \A i \in DOMAIN group.steps :
            /\ Like(group.steps[i], group'.steps[i])
            /\ group'.enabled => group'.steps[i].state \in Live \cup {group.steps[i].state}
    BY <1>2, <1>4 DEF Saved, Step, StepRec
  <2> QED
    BY <1>3, <1>4, <2>1 DEF Saved
<1>5. CASE Wrote /\ drive.index \in DOMAIN group.steps
  <2>1. \A i \in DOMAIN group.steps :
            /\ Like(group.steps[i], group'.steps[i])
            /\ group'.enabled => group'.steps[i].state \in Live \cup {group.steps[i].state}
    <3>1. PICK y, c : group'.steps[drive.index] = [group.steps[drive.index] EXCEPT !.state = y, !.restores = c]
                      /\ (group.enabled => y = "applying")
      BY <1>5 DEF Wrote, Step
    <3>2. ASSUME NEW s \in StepRec, NEW x, NEW b
          PROVE  LET t == [s EXCEPT !.state = x, !.restores = b] IN Like(s, t) /\ t.state = x
      BY DEF StepRec
    <3>3. Like(group.steps[drive.index], group'.steps[drive.index])
          /\ (group.enabled => group'.steps[drive.index].state = "applying")
      BY <1>2, <1>5, <3>1, <3>2
    <3> QED
      BY <1>1, <1>5, <3>3 DEF Wrote
  <2> QED
    BY <1>3, <1>5, <2>1 DEF Wrote
<1>6. ASSUME NEW g \in GroupRec, g.steps = group.steps, g.enabled => group.enabled, group' = Retried(g)
      PROVE  Shaped'
  <2>1. RetriedAs(g, group')
    BY <1>6, RetriedIs
  <2>2. ASSUME NEW s \in StepRec, NEW t, RetriedStep(s, t)
        PROVE  Like(s, t) /\ (~ s.restores => t.state \in Live \cup {s.state})
    BY <2>2 DEF RetriedStep, StepRec
  <2>3. \A i \in DOMAIN group.steps : group.enabled => ~ group.steps[i].restores
    BY DEF RefillInv, OnlyRemovalRestores
  <2> HIDE DEF Like
  <2>4. \A i \in DOMAIN group.steps :
            /\ Like(group.steps[i], group'.steps[i])
            /\ group'.enabled => group'.steps[i].state \in Live \cup {group.steps[i].state}
    BY <1>2, <1>6, <2>1, <2>2, <2>3 DEF RetriedAs
  <2> QED
    BY <1>3, <1>6, <2>1, <2>4 DEF RetriedAs
<1>7. ASSUME NEW pair \in Pairs, NEW c \in Colours, Plans(pair, c) PROVE Shaped'
  <2>1. /\ DOMAIN group'.steps = 1 .. 2
        /\ \A i \in 1 .. 2 : \E w \in Wires, t \in Declarations : group'.steps[i] = NewStep(w, w, t)
    BY <1>1, <1>7, PlansTypes
  <2>2. \A w, t : LET s == NewStep(w, w, t)
                  IN  /\ s.writes = (s.before # s.target) /\ (s.tagged => s.spool \in Tagged)
                      /\ s.old = FALSE /\ s.state = "pending"
    BY ZenonT(40) DEF NewStep
  <2> QED
    BY <2>1, <2>2 DEF Shaped
<1>8. CASE Owner
  <2>1. ASSUME NEW pair \in Pairs, SetBackup(pair) PROVE Shaped'
    <3>1. seen[Anchor(pair)].decl.colour \in Colours
      BY <1>1 DEF Pairs, Anchor, RefillTyped, ReportsTyped, Trays, Declarations
    <3> QED
      BY <1>1, <1>6, <1>7, <2>1, <3>1 DEF SetBackup
  <2>2. ASSUME NEW pair \in Pairs, NEW c \in Colours, PlanRefill(pair, c) PROVE Shaped'
    BY <1>7, <2>2 DEF PlanRefill
  <2>3. CASE Disable
    BY <1>1, <1>3, <2>3, DisabledIs DEF Disable
  <2>4. CASE RemoveBackup
    <3>1. CASE group' = Retried(Disabled(group))
      BY <1>1, <1>6, <3>1, DisabledIs
    <3>2. CASE group' = Retried(group)
      BY <1>1, <1>6, <3>2
    <3>3. CASE group' = group
      BY <3>3 DEF Shaped
    <3> QED
      BY <2>4, <3>1, <3>2, <3>3 DEF RemoveBackup
  <2>5. CASE RemoveEnds
    <3>1. ReleasedAs(group, group')
      BY <1>1, <2>5, ReleasedIs DEF RemoveEnds
    <3>2. \A i \in DOMAIN group.steps : /\ Like(group.steps[i], group'.steps[i])
                                        /\ group.enabled => group'.steps[i] = group.steps[i]
      <4>1. ASSUME NEW s \in StepRec PROVE Like(s, s) /\ Like(s, [s EXCEPT !.state = "released"])
        BY DEF StepRec
      <4>2. \A i \in DOMAIN group.steps :
                \/ group'.steps[i] = group.steps[i]
                \/ ~ group.enabled /\ group'.steps[i] = [group.steps[i] EXCEPT !.state = "released"]
        BY <3>1 DEF ReleasedAs
      <4> HIDE DEF Like
      <4> QED
        BY <1>2, <4>1, <4>2, ZenonT(40)
    <3> QED
      BY <1>3, <3>1, <3>2 DEF ReleasedAs, Follows
  <2>6. ASSUME NEW i \in DOMAIN group.steps, Reconcile(i) \/ Release(i) PROVE Shaped'
    <3>1. \E state \in StepStates : Reviewed(i, state) /\ (group.enabled => state = "owned")
      BY <2>6 DEF Reconcile, Release, StepStates, SETTLED, RefillInv, OnlyRemovalRestores
    <3>2. PICK state \in StepStates : Settles(i, state) /\ (group.enabled => state = "owned")
      BY <1>1, <3>1, ReviewedIs
    <3>3. \A j \in DOMAIN group.steps :
              /\ Like(group.steps[j], group'.steps[j])
              /\ group.enabled => group'.steps[j].state \in Live \cup {group.steps[j].state}
      BY <1>2, <3>2 DEF Settles, StepRec
    <3> QED
      BY <1>3, <3>2, <3>3 DEF Settles
  <2>7. CASE ExecuteRefill
    BY <2>7 DEF ExecuteRefill, Shaped
  <2> QED
    BY <1>8, <2>1, <2>2, <2>3, <2>4, <2>5, <2>6, <2>7 DEF Owner
<1>9. CASE Driving
  <2>1. CASE DriveStep
    <3>1. DriveStepAs /\ drive.index \in DOMAIN group.steps
      BY <1>1, <2>1, DriveStepIs DEF DriveStepAs
    <3>2. CASE group' = group
      BY <3>2 DEF Shaped
    <3> QED
      BY <1>4, <1>5, <3>1, <3>2 DEF DriveStepAs, Achieved
  <2>2. CASE NotSent \/ DriveConfirms \/ DriveGivesUp
    <3>1. drive.index \in DOMAIN group.steps
      BY <1>1, <2>2 DEF RefillTyped, DriveTyped, NotSent, DriveConfirms, DriveGivesUp
    <3>2. \E x \in StepStates, y \in GroupStates : Save(x, y) /\ (group.enabled => x \in Live)
      BY <2>2 DEF NotSent, DriveConfirms, DriveGivesUp, Waiting, Achieved, StepStates, SETTLED, GroupStates
    <3> QED
      BY <1>1, <1>4, <3>1, <3>2, SaveIs
  <2>3. CASE DriveEnds \/ DriveSends
    <3>1. group'.steps = group.steps /\ group'.enabled = group.enabled
      BY <1>1, <2>3 DEF DriveEnds, DriveSends, GroupRec
    <3> QED
      BY <3>1 DEF Shaped
  <2> QED
    BY <1>9, <2>1, <2>2, <2>3 DEF Driving
<1>10. CASE Worker
  <2>1. group' = group \/ NotedAs(group, group')
    BY <1>1, <1>10, NotedIs DEF Worker, WorkerListens, WorkerDrives
  <2>2. CASE NotedAs(group, group')
    <3>1. \A i \in DOMAIN group.steps : /\ Like(group.steps[i], group'.steps[i])
                                        /\ group.enabled => group'.steps[i].state = group.steps[i].state
      BY <2>2 DEF NotedAs, NotedStep, Alike
    <3> QED
      BY <1>3, <2>2, <3>1 DEF NotedAs, Follows
  <2> QED
    BY <2>1, <2>2 DEF Shaped
<1>11. CASE Reports
  <2>1. PICK g, h \in GroupRec : RetiredAs(group, g) /\ group' = h /\ (h = g \/ (~ Locked /\ NotedAs(g, h)'))
    BY <1>1, <1>11, ReportsIs
  <2>2. ASSUME NEW i \in DOMAIN group.steps
        PROVE  Like(group.steps[i], g.steps[i]) /\ g.steps[i].state = group.steps[i].state
    <3>1. group.steps[i] \in StepRec
          /\ g.steps[i] = [group.steps[i] EXCEPT !.same = group.steps[i].same /\ ~ Retires(group.steps[i].wire)]
      BY <1>2, <2>1 DEF RetiredAs
    <3> QED
      BY <3>1 DEF StepRec
  <2>3. ASSUME NEW i \in DOMAIN group.steps
        PROVE  Like(g.steps[i], h.steps[i]) /\ (group.enabled => h.steps[i].state = g.steps[i].state)
    BY <2>1 DEF RetiredAs, NotedAs, Follows, NotedStep, Alike
  <2>4. DOMAIN group'.steps = DOMAIN group.steps /\ group'.enabled = group.enabled
    BY <2>1 DEF RetiredAs, NotedAs, Follows
  <2> QED
    BY <1>3, <2>1, <2>2, <2>3, <2>4
<1>12. CASE World
  <2>1. CASE Restart
    <3>1. RestartedAs(group, group')
      BY <1>1, <2>1, RestartIs
    <3>2. \A i \in DOMAIN group.steps :
              /\ Like(group.steps[i], group'.steps[i])
              /\ group'.steps[i].state \in Live \cup {group.steps[i].state}
      <4>1. ASSUME NEW s \in StepRec
            PROVE  Like(s, Interrupted(s)) /\ Interrupted(s).state \in Live \cup {s.state}
        BY DEF StepRec, Interrupted
      <4> QED
        BY <1>2, <3>1, <4>1 DEF RestartedAs
    <3> QED
      BY <1>3, <3>1, <3>2 DEF RestartedAs
  <2>2. group' = group \/ Restart
    BY <1>12 DEF World, Lands, PrinterTurns, LinkLost, LinkBack, Silence, Unloads, OwnerDeclares, Loads,
                 Changes, taskVars
  <2> QED
    BY <2>1, <2>2 DEF Shaped
<1> QED
  BY <1>8, <1>9, <1>10, <1>11, <1>12 DEF RefillNext

\* Someone is at the printer.
AtPrinter ==
    \E w \in Wires : Unloads(w) \/ (\E d \in Declarations : OwnerDeclares(w, d))
                                \/ (\E sp \in Spools : Loads(w, sp))

\* Only a drive's own steps move it on, and nothing but a send, a report, a restart, the printer's
\* answer and people change what the bridge awaits.
LEMMA QuietSteps ==
    ASSUME RefillInv, RefillNext, ~ DriveSends, ~ Reports, ~ Restart, ~ Lands, ~ AtPrinter
    PROVE  /\ tray' = tray /\ seen' = seen /\ expected' = expected /\ (fresh' => fresh)
           /\ budget'["declare"] = budget["declare"] /\ budget'["unload"] = budget["unload"]
           /\ \/ DriveConfirms \/ DriveGivesUp
              \/ DriveStep
              \/ /\ command' = command
                 /\ drive'.at \in {"send", "wait"} => drive' = drive /\ group' = group
                 /\ drive.at = "wait" => drive' = drive
<1>1. budget \in [Events -> Nat] /\ NoDrive.at = "none"
  BY DEF RefillInv, RefillTyped, NoDrive
<1>2. CASE Owner
  <2>1. tray' = tray /\ seen' = seen /\ expected' = expected /\ fresh' = fresh /\ budget' = budget /\ command' = command
    BY <1>2 DEF Owner, SetBackup, PlanRefill, ExecuteRefill, Disable, RemoveBackup, RemoveEnds, Reconcile, Release,
                amsVars, reportVars
  <2>2. CASE Locked
    <3>1. drive' = drive /\ group' = group
      BY <1>2, <2>2 DEF Owner, SetBackup, PlanRefill, ExecuteRefill, Disable, RemoveBackup, RemoveEnds, Reconcile, Release,
                        Serving
    <3> QED
      BY <2>1, <3>1
  <2>3. CASE ~ Locked
    <3>1. drive.at = "none"
      BY <1>1, <2>3 DEF Locked
    <3>2. drive' = drive \/ drive'.at = "step"
      BY <1>2 DEF Owner, SetBackup, PlanRefill, ExecuteRefill, Disable, RemoveBackup, RemoveEnds, Reconcile, Release,
                  taskVars, Drives
    <3> QED
      BY <2>1, <3>1, <3>2
  <2> QED
    BY <2>2, <2>3
<1>3. CASE Driving
  <2>1. tray' = tray /\ seen' = seen /\ expected' = expected /\ fresh' = fresh
    BY <1>3 DEF Driving, DriveStep, NotSent, DriveConfirms, DriveGivesUp, DriveEnds, amsVars, reportVars
  <2>2. budget'["declare"] = budget["declare"] /\ budget'["unload"] = budget["unload"]
    BY <1>1, <1>3 DEF Driving, DriveStep, NotSent, DriveConfirms, DriveGivesUp, DriveEnds, Spend, Events
  <2>3. CASE NotSent \/ DriveEnds
    <3>1. command' = command /\ drive'.at = "none" /\ drive.at # "wait"
      BY <1>1, <2>3 DEF NotSent, DriveEnds, Leave
    <3> QED
      BY <2>1, <2>2, <3>1
  <2> QED
    BY <1>3, <2>1, <2>2, <2>3 DEF Driving
<1>4. CASE Worker
  <2>1. tray' = tray /\ seen' = seen /\ expected' = expected /\ fresh' = fresh /\ budget' = budget /\ command' = command
    BY <1>4 DEF Worker, WorkerListens, WorkerDrives, amsVars, reportVars
  <2>2. CASE WorkerListens
    <3>1. drive' = drive /\ (Locked => group' = group)
      BY <2>2 DEF WorkerListens
    <3> QED
      BY <1>1, <2>1, <3>1 DEF Locked
  <2>3. CASE WorkerDrives
    <3>1. drive'.at = "step" /\ drive.at = "none"
      BY <1>1, <2>3 DEF WorkerDrives, Drives, Locked
    <3> QED
      BY <2>1, <3>1
  <2> QED
    BY <1>4, <2>2, <2>3 DEF Worker
<1>5. CASE World
  <2>1. /\ tray' = tray /\ seen' = seen /\ expected' = expected /\ (fresh' => fresh)
        /\ command' = command /\ drive' = drive /\ group' = group
    BY <1>5 DEF World, AtPrinter, PrinterTurns, LinkLost, LinkBack, Silence, reportVars, taskVars, amsVars
  <2>2. budget'["declare"] = budget["declare"] /\ budget'["unload"] = budget["unload"]
    BY <1>1, <1>5 DEF World, AtPrinter, PrinterTurns, LinkLost, LinkBack, Silence, Spend, Events
  <2> QED
    BY <2>1, <2>2
<1> QED
  BY <1>2, <1>3, <1>4, <1>5 DEF RefillNext

\* What a drive's wait is about, and who ends it.
LEMMA DriveTypes ==
    ASSUME RefillInv
    PROVE  /\ drive.at \in {"none", "step", "send", "wait"}
           /\ drive.at \in {"send", "wait"} =>
                 /\ drive.index \in DOMAIN group.steps /\ Step \in StepRec /\ Step.wire \in Wires
                 /\ Desired(Step) = (IF group.enabled THEN Step.target ELSE Step.before)
           /\ group.enabled \in BOOLEAN /\ (fresh => link)
BY StepAt DEF RefillInv, RefillTyped, ReportsTyped, GroupTyped, GroupRec, DriveTyped, Drive, NoDrive, Step, StepRec,
              Desired

\* Where a report meets a slot the bridge has declared, the source stays.
LEMMA UneditedKept ==
    ASSUME RefillInv, AliasInv, RefillNext, ~ LateLands
    PROVE  Unedited'
<1>1. /\ RefillTyped /\ budget \in [Events -> Nat] /\ NoDrive.at = "none"
      /\ tray \in [Wires -> Trays] /\ seen \in [Wires -> Trays] /\ expected \in [Wires -> Expected]
  BY DEF RefillInv, RefillTyped, ReportsTyped, NoDrive
<1>2. Shaped /\ Unedited /\ Driven /\ LeftOver
  BY DEF AliasInv
<1> SUFFICES ASSUME budget'["declare"] # 0
    PROVE  /\ budget'["declare"] = 1 /\ budget'["unload"] = 0
           /\ command' # NoCommand => drive'.at = "wait"
           /\ \A w \in Wires :
               /\ seen'[w].spool # NoSpool => seen'[w].spool = tray'[w].spool
               /\ fresh' /\ ~ Awaited(w)' => seen'[w].decl = tray'[w].decl
               /\ Awaited(w)' =>
                      /\ Step'.same /\ seen'[w].spool # NoSpool
                      /\ tray'[w].decl # seen'[w].decl => tray'[w].decl = Desired(Step)' /\ Announced(w)'
                      /\ command' # NoCommand => /\ tray'[w].decl = seen'[w].decl /\ Announced(w)'
                                                 /\ seen'[w].decl # Desired(Step)'
  BY DEF Unedited
<1>3. CASE DriveSends
  <2>1. /\ drive.at = "send" /\ drive'.at = "wait" /\ Step' = Step /\ Step.wire \in Wires /\ group' = group
        /\ seen' = seen /\ tray' = tray /\ budget' = budget /\ fresh /\ fresh' = fresh
        /\ Desired(Step)' = Desired(Step) /\ Shown(Step.wire)
        /\ expected'[Step.wire] = [is |-> TRUE, decl |-> Desired(Step)]
    BY <1>1, <1>3, DriveTypes DEF DriveSends, Idle, Step, amsVars, Desired, RefillTyped, DriveTyped, Drive, NoDrive
  <2>2. Step.same /\ seen[Step.wire].decl # Desired(Step)
    BY <1>2, <2>1 DEF Driven
  <2>3. \A w \in Wires : ~ Awaited(w) /\ (Awaited(w)' => w = Step.wire)
    BY <2>1 DEF Awaited
  <2>4. seen[Step.wire].spool # NoSpool
    BY <2>1 DEF Shown
  <2> QED
    BY <1>2, <2>1, <2>2, <2>3, <2>4 DEF Unedited, Announced
<1>4. CASE Reports
  <2>1. /\ seen' = tray /\ tray' = tray /\ budget' = budget /\ command' = command /\ drive' = drive
        /\ drive.at # "none" => Locked
    BY <1>1, <1>4 DEF Reports, Locked
  <2>2. PICK g \in GroupRec : RetiredAs(group, g) /\ (drive.at = "wait" => group' = g)
    BY <1>1, <1>4, <2>1, ReportsIs
  <2>3. ASSUME NEW w \in Wires, Awaited(w)'
        PROVE  /\ Awaited(w) /\ Step'.same /\ Step'.wire = w /\ Desired(Step)' = Desired(Step)
               /\ seen[w].spool # NoSpool /\ seen[w].spool = tray[w].spool
               /\ (command # NoCommand => expected'[w] = expected[w])
    <3>1. drive.at = "wait" /\ group' = g /\ drive.index \in DOMAIN group.steps /\ Step \in StepRec
      BY <2>1, <2>2, <2>3, DriveTypes DEF Awaited
    <3>2. Step' = [Step EXCEPT !.same = Step.same /\ ~ Retires(Step.wire)]
      BY <2>1, <2>2, <3>1 DEF RetiredAs, Step
    <3>3. /\ Step'.wire = Step.wire /\ Step'.target = Step.target /\ Step'.before = Step.before
          /\ Step'.same = (Step.same /\ ~ Retires(Step.wire)) /\ group'.enabled = group.enabled
      BY <2>2, <3>1, <3>2 DEF StepRec, RetiredAs
    <3>4. Awaited(w) /\ Desired(Step)' = Desired(Step) /\ w = Step.wire
      BY <2>1, <2>3, <3>1, <3>3 DEF Awaited, Desired
    <3>5. /\ Step.same /\ seen[w].spool # NoSpool /\ seen[w].spool = tray[w].spool
          /\ tray[w].decl # seen[w].decl => tray[w].decl = Desired(Step) /\ Announced(w)
          /\ command # NoCommand => /\ tray[w].decl = seen[w].decl /\ Announced(w)
                                    /\ seen[w].decl # Desired(Step)
      BY <1>2, <2>1, <3>4 DEF Unedited
    <3>6. ~ Retires(w)
      BY <3>5 DEF Retires, Announced, TagIn
    <3>7. command # NoCommand => expected'[w] = expected[w]
      BY <1>4, <3>5, <3>6 DEF Reports, Announced
    <3> QED
      BY <3>3, <3>4, <3>5, <3>6, <3>7
  <2>4. budget["declare"] = 1 /\ budget["unload"] = 0 /\ (command # NoCommand => drive.at = "wait")
    BY <1>2, <2>1 DEF Unedited
  <2>5. ASSUME NEW w \in Wires, Awaited(w)', command' # NoCommand
        PROVE  Announced(w)' /\ seen'[w].decl # Desired(Step)'
    <3>1. /\ tray[w].decl = seen[w].decl /\ Announced(w) /\ seen[w].decl # Desired(Step)
      BY <1>2, <2>1, <2>3, <2>5 DEF Unedited
    <3> QED
      BY <2>1, <2>3, <2>5, <3>1 DEF Announced
  <2> QED
    BY <2>1, <2>3, <2>4, <2>5
<1>5. CASE Restart
  <2>1. /\ command' = NoCommand /\ drive'.at = "none" /\ fresh' = FALSE /\ tray' = tray
        /\ \A w \in Wires : seen'[w].spool = NoSpool
    BY <1>1, <1>5 DEF Restart, Unanswered, amsVars, Unseen
  <2>2. budget'["declare"] = budget["declare"] /\ budget'["unload"] = budget["unload"]
    BY <1>1, <1>5 DEF Restart, Spend, Events
  <2> QED
    BY <1>2, <2>1, <2>2 DEF Unedited, Awaited
<1>6. CASE Lands
  <2>1. /\ command # NoCommand /\ command' = NoCommand /\ budget' = budget /\ drive' = drive /\ group' = group
        /\ seen' = seen /\ fresh' = fresh /\ expected' = expected
    BY <1>6 DEF Lands, reportVars, taskVars, NoCommand
  <2>2. drive.at = "wait" /\ command.wire = Step.wire /\ command.decl = Desired(Step) /\ Announced(Step.wire)
        /\ Step.wire \in Wires
    BY <1>2, <2>1, DriveTypes DEF Unedited, Driven, Awaited
  <2>3. \A w \in Wires : /\ tray'[w].spool = tray[w].spool
                         /\ tray'[w].decl = tray[w].decl \/ (w = Step.wire /\ tray'[w].decl = Desired(Step))
    BY <1>1, <1>6, <2>2 DEF Lands, Trays
  <2>4. \A w \in Wires : Awaited(w)' = Awaited(w) /\ Announced(w)' = Announced(w)
    BY <2>1 DEF Awaited, Announced, Step, Desired
  <2>5. Step' = Step /\ Desired(Step)' = Desired(Step)
    BY <2>1 DEF Step, Desired
  <2>6. \A w \in Wires : Awaited(w) <=> w = Step.wire
    BY <2>2 DEF Awaited
  <2> QED
    BY <1>2, <2>1, <2>2, <2>3, <2>4, <2>5, <2>6 DEF Unedited
<1>7. CASE AtPrinter
  <2>1. /\ drive' = drive /\ group' = group /\ seen' = seen /\ fresh' = fresh /\ expected' = expected
    BY <1>7 DEF AtPrinter, Unloads, OwnerDeclares, Loads, Changes, reportVars, taskVars
  <2>2. /\ budget["declare"] # 0 /\ budget'["declare"] = budget["declare"] /\ budget'["unload"] = budget["unload"]
        /\ \E v \in Wires, s \in Spools : Loads(v, s)
    <3>1. PICK v \in Wires : Unloads(v) \/ (\E d \in Declarations : OwnerDeclares(v, d))
                             \/ (\E s \in Spools : Loads(v, s))
      BY <1>7 DEF AtPrinter
    <3>2. ~ Unloads(v)
      BY <1>1, <1>2 DEF Unloads, Spend, Unedited, Events
    <3>3. ASSUME NEW d \in Declarations, OwnerDeclares(v, d) PROVE FALSE
      BY <1>1, <1>2, <3>3 DEF OwnerDeclares, Spend, Unedited, Events
    <3>4. PICK s \in Spools : Loads(v, s)
      BY <3>1, <3>2, <3>3
    <3> QED
      BY <1>1, <3>4 DEF Loads, Spend, Events
  <2>3. PICK v \in Wires, s \in Spools : Loads(v, s)
    BY <2>2
  <2>4. /\ command' = command /\ tray[v].spool = NoSpool
        /\ \A w \in Wires : tray'[w].decl = tray[w].decl /\ (w # v => tray'[w].spool = tray[w].spool)
    BY <1>1, <2>3 DEF Loads, Changes, Trays
  <2>5. \A w \in Wires : Awaited(w)' = Awaited(w) /\ Announced(w)' = Announced(w)
    BY <2>1 DEF Awaited, Announced, Step, Desired
  <2>6. Step' = Step /\ Desired(Step)' = Desired(Step)
    BY <2>1 DEF Step, Desired
  <2> QED
    BY <1>2, <2>1, <2>2, <2>4, <2>5, <2>6 DEF Unedited
<1>8. CASE ~ DriveSends /\ ~ Reports /\ ~ Restart /\ ~ Lands /\ ~ AtPrinter
  <2>1. /\ tray' = tray /\ seen' = seen /\ expected' = expected /\ (fresh' => fresh)
        /\ budget'["declare"] = budget["declare"] /\ budget'["unload"] = budget["unload"]
    BY <1>8, QuietSteps
  <2>2. CASE DriveConfirms \/ DriveGivesUp
    <3>1. drive.at = "wait" /\ drive'.at # "wait" /\ drive.index \in DOMAIN group.steps /\ Step.wire \in Wires
      BY <1>1, <2>2, DriveTypes DEF DriveConfirms, DriveGivesUp, Onward, Leave, RefillTyped, DriveTyped, Drive, NoDrive
    <3>2. CASE DriveConfirms
      <4>1. /\ command' = command /\ command = NoCommand /\ tray[Step.wire].decl = seen[Step.wire].decl
        BY <1>2, <2>1, <3>1, <3>2 DEF DriveConfirms, ReadBack, Current, Unedited, Awaited
      <4> QED
        BY <1>2, <2>1, <3>1, <4>1 DEF Unedited, Awaited
    <3>3. CASE DriveGivesUp
      <4>1. command' = NoCommand
        BY <3>3 DEF DriveGivesUp, Unanswered
      <4>2. fresh' => tray[Step.wire].decl = seen[Step.wire].decl
        <5>1. ~ link \/ ~ Step.same \/ (command = NoCommand /\ tray[Step.wire].decl # Desired(Step)) \/ command # NoCommand
          BY <3>3 DEF DriveGivesUp
        <5> QED
          BY <1>2, <2>1, <3>1, <5>1, DriveTypes DEF Unedited, Awaited
      <4> QED
        BY <1>2, <2>1, <3>1, <4>1, <4>2 DEF Unedited, Awaited
    <3> QED
      BY <2>2, <3>2, <3>3
  <2>3. CASE DriveStep
    <3>1. command' = command /\ drive.at = "step" /\ drive'.at # "wait"
      BY <1>1, <2>3 DEF DriveStep, Onward, Leave, LeaveOrOnward, RefillTyped, DriveTyped, Drive, NoDrive
    <3> QED
      BY <1>2, <2>1, <3>1 DEF Unedited, Awaited
  <2>4. CASE /\ command' = command
             /\ drive'.at \in {"send", "wait"} => drive' = drive /\ group' = group
             /\ drive.at = "wait" => drive' = drive
    <3>1. drive'.at = "wait" <=> drive.at = "wait"
      BY <2>4
    <3>2. drive.at = "wait" => /\ Step' = Step /\ Desired(Step)' = Desired(Step)
                              /\ \A w \in Wires : Announced(w)' = Announced(w)
      BY <2>1, <2>4 DEF Step, Desired, Announced
    <3>3. \A w \in Wires : Awaited(w)' = Awaited(w)
      BY <3>1, <3>2 DEF Awaited
    <3>4. \A w \in Wires : Awaited(w) => drive.at = "wait"
      BY DEF Awaited
    <3> QED
      BY <1>2, <2>1, <2>4, <3>1, <3>2, <3>3, <3>4 DEF Unedited
  <2> QED
    BY <1>8, <2>2, <2>3, <2>4, QuietSteps
<1> QED
  BY <1>3, <1>4, <1>5, <1>6, <1>7, <1>8

\* Only a write puts an alias on a spool.
LEMMA OursOnlyLand ==
    ASSUME RefillInv, RefillNext, ~ Lands, NEW w \in Wires, ours'[w]
    PROVE  ours[w]
<1>1. ours \in [Wires -> BOOLEAN]
  BY DEF RefillInv, RefillTyped
<1>2. CASE Owner
  BY <1>1, <1>2 DEF Owner, SetBackup, PlanRefill, Plans, ExecuteRefill, Disable, RemoveBackup, RemoveEnds, Reconcile,
                    Release, history
<1>3. CASE Driving
  BY <1>3 DEF Driving, DriveStep, DriveSends, NotSent, DriveConfirms, DriveGivesUp, DriveEnds, history
<1>4. CASE Worker \/ Reports
  BY <1>4 DEF Worker, WorkerListens, WorkerDrives, Reports, history
<1>5. CASE World
  BY <1>1, <1>5 DEF World, PrinterTurns, LinkLost, LinkBack, Silence, Restart, Unloads, OwnerDeclares, Loads, Changes,
                    history
<1> QED
  BY <1>2, <1>3, <1>4, <1>5 DEF RefillNext

\* Which write a drive sends, and for whom.
LEMMA DrivenKept ==
    ASSUME RefillInv, AliasInv, RefillNext, ~ LateLands
    PROVE  Driven'
<1>1. /\ RefillTyped /\ NoDrive.at = "none" /\ tray \in [Wires -> Trays] /\ seen \in [Wires -> Trays]
      /\ ours \in [Wires -> BOOLEAN]
  BY DEF RefillInv, RefillTyped, ReportsTyped, NoDrive
<1>2. Shaped /\ Unedited /\ Driven /\ LeftOver /\ AliasOnRecord
  BY DEF AliasInv
<1> DEFINE SendOK(w) == Step.same /\ seen[w].decl # Desired(Step) /\ (group.enabled => ~ ours[w])
           WaitOK(w) == /\ command.wire = w /\ command.decl = Desired(Step)
                        /\ seen[w].decl = Desired(Step) => tray[w].decl = Desired(Step)
                        /\ command.alias => group.enabled /\ Takes(w)
                        /\ group.enabled => ~ ours[w]
\* A step of the world, or a report, while the drive sends or waits.
<1>3. ASSUME drive' = drive, group' = group, \A w \in Wires : ours'[w] => ours[w], seen' = seen, fresh' => fresh,
             tray' = tray, command' = command
      PROVE  Driven'
  <2>1. CASE drive.at \in {"send", "wait"}
    <3>1. Step' = Step /\ Desired(Step)' = Desired(Step) /\ Step.wire \in Wires
      BY <1>3, <2>1, DriveTypes DEF Step, Desired
    <3>2. Takes(Step.wire) => Takes(Step.wire)'
      BY <1>3, <3>1 DEF Takes
    <3> QED
      BY <1>2, <1>3, <2>1, <3>1, <3>2 DEF Driven
  <2>2. CASE drive.at \notin {"send", "wait"}
    BY <1>3, <2>2 DEF Driven
  <2> QED
    BY <2>1, <2>2
<1>4. ASSUME drive'.at \notin {"send", "wait"} PROVE Driven'
  BY <1>4 DEF Driven
<1>5. CASE DriveSends
  <2>1. /\ drive.at = "send" /\ drive'.at = "wait" /\ Step' = Step /\ Step.wire \in Wires /\ group' = group
        /\ seen' = seen /\ tray' = tray /\ fresh' = fresh /\ Desired(Step)' = Desired(Step) /\ ours' = ours
        /\ Shown(Step.wire) /\ Editable(Step.wire)
        /\ command'.wire = Step.wire /\ command'.decl = Desired(Step)
        /\ command'.alias = (group.enabled /\ tray[Step.wire].spool = seen[Step.wire].spool)
    BY <1>1, <1>5, DriveTypes DEF DriveSends, Idle, Step, amsVars, Desired, RefillTyped, DriveTyped, Drive, NoDrive
  <2>2. SendOK(Step.wire) /\ ~ Step.tagged /\ ~ Step.old /\ (group.enabled => Step.writes)
    BY <1>2, <2>1 DEF Driven
  <2>3. command'.alias => group.enabled /\ Takes(Step.wire)
    BY <2>1 DEF Takes, Shown, Editable
  <2>4. Takes(Step.wire)' = Takes(Step.wire)
    BY <2>1 DEF Takes
  <2> QED
    BY <2>1, <2>2, <2>3, <2>4 DEF Driven
<1>6. CASE Reports
  <2>1. CASE drive.at = "wait"
    <3>1. /\ seen' = tray /\ tray' = tray /\ command' = command /\ drive' = drive /\ ours' = ours /\ Locked
      BY <1>1, <1>6, <2>1 DEF Reports, Locked
    <3>2. PICK g \in GroupRec : RetiredAs(group, g) /\ group' = g
      BY <1>1, <1>6, <3>1, ReportsIs
    <3>3. drive.index \in DOMAIN group.steps /\ Step \in StepRec
      BY <2>1, DriveTypes
    <3>4. Step' = [Step EXCEPT !.same = Step.same /\ ~ Retires(Step.wire)]
      BY <3>1, <3>2, <3>3 DEF RetiredAs, Step
    <3>5. /\ Step'.wire = Step.wire /\ Step'.target = Step.target /\ Step'.before = Step.before
          /\ Step'.tagged = Step.tagged /\ Step'.old = Step.old /\ Step'.writes = Step.writes
          /\ group'.enabled = group.enabled
      BY <3>2, <3>3, <3>4 DEF StepRec, RetiredAs
    <3>6. Desired(Step)' = Desired(Step)
      BY <3>5 DEF Desired
    <3>7. Takes(Step.wire) => Takes(Step.wire)'
      BY <3>1, <3>5 DEF Takes
    <3>8. /\ ~ Step.tagged /\ ~ Step.old /\ (group.enabled => Step.writes)
          /\ command # NoCommand => WaitOK(Step.wire)
      BY <1>2, <2>1 DEF Driven
    <3> QED
      BY <2>1, <3>1, <3>5, <3>6, <3>7, <3>8 DEF Driven
  <2>2. CASE drive.at # "wait"
    <3>1. drive'.at \notin {"send", "wait"}
      BY <1>6, <2>2 DEF Reports, taskVars, Running
    <3> QED
      BY <1>4, <3>1
  <2> QED
    BY <2>1, <2>2
<1>7. CASE Restart
  BY <1>1, <1>4, <1>7 DEF Restart
<1>8. CASE Lands
  <2>1. /\ command # NoCommand /\ command' = NoCommand /\ drive' = drive /\ group' = group
        /\ seen' = seen /\ fresh' = fresh
    BY <1>8 DEF Lands, reportVars, taskVars, NoCommand
  <2>2. CASE drive.at = "wait"
    <3>1. Step' = Step
      BY <2>1 DEF Step
    <3> QED
      BY <1>2, <2>1, <2>2, <3>1 DEF Driven
  <2>3. CASE drive.at = "send"
    <3>1. tray[command.wire].decl = command.decl
      BY <1>2, <2>1, <2>3 DEF LeftOver
    <3>2. tray' = tray /\ ours' = ours
      BY <1>8, <3>1 DEF Lands
    <3>3. Step' = Step /\ Desired(Step)' = Desired(Step)
      BY <2>1 DEF Step, Desired
    <3> QED
      BY <1>2, <2>1, <2>3, <3>2, <3>3 DEF Driven
  <2> QED
    BY <1>4, <2>1, <2>2, <2>3
<1>9. CASE AtPrinter /\ drive.at \in {"send", "wait"}
  <2>1. /\ drive' = drive /\ group' = group /\ seen' = seen /\ fresh' = fresh
    BY <1>9 DEF AtPrinter, Unloads, OwnerDeclares, Loads, Changes, reportVars, taskVars
  <2>2. Step' = Step /\ Desired(Step)' = Desired(Step) /\ Step.wire \in Wires
    BY <1>9, <2>1, DriveTypes DEF Step, Desired
  <2>3. \A w \in Wires : ours'[w] => ours[w]
    BY <1>1, <1>9 DEF AtPrinter, Unloads, OwnerDeclares, Loads, Changes
  <2>4. CASE drive.at = "send"
    BY <1>2, <2>1, <2>2, <2>3, <2>4 DEF Driven
  <2>5. CASE drive.at = "wait" /\ command' # NoCommand
    <3>1. PICK v \in Wires : Unloads(v) \/ (\E d \in Declarations : OwnerDeclares(v, d))
                             \/ (\E s \in Spools : Loads(v, s))
      BY <1>9 DEF AtPrinter
    <3>2. CASE Unloads(v)
      <4>1. command # NoCommand /\ command \in Command
        BY <1>1, <2>5, <3>2 DEF Unloads, RefillTyped
      <4>2. /\ command'.wire = command.wire /\ command'.decl = command.decl
            /\ command'.alias => command.alias /\ command.wire # v
        BY <3>2, <4>1 DEF Unloads, Command
      <4>3. WaitOK(Step.wire)
        BY <1>2, <2>5, <4>1 DEF Driven
      <4>4. \A w \in Wires : tray'[w].decl = tray[w].decl /\ (w # v => tray'[w].spool = tray[w].spool)
        BY <1>1, <3>2 DEF Unloads, Changes, Trays
      <4>5. command'.alias => group.enabled /\ Takes(Step.wire)'
        BY <2>1, <2>2, <4>2, <4>3, <4>4 DEF Takes
      <4> QED
        BY <1>2, <2>1, <2>2, <2>3, <2>5, <4>2, <4>3, <4>4, <4>5 DEF Driven
    <3>3. ASSUME NEW d \in Declarations, OwnerDeclares(v, d) PROVE Driven'
      <4>1. command' = command /\ budget["declare"] # 0
        BY <1>1, <3>3 DEF OwnerDeclares, Spend
      <4>2. WaitOK(Step.wire) /\ seen[Step.wire].decl # Desired(Step)
        BY <1>2, <2>2, <2>5, <4>1 DEF Driven, Unedited, Awaited
      <4>3. \A w \in Wires : tray'[w].spool = tray[w].spool
        BY <1>1, <3>3 DEF OwnerDeclares, Changes, Trays
      <4>4. Takes(Step.wire)' = Takes(Step.wire)
        BY <2>1, <2>2, <4>3 DEF Takes
      <4> QED
        BY <1>2, <2>1, <2>2, <2>3, <2>5, <4>1, <4>2, <4>4 DEF Driven
    <3>4. ASSUME NEW s \in Spools, Loads(v, s) PROVE Driven'
      <4>1. command' = command /\ tray[v].spool = NoSpool
        BY <3>4 DEF Loads
      <4>2. WaitOK(Step.wire)
        BY <1>2, <2>5, <4>1 DEF Driven
      <4>3. \A w \in Wires : tray'[w].decl = tray[w].decl /\ (w # v => tray'[w].spool = tray[w].spool)
        BY <1>1, <3>4 DEF Loads, Changes, Trays
      <4>4. Takes(Step.wire) => Takes(Step.wire)'
        BY <2>1, <2>2, <4>1, <4>3 DEF Takes
      <4> QED
        BY <1>2, <2>1, <2>2, <2>3, <2>5, <4>1, <4>2, <4>3, <4>4 DEF Driven
    <3> QED
      BY <3>1, <3>2, <3>3, <3>4
  <2>6. CASE drive.at = "wait" /\ command' = NoCommand
    BY <1>2, <2>1, <2>2, <2>6 DEF Driven
  <2> QED
    BY <1>9, <2>4, <2>5, <2>6
<1>10. CASE AtPrinter /\ drive.at \notin {"send", "wait"}
  BY <1>4, <1>10 DEF AtPrinter, Unloads, OwnerDeclares, Loads, Changes, taskVars
<1>11. CASE DriveConfirms \/ DriveGivesUp
  BY <1>1, <1>4, <1>11 DEF DriveConfirms, DriveGivesUp, Onward, Leave, RefillTyped, DriveTyped, Drive, NoDrive
<1>12. CASE DriveStep
  <2>1. DriveStepAs
    BY <1>1, <1>12, DriveStepIs
  <2>2. CASE Path(Step) = "write" /\ drive' = [drive EXCEPT !.at = "send"] /\ Wrote
    <3>1. /\ seen' = seen /\ ours' = ours /\ drive.at = "step" /\ drive.index \in DOMAIN group.steps
      BY <1>12 DEF DriveStep, reportVars, history
    <3>2. /\ drive'.at = "send" /\ drive'.index = drive.index
      BY <1>1, <2>2, <3>1 DEF RefillTyped, DriveTyped, Drive, NoDrive
    <3>3. Step \in StepRec /\ Step.wire \in Wires
      BY <1>1, <3>1, StepAt DEF Step
    <3>4. /\ ~ InDoubt(Step) /\ (group.enabled => Step.state \notin {"conflict", "owned"})
          /\ SameSource(Step) /\ Editable(Step.wire)
          /\ Current(Step) = Expects(Step) /\ Current(Step) # Desired(Step)
      BY <2>1, <2>2 DEF DriveStepAs
    <3>5. /\ Step'.wire = Step.wire /\ Step'.target = Step.target /\ Step'.before = Step.before
          /\ Step'.tagged = Step.tagged /\ Step'.old = Step.old /\ Step'.writes = Step.writes
          /\ Step'.same = Step.same /\ group'.enabled = group.enabled
      <4>1. PICK x, y : Step' = [Step EXCEPT !.state = x, !.restores = y]
        <5>1. group'.steps[drive.index] = [Step EXCEPT !.state = IF group.enabled THEN "applying" ELSE "restoring",
                                                       !.restores = ~ group.enabled]
          BY <2>2 DEF Wrote
        <5>2. Step' = group'.steps[drive.index]
          BY <3>2 DEF Step
        <5> QED
          BY <5>1, <5>2
      <4>2. group'.enabled = group.enabled
        BY <2>2 DEF Wrote
      <4> QED
        BY <3>3, <4>1, <4>2 DEF StepRec
    <3>6. Desired(Step)' = Desired(Step)
      BY <3>5 DEF Desired
    <3>7. /\ Step.writes = (Step.before # Step.target) /\ (Step.tagged => Step.spool \in Tagged)
          /\ (Step.old => ~ Step.same)
          /\ (group.enabled => Step.state \in {"pending", "applying", "owned", "uncertain", "conflict"})
      BY <1>2, <3>1 DEF Shaped, Step
    <3>8. ~ Step.tagged /\ Step.same /\ ~ Step.old
      BY <3>4, <3>7 DEF SameSource, Editable
    <3>9. group.enabled => Step.state = "pending" /\ Step.writes
      BY <3>4, <3>7 DEF InDoubt, Expects, Desired
    <3>10. group.enabled => ~ ours[Step.wire]
      <4>1. SUFFICES ASSUME group.enabled, ours[Step.wire] PROVE FALSE
        OBVIOUS
      <4>2. PICK i \in DOMAIN group.steps : OnRecord(Step.wire, group.steps[i])
        BY <1>2, <3>3, <4>1 DEF AliasOnRecord
      <4>3. i = drive.index
        BY <1>1, <3>1, <4>2 DEF OnRecord, Step, RefillTyped, GroupTyped
      <4> QED
        BY <3>9, <4>1, <4>2, <4>3 DEF OnRecord, Step
    <3>11. seen[Step.wire].decl # Desired(Step)
      BY <3>4 DEF Current
    <3> QED
      BY <3>1, <3>2, <3>5, <3>6, <3>8, <3>9, <3>10, <3>11 DEF Driven
  <2>3. CASE Onward \/ Leave
    <3>1. drive'.at \notin {"send", "wait"}
      BY <1>1, <1>12, <2>3 DEF DriveStep, Onward, Leave, RefillTyped, DriveTyped, Drive, NoDrive
    <3> QED
      BY <1>4, <3>1
  <2> QED
    BY <2>1, <2>2, <2>3 DEF DriveStepAs, LeaveOrOnward
<1>13. CASE ~ DriveSends /\ ~ Reports /\ ~ Restart /\ ~ Lands /\ ~ AtPrinter /\ ~ DriveConfirms /\ ~ DriveGivesUp /\ ~ DriveStep
  <2>1. /\ tray' = tray /\ seen' = seen /\ (fresh' => fresh) /\ command' = command
        /\ drive'.at \in {"send", "wait"} => drive' = drive /\ group' = group
    BY <1>13, QuietSteps
  <2>2. \A w \in Wires : ours'[w] => ours[w]
    BY <1>1, <1>13, OursOnlyLand
  <2> QED
    BY <1>3, <1>4, <2>1, <2>2
<1> QED
  BY <1>5, <1>6, <1>7, <1>8, <1>9, <1>10, <1>11, <1>12, <1>13

\* A write that outlives its drive finds what it declares.
LEMMA LeftOverKept ==
    ASSUME RefillInv, AliasInv, RefillNext, ~ LateLands
    PROVE  LeftOver'
<1>1. /\ RefillTyped /\ NoDrive.at = "none" /\ tray \in [Wires -> Trays] /\ command \in {NoCommand} \cup Command
      /\ budget \in [Events -> Nat]
  BY DEF RefillInv, RefillTyped, ReportsTyped, NoDrive
<1>2. Unedited /\ Driven /\ LeftOver
  BY DEF AliasInv
<1> SUFFICES ASSUME command' # NoCommand, drive'.at # "wait"
    PROVE  budget'["declare"] = 0 /\ tray'[command'.wire].decl = command'.decl
  BY DEF LeftOver
<1>3. CASE DriveSends
  BY <1>1, <1>3 DEF DriveSends, RefillTyped, DriveTyped, Drive, NoDrive
<1>4. CASE Reports
  BY <1>2, <1>4 DEF Reports, taskVars, LeftOver
<1>5. CASE Restart
  BY <1>5 DEF Restart, Unanswered
<1>6. CASE Lands
  BY <1>6 DEF Lands
<1>7. CASE AtPrinter
  <2>1. drive' = drive /\ command # NoCommand
    BY <1>7 DEF AtPrinter, Unloads, OwnerDeclares, Loads, Changes, taskVars
  <2>2. budget["declare"] = 0 /\ tray[command.wire].decl = command.decl /\ command \in Command
    BY <1>1, <1>2, <2>1 DEF LeftOver
  <2>3. PICK v \in Wires : Unloads(v) \/ (\E s \in Spools : Loads(v, s))
    BY <1>7, <2>2 DEF AtPrinter, OwnerDeclares, Spend
  <2>4. \A w \in Wires : tray'[w].decl = tray[w].decl
    BY <1>1, <2>3 DEF Unloads, Loads, Changes, Trays
  <2>5. command'.wire = command.wire /\ command'.decl = command.decl
    BY <2>2, <2>3 DEF Unloads, Loads, Command
  <2>6. budget'["declare"] = budget["declare"]
    BY <1>1, <2>3 DEF Unloads, Loads, Spend, Events
  <2> QED
    BY <2>2, <2>4, <2>5, <2>6 DEF Command
<1>8. CASE DriveConfirms
  <2>1. /\ drive.at = "wait" /\ command' = command /\ tray' = tray /\ budget' = budget
        /\ seen[Step.wire].decl = Desired(Step)
    BY <1>8 DEF DriveConfirms, ReadBack, Current, amsVars
  <2>2. command.wire = Step.wire /\ command.decl = Desired(Step) /\ tray[Step.wire].decl = Desired(Step)
    BY <1>2, <2>1 DEF Driven
  <2>3. Step.wire \in Wires
    BY <2>1, DriveTypes
  <2>4. budget["declare"] = 0
    BY <1>2, <2>1, <2>3 DEF Unedited, Awaited
  <2> QED
    BY <2>1, <2>2, <2>4
<1>9. CASE DriveGivesUp
  BY <1>9 DEF DriveGivesUp, Unanswered
<1>10. CASE DriveStep
  <2>1. command' = command /\ tray' = tray /\ budget' = budget /\ drive.at = "step"
    BY <1>10 DEF DriveStep, amsVars
  <2> QED
    BY <1>2, <2>1 DEF LeftOver
<1>11. CASE /\ ~ DriveSends /\ ~ Reports /\ ~ Restart /\ ~ Lands /\ ~ AtPrinter
            /\ ~ DriveConfirms /\ ~ DriveGivesUp /\ ~ DriveStep
  <2>1. /\ tray' = tray /\ command' = command /\ budget'["declare"] = budget["declare"]
        /\ drive.at = "wait" => drive' = drive
    BY <1>11, QuietSteps
  <2> QED
    BY <1>2, <2>1 DEF LeftOver
<1> QED
  BY <1>3, <1>4, <1>5, <1>6, <1>7, <1>8, <1>9, <1>10, <1>11

\* The step t carries on s, and its slot still shows what s wrote.
Unwritten == {"pending", "restored", "released_empty"}
Carries(s, t) == /\ t.wire = s.wire /\ t.target = s.target /\ t.writes = s.writes /\ t.tagged = s.tagged
                 /\ t.same \/ t.old => s.same \/ s.old

LEMMA RecordKept ==
    ASSUME RefillInv, AliasOnRecord, RefillNext, ~ Lands, tray' = tray, seen' = seen, fresh' => fresh,
           DOMAIN group'.steps = DOMAIN group.steps,
           \A i \in DOMAIN group.steps :
               OnRecord(group.steps[i].wire, group.steps[i]) /\ ours'[group.steps[i].wire] =>
                   /\ Carries(group.steps[i], group'.steps[i])
                   /\ group'.steps[i].state \notin Unwritten
                   /\ \/ ~ (Awaited(group.steps[i].wire) /\ group.enabled)
                      \/ Awaited(group.steps[i].wire)' /\ group'.enabled
                      \/ fresh' /\ (group'.steps[i].same \/ group'.steps[i].old) =>
                             seen[group.steps[i].wire].decl = tray[group.steps[i].wire].decl
    PROVE  AliasOnRecord'
<1> SUFFICES ASSUME NEW w \in Wires, ours'[w]
    PROVE  Takes(w)' /\ \E i \in DOMAIN group'.steps : OnRecord(w, group.steps[i])'
  BY DEF AliasOnRecord
<1>1. ours[w]
  BY OursOnlyLand
<1>2. PICK i \in DOMAIN group.steps : Takes(w) /\ OnRecord(w, group.steps[i])
  BY <1>1 DEF AliasOnRecord
<1>3. Takes(w)'
  BY <1>2 DEF Takes
<1>4. group.steps[i].wire = w
  BY <1>2 DEF OnRecord
<1>5. OnRecord(w, group.steps[i])'
  BY <1>2, <1>4 DEF OnRecord, Carries, Unwritten
<1> QED
  BY <1>3, <1>5

\* What a step on record shows, wherever the bridge is not waiting for it.
LEMMA RecordShows ==
    ASSUME RefillInv, Shaped, AliasOnRecord, NEW i \in DOMAIN group.steps,
           OnRecord(group.steps[i].wire, group.steps[i]), ours[group.steps[i].wire]
    PROVE  LET s == group.steps[i]
           IN  /\ NothingToRestore(s) = "no"
               /\ fresh /\ (s.same \/ s.old) /\ ~ (Awaited(s.wire) /\ group.enabled) =>
                      Current(s) = s.target /\ Current(s) # s.before
<1> DEFINE s == group.steps[i]
<1>1. s \in StepRec /\ s.wire \in Wires
  BY StepAt DEF RefillInv
<1>2. s.writes /\ s.before # s.target /\ s.state # "pending"
  BY <1>1 DEF OnRecord, Shaped
<1>3. Takes(s.wire)
  BY <1>1 DEF AliasOnRecord
<1>4. NothingToRestore(s) = "no"
  BY <1>2, <1>3 DEF NothingToRestore, Takes, Empty
<1> QED
  BY <1>2, <1>4 DEF OnRecord, Current

LEMMA OwnerOnRecord ==
    ASSUME RefillInv, Shaped, AliasOnRecord, Owner
    PROVE  AliasOnRecord'
<1>1. RefillTyped /\ group \in GroupRec /\ group.enabled \in BOOLEAN /\ NoDrive.at = "none"
  BY DEF RefillInv, RefillTyped, GroupTyped, GroupRec, NoDrive
<1>2. \A i \in DOMAIN group.steps : group.steps[i] \in StepRec
  BY <1>1, StepAt
<1>3. RefillNext /\ ~ Lands /\ tray' = tray /\ seen' = seen /\ fresh' = fresh
  <2>1. RefillNext
    BY DEF RefillNext
  <2>2. seen' = seen /\ fresh' = fresh /\ tray' = tray /\ command' = command
    BY DEF Owner, SetBackup, PlanRefill, ExecuteRefill, Disable, RemoveBackup, RemoveEnds, Reconcile, Release, amsVars,
           reportVars
  <2>3. ~ Lands
    BY <2>2 DEF Lands, NoCommand
  <2> QED
    BY <2>1, <2>2, <2>3
<1> DEFINE Still(s, t) == /\ t.wire = s.wire /\ t.target = s.target /\ t.writes = s.writes /\ t.tagged = s.tagged
                          /\ t.same \/ t.old => s.same \/ s.old
                          /\ t.state \notin Unwritten
\* No drive waits while a request is served.
<1>4. ASSUME ~ Locked, DOMAIN group'.steps = DOMAIN group.steps,
             \A i \in DOMAIN group.steps :
                 OnRecord(group.steps[i].wire, group.steps[i]) /\ ours'[group.steps[i].wire] =>
                     Still(group.steps[i], group'.steps[i])
      PROVE  AliasOnRecord'
  <2>1. \A w : ~ Awaited(w)
    BY <1>1, <1>4 DEF Locked, Awaited
  <2> QED
    BY <1>3, <1>4, <2>1, RecordKept DEF Carries
<1>5. ASSUME group'.steps = group.steps, ~ Locked PROVE AliasOnRecord'
  BY <1>4, <1>5 DEF OnRecord, Unwritten
<1>6. ASSUME group' = group, drive' = drive PROVE AliasOnRecord'
  <2>1. \A w : Awaited(w)' = Awaited(w)
    BY <1>6 DEF Awaited, Step
  <2> QED
    BY <1>3, <1>6, <2>1, RecordKept DEF Carries, OnRecord, Unwritten
<1>7. ASSUME NEW g \in GroupRec, g.steps = group.steps, g.enabled => group.enabled, group' = Retried(g), ~ Locked
      PROVE  AliasOnRecord'
  <2>1. RetriedAs(g, group')
    BY <1>7, RetriedIs
  <2>2. ASSUME NEW i \in DOMAIN group.steps, OnRecord(group.steps[i].wire, group.steps[i]),
               ours'[group.steps[i].wire]
        PROVE  Still(group.steps[i], group'.steps[i])
    <3> DEFINE s == group.steps[i]
               t == group'.steps[i]
    <3>1. s \in StepRec /\ s.wire \in Wires /\ RetriedStep(s, t)
      BY <1>2, <1>7, <2>1 DEF RetriedAs, StepRec
    <3>2. ours[s.wire] /\ ~ Awaited(s.wire)
      BY <1>1, <1>3, <1>7, <2>2, <3>1, OursOnlyLand DEF Locked, Awaited
    <3>3. s.same /\ Shown(s.wire) => Current(s) # s.before
      BY <2>2, <3>2, RecordShows DEF Shown
    <3>4. t = s \/ (t = [s EXCEPT !.state = t.state] /\ t.state = "owned")
      BY <3>1, <3>3 DEF RetriedStep
    <3>5. s.state \notin Unwritten
      BY <2>2 DEF OnRecord, Unwritten
    <3> HIDE DEF s, t
    <3>6. Still(s, t)
      BY <3>1, <3>4, <3>5 DEF StepRec, Unwritten
    <3> QED
      BY <3>6 DEF s, t
  <2> QED
    BY <1>4, <1>7, <2>1, <2>2 DEF RetriedAs
<1>8. ASSUME NEW pair \in Pairs, NEW c \in Colours, Plans(pair, c) PROVE AliasOnRecord'
  BY <1>8 DEF Plans, AliasOnRecord
<1>9. ASSUME NEW pair \in Pairs, SetBackup(pair) PROVE AliasOnRecord'
  <2>1. seen[Anchor(pair)].decl.colour \in Colours
    BY <1>1 DEF Pairs, Anchor, RefillTyped, ReportsTyped, Trays, Declarations
  <2> QED
    BY <1>1, <1>7, <1>8, <1>9, <2>1 DEF SetBackup, Serving
<1>10. ASSUME NEW pair \in Pairs, NEW c \in Colours, PlanRefill(pair, c) PROVE AliasOnRecord'
  BY <1>8, <1>10 DEF PlanRefill
<1>11. CASE ExecuteRefill
  BY <1>5, <1>11 DEF ExecuteRefill, Serving
<1>12. CASE Disable
  BY <1>1, <1>5, <1>12, DisabledIs DEF Disable, Serving
<1>13. CASE RemoveBackup
  <2>1. CASE ~ Locked /\ group' = Retried(Disabled(group))
    BY <1>1, <1>7, <2>1, DisabledIs
  <2>2. CASE ~ Locked /\ group' = Retried(group)
    BY <1>1, <1>7, <2>2
  <2> QED
    BY <1>6, <1>13, <2>1, <2>2 DEF RemoveBackup
<1>14. CASE RemoveEnds
  <2>1. ReleasedAs(group, group') /\ ~ Locked
    BY <1>1, <1>14, ReleasedIs DEF RemoveEnds
  <2>2. ASSUME NEW i \in DOMAIN group.steps, OnRecord(group.steps[i].wire, group.steps[i])
        PROVE  Still(group.steps[i], group'.steps[i])
    <3>1. \/ group'.steps[i] = group.steps[i]
          \/ group'.steps[i] = [group.steps[i] EXCEPT !.state = "released"]
      BY <2>1 DEF ReleasedAs
    <3> QED
      BY <1>2, <2>2, <3>1 DEF StepRec, OnRecord, Unwritten
  <2> QED
    BY <1>4, <2>1, <2>2 DEF ReleasedAs, Follows
<1>15. ASSUME NEW i \in DOMAIN group.steps, Reconcile(i) PROVE AliasOnRecord'
  <2>1. /\ ~ Locked /\ group.steps[i].state = "uncertain" /\ Shown(group.steps[i].wire) /\ group.steps[i].same
        /\ Current(group.steps[i]) = (IF group.steps[i].restores THEN group.steps[i].before ELSE group.steps[i].target)
    BY <1>15 DEF Reconcile, Serving
  <2>2. Settles(i, IF group.steps[i].restores THEN "restored" ELSE "owned")
    BY <1>1, <1>15, ReviewedIs DEF Reconcile, StepStates, SETTLED
  <2>3. ASSUME NEW j \in DOMAIN group.steps, OnRecord(group.steps[j].wire, group.steps[j]),
               ours'[group.steps[j].wire]
        PROVE  Still(group.steps[j], group'.steps[j])
    <3>1. CASE j # i
      BY <2>2, <2>3, <3>1 DEF Settles, OnRecord, Unwritten
    <3>2. CASE j = i
      <4>1. ours[group.steps[i].wire] /\ ~ Awaited(group.steps[i].wire)
        BY <1>1, <1>2, <1>3, <2>1, <2>3, <3>2, OursOnlyLand DEF Locked, Awaited, StepRec
      <4>2. ~ group.steps[i].restores
        BY <2>1, <2>3, <3>2, <4>1, RecordShows DEF Shown
      <4>3. group'.steps[i] = [group.steps[i] EXCEPT !.state = "owned"]
        BY <2>2, <4>2 DEF Settles
      <4> QED
        BY <1>2, <3>2, <4>3 DEF StepRec, Unwritten
    <3> QED
      BY <3>1, <3>2
  <2> QED
    BY <1>4, <2>1, <2>2, <2>3 DEF Settles
<1>16. ASSUME NEW i \in DOMAIN group.steps, Release(i) PROVE AliasOnRecord'
  <2>1. ~ Locked /\ ~ ours'[group.steps[i].wire]
    BY <1>1, <1>2, <1>16 DEF Release, Serving, RefillTyped, StepRec
  <2>2. \E state \in StepStates : Settles(i, state)
    BY <1>1, <1>16, ReviewedIs DEF Release, StepStates, SETTLED
  <2>3. ASSUME NEW j \in DOMAIN group.steps, OnRecord(group.steps[j].wire, group.steps[j]),
               ours'[group.steps[j].wire]
        PROVE  Still(group.steps[j], group'.steps[j])
    BY <2>1, <2>2, <2>3 DEF Settles, OnRecord, Unwritten
  <2>4. DOMAIN group'.steps = DOMAIN group.steps
    BY <2>2 DEF Settles
  <2> QED
    BY <1>4, <2>1, <2>3, <2>4
<1> QED
  BY <1>9, <1>10, <1>11, <1>12, <1>13, <1>14, <1>15, <1>16 DEF Owner

LEMMA DrivingOnRecord ==
    ASSUME RefillInv, AliasInv, Driving, ~ LateLands
    PROVE  AliasOnRecord'
<1>1. RefillTyped /\ NoDrive.at = "none" /\ Shaped /\ Unedited /\ Driven /\ AliasOnRecord
  BY DEF RefillInv, NoDrive, AliasInv
<1>2. \A i \in DOMAIN group.steps : group.steps[i] \in StepRec /\ group.steps[i].wire \in Wires
  BY <1>1, StepAt
<1>3. RefillNext /\ tray' = tray /\ seen' = seen /\ fresh' = fresh /\ ours' = ours
  BY DEF RefillNext, Driving, DriveStep, DriveSends, NotSent, DriveConfirms, DriveGivesUp, DriveEnds, amsVars, reportVars,
         history
<1> DEFINE Still(s, t) == /\ t.wire = s.wire /\ t.target = s.target /\ t.writes = s.writes /\ t.tagged = s.tagged
                          /\ t.same \/ t.old => s.same \/ s.old
                          /\ t.state \notin Unwritten
           Shows(i) == /\ ~ (Awaited(group.steps[i].wire) /\ group.enabled)
                          \/ (Awaited(group.steps[i].wire)' /\ group'.enabled)
                          \/ (fresh' /\ (group'.steps[i].same \/ group'.steps[i].old) =>
                                 seen[group.steps[i].wire].decl = tray[group.steps[i].wire].decl)
\* The drive saves a state: on the slot of an alias, one that says it was written.
<1>4. ASSUME NEW x, NEW y, Saved(x, y), drive.index \in DOMAIN group.steps, ~ Lands,
             OnRecord(Step.wire, Step) /\ ours[Step.wire] => x \notin Unwritten,
             \A i \in DOMAIN group.steps :
                 OnRecord(group.steps[i].wire, group.steps[i]) /\ ours[group.steps[i].wire] => Shows(i)
      PROVE  AliasOnRecord'
  <2>1. ASSUME NEW i \in DOMAIN group.steps, OnRecord(group.steps[i].wire, group.steps[i]), ours[group.steps[i].wire]
        PROVE  Still(group.steps[i], group'.steps[i])
    <3>1. CASE i # drive.index
      BY <1>4, <2>1, <3>1 DEF Saved, OnRecord, Unwritten
    <3>2. CASE i = drive.index
      <4>1. group'.steps[i] = [group.steps[i] EXCEPT !.state = x] /\ x \notin Unwritten
        BY <1>4, <2>1, <3>2 DEF Saved, Step
      <4> QED
        BY <1>2, <4>1 DEF StepRec
    <3> QED
      BY <3>1, <3>2
  <2>2. DOMAIN group'.steps = DOMAIN group.steps
    BY <1>4 DEF Saved
  <2> QED
    BY <1>1, <1>3, <1>4, <2>1, <2>2, RecordKept DEF Carries
<1>5. ASSUME drive.index \in DOMAIN group.steps
      PROVE  OnRecord(Step.wire, Step) /\ ours[Step.wire] =>
                 /\ NothingToRestore(Step) = "no"
                 /\ fresh /\ (Step.same \/ Step.old) /\ ~ (Awaited(Step.wire) /\ group.enabled) =>
                        Current(Step) = Step.target /\ Current(Step) # Step.before
  BY <1>1, <1>5, RecordShows DEF Step
<1>6. drive.at # "wait" => \A w : ~ Awaited(w)
  BY DEF Awaited
<1>7. CASE DriveStep
  <2>1. DriveStepAs /\ drive.at = "step" /\ drive.index \in DOMAIN group.steps /\ ~ Lands
    BY <1>1, <1>7, DriveStepIs DEF DriveStepAs, DriveStep, Lands, NoCommand
  <2>2. CASE group' = group
    BY <1>1, <1>3, <1>6, <2>1, <2>2, RecordKept DEF Carries, OnRecord, Unwritten
  <2>3. CASE Path(Step) = "settle" /\ Saved(NothingToRestore(Step), group.state)
    <3>1. NothingToRestore(Step) \in {"released_empty", "restored"}
      BY <2>1, <2>3 DEF DriveStepAs
    <3> QED
      BY <1>4, <1>5, <1>6, <2>1, <2>3, <3>1
  <2>4. CASE Saved(Step.state, "needs_attention") \/ Saved(Step.state, Waiting)
    BY <1>4, <1>6, <2>1, <2>4 DEF OnRecord, Unwritten
  <2>5. CASE Saved("conflict", "needs_attention")
    BY <1>4, <1>6, <2>1, <2>5 DEF Unwritten
  <2>6. CASE Path(Step) = "achieved" /\ Saved(Achieved, group.state)
    <3>1. Shown(Step.wire) /\ SameSource(Step) /\ Current(Step) = Desired(Step)
      BY <2>1, <2>6 DEF DriveStepAs
    <3>2. OnRecord(Step.wire, Step) /\ ours[Step.wire] => Achieved \notin Unwritten
      <4>1. SUFFICES ASSUME OnRecord(Step.wire, Step), ours[Step.wire] PROVE group.enabled
        BY DEF Achieved, Unwritten
      <4>2. Step.same /\ fresh
        BY <3>1, <4>1 DEF OnRecord, SameSource, Shown
      <4> QED
        BY <1>5, <1>6, <2>1, <3>1, <4>1, <4>2 DEF Desired
    <3> QED
      BY <1>4, <1>6, <2>1, <2>6, <3>2
  <2>7. CASE Wrote
    <3>1. ASSUME NEW i \in DOMAIN group.steps, OnRecord(group.steps[i].wire, group.steps[i]), ours[group.steps[i].wire]
          PROVE  Still(group.steps[i], group'.steps[i])
      <4>1. CASE i # drive.index
        BY <2>7, <3>1, <4>1 DEF Wrote, OnRecord, Unwritten
      <4>2. CASE i = drive.index
        <5>1. PICK x, y : /\ group'.steps[i] = [group.steps[i] EXCEPT !.state = x, !.restores = y]
                          /\ x = IF group.enabled THEN "applying" ELSE "restoring"
          BY <2>7, <4>2 DEF Wrote, Step
        <5>2. ASSUME NEW s \in StepRec, NEW z, NEW b, z \notin Unwritten
              PROVE  Still(s, [s EXCEPT !.state = z, !.restores = b])
          BY <5>2 DEF StepRec
        <5>3. x \notin Unwritten
          BY <5>1 DEF Unwritten
        <5> QED
          BY <1>2, <5>1, <5>2, <5>3
      <4> QED
        BY <4>1, <4>2
    <3>2. DOMAIN group'.steps = DOMAIN group.steps
      BY <2>7 DEF Wrote
    <3> QED
      BY <1>1, <1>3, <1>6, <2>1, <3>1, <3>2, RecordKept DEF Carries
  <2> QED
    BY <2>1, <2>2, <2>3, <2>4, <2>5, <2>6, <2>7 DEF DriveStepAs
<1>8. CASE DriveSends \/ DriveEnds
  <2>1. /\ drive.at # "wait" /\ ~ Lands /\ group'.steps = group.steps
    BY <1>1, <1>8 DEF DriveSends, DriveEnds, Lands, NoCommand, RefillTyped, GroupTyped, GroupRec
  <2> QED
    BY <1>1, <1>3, <1>6, <2>1, RecordKept DEF Carries, OnRecord, Unwritten
<1>9. CASE NotSent
  <2>1. drive.at = "send" /\ drive.index \in DOMAIN group.steps /\ ~ Lands
    BY <1>1, <1>9 DEF NotSent, Lands, NoCommand, RefillTyped, DriveTyped
  <2>2. Saved(IF group.enabled THEN "pending" ELSE "owned", Waiting)
    BY <1>1, <1>9, <2>1, SaveIs DEF NotSent, StepStates, GroupStates, Waiting
  <2>3. group.enabled => ~ ours[Step.wire]
    BY <1>1, <2>1 DEF Driven
  <2> QED
    BY <1>4, <1>6, <2>1, <2>2, <2>3 DEF Unwritten
<1>10. CASE DriveConfirms
  <2>1. /\ drive.at = "wait" /\ drive.index \in DOMAIN group.steps /\ ~ Lands
        /\ Shown(Step.wire) /\ Step.same /\ Current(Step) = Desired(Step)
    BY <1>1, <1>10 DEF DriveConfirms, ReadBack, Lands, NoCommand, RefillTyped, DriveTyped
  <2>2. Saved(Achieved, "pending")
    BY <1>1, <1>10, <2>1, SaveIs DEF DriveConfirms, StepStates, SETTLED, GroupStates, Achieved
  <2>3. OnRecord(Step.wire, Step) /\ ours[Step.wire] => Achieved \notin Unwritten
    BY <1>5, <2>1 DEF Achieved, Unwritten, Desired, Shown
  <2>4. ASSUME NEW i \in DOMAIN group.steps, OnRecord(group.steps[i].wire, group.steps[i])
        PROVE  Shows(i)
    <3>1. SUFFICES ASSUME Awaited(group.steps[i].wire), group.enabled
          PROVE  seen[group.steps[i].wire].decl = tray[group.steps[i].wire].decl
      OBVIOUS
    <3>2. i = drive.index
      BY <1>1, <2>1, <3>1 DEF Awaited, Step, RefillTyped, GroupTyped
    <3> QED
      BY <2>1, <2>4, <3>1, <3>2 DEF OnRecord, Current, Desired, Step
  <2> QED
    BY <1>4, <2>1, <2>2, <2>3, <2>4
<1>11. CASE DriveGivesUp
  <2>1. drive.at = "wait" /\ drive.index \in DOMAIN group.steps
    BY <1>1, <1>11 DEF DriveGivesUp, RefillTyped, DriveTyped
  <2>2. Saved("uncertain", "needs_attention")
    BY <1>1, <1>11, <2>1, SaveIs DEF DriveGivesUp, StepStates, GroupStates
  <2>3. ~ link \/ ~ Step.same \/ (command = NoCommand /\ tray[Step.wire].decl # Desired(Step)) \/ command # NoCommand
    BY <1>11 DEF DriveGivesUp
  <2>4. ASSUME NEW i \in DOMAIN group.steps, OnRecord(group.steps[i].wire, group.steps[i]), ours[group.steps[i].wire]
        PROVE  Shows(i)
    <3>1. SUFFICES ASSUME Awaited(group.steps[i].wire), group.enabled, fresh,
                          group'.steps[i].same \/ group'.steps[i].old
          PROVE  FALSE
      BY <1>3
    <3>2. i = drive.index
      BY <1>1, <2>1, <3>1 DEF Awaited, Step, RefillTyped, GroupTyped
    <3>3. group'.steps[i] = [Step EXCEPT !.state = "uncertain"] /\ Step \in StepRec
      BY <1>2, <2>1, <2>2, <3>2 DEF Saved, Step
    <3>4. Step.same
      BY <1>1, <2>1, <3>1, <3>3 DEF Driven, StepRec
    <3>5. link
      BY <1>1, <3>1 DEF RefillTyped, ReportsTyped
    <3>6. command = NoCommand
      BY <1>1, <2>1, <2>4, <3>1, <3>2 DEF Driven, Step
    <3> QED
      BY <2>3, <2>4, <3>1, <3>2, <3>4, <3>5, <3>6 DEF OnRecord, Desired, Step
  <2>5. CASE ~ Lands
    BY <1>4, <2>1, <2>2, <2>4, <2>5 DEF Unwritten
  <2>6. CASE Lands
    BY <1>11, <2>1, <2>6 DEF Lands, taskVars, DriveGivesUp, Leave, NoDrive
  <2> QED
    BY <2>5, <2>6
<1> QED
  BY <1>7, <1>8, <1>9, <1>10, <1>11 DEF Driving

LEMMA WorkerOnRecord ==
    ASSUME RefillInv, Shaped, AliasOnRecord, Worker
    PROVE  AliasOnRecord'
<1>1. /\ RefillTyped /\ RefillNext /\ tray' = tray /\ seen' = seen /\ fresh' = fresh /\ ours' = ours /\ ~ Lands
      /\ group \in GroupRec
  BY DEF RefillInv, RefillTyped, GroupTyped, RefillNext, Worker, WorkerListens, WorkerDrives, amsVars, reportVars, history,
         Lands, NoCommand
<1>2. CASE group' = group
  <2>1. \A w : Awaited(w) => Awaited(w)'
    <3>1. ~ Locked => drive.at = "none"
      BY DEF Locked, NoDrive
    <3> QED
      BY <1>2, <3>1 DEF Worker, WorkerListens, WorkerDrives, Awaited, Step
  <2> QED
    BY <1>1, <1>2, <2>1, RecordKept DEF Carries, OnRecord, Unwritten
<1>3. CASE ~ Locked /\ NotedAs(group, group')
  <2>1. \A w : ~ Awaited(w)
    BY <1>3 DEF Awaited, Locked, NoDrive
  <2>2. ASSUME NEW i \in DOMAIN group.steps, OnRecord(group.steps[i].wire, group.steps[i]), ours[group.steps[i].wire]
        PROVE  Carries(group.steps[i], group'.steps[i]) /\ group'.steps[i].state \notin Unwritten
    <3>1. NotedStep(group, group.steps[i], group'.steps[i])
      BY <1>3 DEF NotedAs
    <3>2. NothingToRestore(group.steps[i]) = "no"
      BY <2>2, RecordShows
    <3> QED
      BY <2>2, <3>1, <3>2 DEF NotedStep, Alike, Carries, OnRecord, Readopts, Unwritten
  <2> QED
    BY <1>1, <1>3, <2>1, <2>2, RecordKept DEF NotedAs, Follows
<1>4. group' = group \/ (~ Locked /\ NotedAs(group, group'))
  BY <1>1, NotedIs DEF Worker, WorkerListens, WorkerDrives
<1> QED
  BY <1>2, <1>3, <1>4

LEMMA ReportsOnRecord ==
    ASSUME RefillInv, Shaped, AliasOnRecord, Reports
    PROVE  AliasOnRecord'
<1>1. RefillTyped /\ seen' = tray /\ tray' = tray /\ ours' = ours
  BY DEF Reports, RefillInv
<1>2. PICK g, h \in GroupRec : RetiredAs(group, g) /\ group' = h /\ (h = g \/ (~ Locked /\ NotedAs(g, h)'))
  BY <1>1, ReportsIs
<1> SUFFICES ASSUME NEW w \in Wires, ours'[w]
    PROVE  Takes(w)' /\ \E i \in DOMAIN group'.steps : OnRecord(w, group.steps[i])'
  BY DEF AliasOnRecord
<1>3. PICK i \in DOMAIN group.steps : Takes(w) /\ OnRecord(w, group.steps[i])
  BY <1>1 DEF AliasOnRecord
<1>4. Takes(w)'
  BY <1>1, <1>3 DEF Takes
<1>5. group.steps[i] \in StepRec /\ group.steps[i].before # group.steps[i].target
  BY <1>1, <1>3, StepAt DEF Shaped, OnRecord
<1>6. /\ g.steps[i].wire = w /\ g.steps[i].state = group.steps[i].state /\ g.steps[i].target = group.steps[i].target
      /\ g.steps[i].writes /\ ~ g.steps[i].tagged /\ i \in DOMAIN g.steps
  <2>1. PICK b : g.steps[i] = [group.steps[i] EXCEPT !.same = b]
    BY <1>2 DEF RetiredAs
  <2>2. i \in DOMAIN g.steps
    BY <1>2 DEF RetiredAs
  <2> QED
    BY <1>3, <1>5, <2>1, <2>2 DEF StepRec, OnRecord
<1>7. /\ h.steps[i].wire = w /\ h.steps[i].state \notin Unwritten /\ h.steps[i].target = group.steps[i].target
      /\ h.steps[i].writes /\ ~ h.steps[i].tagged /\ i \in DOMAIN h.steps
  <2>1. CASE h = g
    BY <1>3, <1>6, <2>1 DEF OnRecord, Unwritten
  <2>2. CASE NotedAs(g, h)'
    <3>1. NotedStep(g, g.steps[i], h.steps[i])' /\ i \in DOMAIN h.steps
      BY <1>6, <2>2 DEF NotedAs, Follows
    <3>2. ~ Empty(w)'
      BY <1>1, <1>3 DEF Empty, Takes
    <3>3. NothingToRestore(g.steps[i])' = "no"
      BY <1>3, <1>6, <3>2 DEF NothingToRestore, OnRecord
    <3> QED
      BY <1>3, <1>6, <3>1, <3>3 DEF NotedStep, Alike, OnRecord, Unwritten
  <2> QED
    BY <1>2, <2>1, <2>2
<1>8. OnRecord(w, group.steps[i])'
  BY <1>1, <1>2, <1>3, <1>7 DEF OnRecord, Unwritten
<1> QED
  BY <1>2, <1>4, <1>7, <1>8

LEMMA WorldOnRecord ==
    ASSUME RefillInv, AliasInv, World
    PROVE  AliasOnRecord'
<1>1. /\ RefillTyped /\ RefillNext /\ NoDrive.at = "none" /\ tray \in [Wires -> Trays] /\ ours \in [Wires -> BOOLEAN]
      /\ command \in {NoCommand} \cup Command /\ group \in GroupRec
  BY DEF RefillInv, RefillTyped, ReportsTyped, GroupTyped, RefillNext, NoDrive
<1>2. Shaped /\ Unedited /\ Driven /\ LeftOver /\ AliasOnRecord
  BY DEF AliasInv
<1>3. CASE Lands
  <2>1. /\ command # NoCommand /\ drive' = drive /\ group' = group /\ seen' = seen /\ fresh' = fresh
        /\ command \in Command
    BY <1>1, <1>3 DEF Lands, reportVars, taskVars, NoCommand
  <2>2. CASE tray' = tray /\ ours' = ours
    BY <1>2, <2>1, <2>2 DEF AliasOnRecord, Takes, OnRecord, Awaited, Step
  <2>3. CASE ~ (tray' = tray /\ ours' = ours)
    <3>1. /\ tray[command.wire].decl # command.decl /\ command.wire \in Wires
          /\ tray' = [tray EXCEPT ![command.wire].decl = command.decl]
          /\ ours' = [ours EXCEPT ![command.wire] = command.alias]
      BY <1>3, <2>1, <2>3 DEF Lands, Command
    <3>2. drive.at = "wait" /\ drive.index \in DOMAIN group.steps /\ Step \in StepRec
      BY <1>2, <2>1, <3>1, DriveTypes DEF LeftOver
    <3>3. /\ command.wire = Step.wire /\ command.decl = Desired(Step)
          /\ command.alias => group.enabled /\ Takes(Step.wire)
          /\ ~ Step.tagged /\ (group.enabled => Step.writes)
      BY <1>2, <2>1, <3>2 DEF Driven
    <3>4. group.enabled => Step.state = "applying"
      BY <3>2 DEF RefillInv, SentOnce
    <3> SUFFICES ASSUME NEW w \in Wires, ours'[w]
        PROVE  Takes(w)' /\ \E i \in DOMAIN group.steps : OnRecord(w, group.steps[i])'
      BY <2>1 DEF AliasOnRecord
    <3>5. CASE w = command.wire
      <4>1. command.alias /\ tray'[w].decl = Step.target /\ tray'[w].spool = tray[w].spool
        BY <1>1, <3>1, <3>3, <3>5 DEF Desired, Trays
      <4>2. Takes(w)'
        BY <2>1, <3>3, <3>5, <4>1 DEF Takes
      <4>3. Awaited(w)' /\ group'.enabled
        BY <2>1, <3>2, <3>3, <3>5, <4>1 DEF Awaited, Step
      <4>4. PICK i \in DOMAIN group.steps : i = drive.index
        BY <3>2
      <4>5. OnRecord(w, group.steps[i])'
        BY <2>1, <3>3, <3>4, <3>5, <4>1, <4>3, <4>4 DEF OnRecord, Step
      <4> QED
        BY <4>2, <4>5
    <3>6. CASE w # command.wire
      <4>1. ours[w] /\ tray'[w] = tray[w]
        BY <1>1, <3>1, <3>6
      <4>2. PICK i \in DOMAIN group.steps : Takes(w) /\ OnRecord(w, group.steps[i])
        BY <1>2, <4>1 DEF AliasOnRecord
      <4>3. Awaited(w)' = Awaited(w)
        BY <2>1 DEF Awaited, Step
      <4>4. Takes(w)' /\ OnRecord(w, group.steps[i])'
        BY <2>1, <4>1, <4>2, <4>3 DEF Takes, OnRecord
      <4> QED
        BY <4>4
    <3> QED
      BY <3>5, <3>6
  <2> QED
    BY <2>2, <2>3
<1>4. CASE AtPrinter
  <2>1. /\ drive' = drive /\ group' = group /\ seen' = seen /\ fresh' = fresh
        /\ \A w \in Wires : ours'[w] => ours[w] /\ tray'[w] = tray[w]
    BY <1>1, <1>4 DEF AtPrinter, Unloads, OwnerDeclares, Loads, Changes, reportVars, taskVars
  <2> SUFFICES ASSUME NEW w \in Wires, ours'[w]
      PROVE  Takes(w)' /\ \E i \in DOMAIN group.steps : OnRecord(w, group.steps[i])'
    BY <2>1 DEF AliasOnRecord
  <2>2. PICK i \in DOMAIN group.steps : Takes(w) /\ OnRecord(w, group.steps[i])
    BY <1>2, <2>1 DEF AliasOnRecord
  <2>3. Awaited(w)' = Awaited(w)
    BY <2>1 DEF Awaited, Step
  <2> QED
    BY <2>1, <2>2, <2>3 DEF Takes, OnRecord
<1>5. CASE Restart
  <2>1. RestartedAs(group, group') /\ fresh' = FALSE /\ tray' = tray /\ ours' = ours
    BY <1>1, <1>5, RestartIs DEF Restart, amsVars
  <2> SUFFICES ASSUME NEW w \in Wires, ours'[w]
      PROVE  Takes(w)' /\ \E i \in DOMAIN group'.steps : OnRecord(w, group.steps[i])'
    BY DEF AliasOnRecord
  <2>2. PICK i \in DOMAIN group.steps : Takes(w) /\ OnRecord(w, group.steps[i])
    BY <1>2, <2>1 DEF AliasOnRecord
  <2>3. group.steps[i] \in StepRec
    BY <1>1, StepAt
  <2>4. ASSUME NEW s \in StepRec
        PROVE  /\ Interrupted(s).wire = s.wire /\ Interrupted(s).writes = s.writes
               /\ Interrupted(s).tagged = s.tagged /\ Interrupted(s).target = s.target
               /\ s.state \notin Unwritten => Interrupted(s).state \notin Unwritten
    BY DEF Interrupted, StepRec, Unwritten
  <2>5. group'.steps[i] = Interrupted(group.steps[i]) /\ i \in DOMAIN group'.steps
    BY <2>1 DEF RestartedAs
  <2> QED
    BY <2>1, <2>2, <2>3, <2>4, <2>5 DEF Takes, OnRecord, Unwritten
<1>6. CASE PrinterTurns \/ LinkLost \/ LinkBack \/ Silence
  <2>1. /\ tray' = tray /\ seen' = seen /\ (fresh' => fresh) /\ ours' = ours /\ drive' = drive /\ group' = group
    BY <1>6 DEF PrinterTurns, LinkLost, LinkBack, Silence, amsVars, reportVars, taskVars, history
  <2>2. \A w : Awaited(w)' = Awaited(w)
    BY <2>1 DEF Awaited, Step
  <2> QED
    BY <1>2, <2>1, <2>2 DEF AliasOnRecord, OnRecord, Takes
<1> QED
  BY <1>3, <1>4, <1>5, <1>6 DEF World, AtPrinter

LEMMA AliasInvKept ==
    ASSUME RefillInv, AliasInv, [RefillNext]_refillVars, ~ LateLands
    PROVE  AliasInv'
<1>1. CASE RefillNext
  <2>1. AliasOnRecord'
    BY <1>1, OwnerOnRecord, DrivingOnRecord, WorkerOnRecord, ReportsOnRecord, WorldOnRecord DEF RefillNext, AliasInv
  <2> QED
    BY <1>1, <2>1, ShapedKept, UneditedKept, DrivenKept, LeftOverKept DEF AliasInv
<1>2. CASE UNCHANGED refillVars
  <2>1. /\ tray' = tray /\ seen' = seen /\ fresh' = fresh /\ expected' = expected /\ group' = group /\ drive' = drive
        /\ command' = command /\ budget' = budget /\ ours' = ours
    BY <1>2 DEF refillVars
  <2>2. Shaped' /\ LeftOver'
    BY <2>1 DEF AliasInv, Shaped, LeftOver
  <2>3. Step' = Step /\ Desired(Step)' = Desired(Step)
    BY <2>1 DEF Step, Desired
  <2>4. \A w : Awaited(w)' = Awaited(w) /\ Announced(w)' = Announced(w) /\ Takes(w)' = Takes(w)
    BY <2>1 DEF Awaited, Announced, Takes, Step, Desired
  <2>5. Unedited'
    BY <2>1, <2>3, <2>4 DEF AliasInv, Unedited
  <2>6. Driven'
    BY <2>1, <2>3, <2>4 DEF AliasInv, Driven
  <2>7. AliasOnRecord'
    BY <2>1, <2>4 DEF AliasInv, AliasOnRecord, OnRecord
  <2> QED
    BY <2>2, <2>5, <2>6, <2>7 DEF AliasInv
<1> QED
  BY <1>1, <1>2

\* A refill group is sound, whatever else happens, where the printer takes a write within its 20 s
\* or not at all, and where someone edits a declaration at the printer at most once and never
\* together with swapping spools: a write that was confirmed by the owner's own edit of the same
\* colour is on its way still, and only a second change lets it put an alias where no step says so.
THEOREM RefillKeepsAliasesOnRecord ==
    ASSUME ~ LateLands, FewEdits
    PROVE  RefillSpec => []RefillSound
<1>1. RefillInit => RefillInv /\ AliasInv
  BY InitRefill, InitAlias
<1>2. RefillInv /\ AliasInv /\ [RefillNext]_refillVars => (RefillInv /\ AliasInv)'
  BY RefillInvKept, AliasInvKept
<1>3. RefillInv /\ AliasInv => RefillSound
  <2>1. ASSUME RefillInv, AliasInv PROVE AliasAccounted
    BY <2>1 DEF AliasInv, AliasOnRecord, OnRecord, AliasAccounted
  <2> QED
    BY <2>1, TypesGive DEF RefillSound, RefillInv, SentOnce, NeverResent, OwesNothing, DisabledOwesNothing
<1> QED
  BY <1>1, <1>2, <1>3, PTL DEF RefillSpec
=============================================================================
