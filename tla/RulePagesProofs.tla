-------------------------- MODULE RulePagesProofs --------------------------
(***************************************************************************)
(* Proofs about RulePages, for any agents, servers, tools, patterns and    *)
(* entities, and any number of saves and accidents.                        *)
(*                                                                         *)
(* The rules in force and the files stay rule sets: each page makes a rule *)
(* set of the one that was in force.  A confirmed rule set stays, because  *)
(* a save writes the rules in force for all rule sets but those it shows,  *)
(* and what is confirmed is in force; an edit by hand is never confirmed.  *)
(* Only the panel of an agent writes none for the overrides it does not    *)
(* show, which are then in dropped.                                        *)
(* A constraint stays because a panel copies the constraint of a tool that *)
(* is ticked, and the matrix its limits, from the rules in force.          *)
(***************************************************************************)
EXTENDS RulePages, TLAPS

\* What the pages of an agent and of the defaults read.
LEMMA EffectiveTyped ==
    ASSUME Typed, NEW o \in Owners, NEW s \in Servers
    PROVE  Effective(o, s) \in Rules \cup {None}
<1>1. live \in [Owners -> [Servers -> Rules \cup {None}]] /\ Default \in Owners
  BY DEF Typed, Stored, Owners
<1> QED
  BY <1>1 DEF Effective, EffectiveIn

\* A tool of a rule set is under a constraint or under none.
LEMMA ConstraintTyped ==
    ASSUME NEW r \in Rules \cup {None}, NEW t \in Tools
    PROVE  ConstraintOf(r, t) \in Constraint \cup {None}
BY DEF ConstraintOf, Rules

\* A panel submits a rule set.
LEMMA PanelTyped ==
    ASSUME NEW r \in Rules \cup {None}, NEW form \in Ticks
    PROVE  FromPanel(r, form) \in Rules
<1>1. form.tools \in SUBSET Tools /\ form.patterns \in SUBSET Patterns
  BY DEF Ticks
<1>2. [t \in Tools |-> IF t \in form.tools THEN ConstraintOf(r, t) ELSE None]
          \in [Tools -> Constraint \cup {None}]
  BY ConstraintTyped
<1> QED
  BY <1>1, <1>2 DEF FromPanel, Rules

\* The constraint that the matrix makes for a tool with names.
LEMMA NameConstraintTyped ==
    ASSUME NEW r \in Rules \cup {None}, NEW form \in Matrix, NEW t \in NameTools
    PROVE  NameConstraint(r, form, t) \in Constraint \cup {None}
<1>1. form.cells[t] \in SUBSET Entities
  BY DEF Matrix
<1> DEFINE lim == Limited(ConstraintOf(r, t))
<1>2. t \in Tools
  BY PagesAssumption
<1>3. ConstraintOf(r, t) \in Constraint \cup {None}
  BY <1>2, ConstraintTyped
<1>4. lim \in BOOLEAN
  BY <1>3 DEF Limited, Constraint
<1>5. [gate |-> t \in form.gates, limits |-> lim, response |-> FALSE,
       named |-> form.cells[t] # {}, names |-> form.cells[t]] \in Constraint
  <2> DEFINE gate == t \in form.gates
             names == form.cells[t]
             named == names # {}
  <2>1. gate \in BOOLEAN /\ named \in BOOLEAN /\ (~named => names = {})
    OBVIOUS
  <2>2. names \in SUBSET Entities
    BY <1>1
  <2> HIDE DEF lim, gate, names, named
  <2>3. [gate |-> gate, limits |-> lim, response |-> FALSE, named |-> named, names |-> names] \in Constraint
    BY <2>1, <2>2, <1>4 DEF Constraint
  <2> QED  BY <2>3 DEF gate, names, named
<1> QED
  BY <1>5 DEF NameConstraint

\* The constraint that the matrix makes for a tool without.
LEMMA OtherConstraintTyped ==
    ASSUME NEW r \in Rules \cup {None}, NEW form \in Matrix, NEW t \in Tools
    PROVE  OtherConstraint(r, form, t) \in Constraint \cup {None}
<1> DEFINE c == ConstraintOf(r, t)
           named == c # None /\ c.named
           names == IF named THEN c.names ELSE {}
<1>1. c \in Constraint \cup {None}
  BY ConstraintTyped
<1>2. Limited(c) \in BOOLEAN /\ named \in BOOLEAN /\ names \in SUBSET Entities /\ (~named => names = {})
  <2> HIDE DEF c
  <2> QED  BY <1>1 DEF Limited, Constraint
<1>3. [gate |-> t \in form.gates, limits |-> Limited(c), response |-> FALSE,
       named |-> named, names |-> names] \in Constraint
  <2> HIDE DEF c, named, names
  <2> QED  BY <1>2 DEF Constraint
<1> QED
  BY <1>3 DEF OtherConstraint

\* The matrix submits a rule set.
LEMMA MatrixTyped ==
    ASSUME NEW r \in Rules \cup {None}, NEW form \in Matrix
    PROVE  FromMatrix(r, form) \in Rules
<1> DEFINE others == form.others \cap form.listed
           constraint(t) == CASE t \in NameTools \cap form.listed -> NameConstraint(r, form, t)
                              [] t \in others -> OtherConstraint(r, form, t)
                              [] OTHER -> None
<1>1. others \subseteq Tools /\ others \cap NameTools = {}
  BY DEF Matrix
<1>2. ASSUME NEW t \in Tools PROVE constraint(t) \in Constraint \cup {None}
  <2>1. CASE t \in NameTools \cap form.listed
    <3>1. constraint(t) = NameConstraint(r, form, t)
      BY <2>1, <1>1
    <3> QED  BY <3>1, <2>1, NameConstraintTyped
  <2>2. CASE t \in others
    <3>1. constraint(t) = OtherConstraint(r, form, t)
      BY <2>2, <1>1
    <3> QED  BY <3>1, OtherConstraintTyped
  <2>3. CASE ~(t \in NameTools \cap form.listed) /\ t \notin others
    BY <2>3
  <2> QED  BY <2>1, <2>2, <2>3
<1>3. (IF r = None THEN {} ELSE r.patterns) \in SUBSET Patterns
  BY DEF Rules
<1>4. {t \in others : constraint(t) = None} \in SUBSET Tools
  BY <1>1
<1>5. [t \in Tools |-> constraint(t)] \in [Tools -> Constraint \cup {None}]
  BY <1>2
<1>6. FromMatrix(r, form) = [allow     |-> {t \in others : constraint(t) = None},
                             patterns  |-> IF r = None THEN {} ELSE r.patterns,
                             constrain |-> [t \in Tools |-> constraint(t)]]
  BY DEF FromMatrix
<1> HIDE DEF others, constraint
<1> QED
  BY <1>3, <1>4, <1>5, <1>6 DEF Rules

\* The editor submits a rule set.
LEMMA EditorTyped ==
    ASSUME NEW r \in Rules \cup {None}, NEW t \in Tools, NEW c \in Constraint \cup {None}
    PROVE  FromEditor(r, t, c) \in Rules
<1> DEFINE base == IF r = None
                   THEN [allow |-> {}, patterns |-> {}, constrain |-> [x \in Tools |-> None]]
                   ELSE r
<1>1. base \in Rules
  BY DEF Rules
<1>2. FromEditor(r, t, c) = [base EXCEPT !.allow = IF c = None THEN @ \cup {t} ELSE @ \ {t},
                                         !.constrain[t] = c]
  BY DEF FromEditor
<1> DEFINE allow == IF c = None THEN base.allow \cup {t} ELSE base.allow \ {t}
           constrain == [base.constrain EXCEPT ![t] = c]
<1>3. FromEditor(r, t, c) = [allow |-> allow, patterns |-> base.patterns, constrain |-> constrain]
  <2> HIDE DEF base
  <2> QED  BY <1>1, <1>2 DEF Rules
<1>4. allow \in SUBSET Tools /\ base.patterns \in SUBSET Patterns
         /\ constrain \in [Tools -> Constraint \cup {None}]
  <2> HIDE DEF base
  <2> QED  BY <1>1 DEF Rules
<1> HIDE DEF base, allow, constrain
<1> QED
  BY <1>3, <1>4 DEF Rules

-----------------------------------------------------------------------------
(* The inductive invariant *)

IInv == Typed /\ SavedStays

Row == [Servers -> Rules \cup {None}]

\* What a save drops: no rule set that the page shows, and every other one that it changes is
\* an override that the panel of its agent does not show.
Drops(o, row, servers) ==
    /\ dropped' \subseteq Agents \X Servers
    /\ \A x \in Owners, s \in Servers :
           /\ <<x, s>> \in dropped' => <<x, s>> \in dropped \/ s \in Unshown(x)
           /\ <<x, s>> \in dropped => <<x, s>> \in dropped' \/ (x = o /\ s \in servers)
    /\ \A s \in Servers : s \in servers \/ row[s] = live[o][s] \/ <<o, s>> \in dropped'

\* What a page writes and loads is typed.
LEMMA FinishTyped ==
    ASSUME Typed, NEW o \in Owners, NEW row \in Row, NEW servers, Finish(o, row, servers),
           Drops(o, row, servers)
    PROVE  Typed'
<1>1. file \in [Owners -> Row] /\ live \in [Owners -> Row]
  BY DEF Typed, Stored, Row
<1>2. file' = Written(o, row)
  BY DEF Finish
<1>3. ASSUME NEW x \in Owners PROVE (IF (x = Default) = (o = Default) THEN Rebuilt(o, row)[x] ELSE file[x]) \in Row
  <2>1. Rebuilt(o, row)[x] \in Row
    BY <1>1 DEF Rebuilt
  <2> QED  BY <1>1, <2>1
<1>4. file' \in [Owners -> Row]
  BY <1>2, <1>3 DEF Written
<1>5. live' \in [Owners -> Row]
  BY <1>1, <1>4 DEF Finish
<1>6. ASSUME NEW s \in Servers
      PROVE  (IF s \in servers THEN IF loads THEN row[s] ELSE Unsure ELSE told[o][s])
                 \in Rules \cup {None, Unsure}
  BY <1>6 DEF Typed, Row
<1>7. told' \in [Owners -> [Servers -> Rules \cup {None, Unsure}]]
  BY <1>6 DEF Typed, Finish
<1> QED
  BY <1>4, <1>5, <1>7 DEF Typed, Stored, Row, Drops

\* A save keeps what was confirmed of others, and confirms what it wrote.
LEMMA FinishStays ==
    ASSUME IInv, NEW o \in Owners, NEW row \in Row, NEW servers, Finish(o, row, servers),
           Drops(o, row, servers)
    PROVE  SavedStays'
<1> SUFFICES ASSUME NEW x \in Owners, NEW s \in Servers
             PROVE  IF <<x, s>> \in dropped' THEN s \in Unshown(x) ELSE Kept(x, s)'
  BY DEF SavedStays
<1>1. /\ file \in [Owners -> Row] /\ live \in [Owners -> Row]
      /\ told \in [Owners -> [Servers -> Rules \cup {None, Unsure}]]
  BY DEF IInv, Typed, Stored, Row
<1>2. live' = IF loads THEN file' ELSE live
  BY DEF Finish
<1>3. CASE <<x, s>> \in dropped'
  BY <1>3 DEF Drops, IInv, SavedStays
<1>4. CASE <<x, s>> \notin dropped'
  <2> SUFFICES ASSUME told'[x][s] # Unsure
               PROVE  file'[x][s] = told'[x][s] /\ live'[x][s] = told'[x][s]
    BY <1>4 DEF Kept
  <2>1. <<x, s>> \notin dropped \/ (x = o /\ s \in servers)
    BY <1>4 DEF Drops
  <2>2. CASE x = o
    <3>1. file'[x] = row
      BY <1>1, <2>2 DEF Finish, Written, Rebuilt
    <3>2. told'[x][s] = IF s \in servers THEN IF loads THEN row[s] ELSE Unsure ELSE told[o][s]
      BY <1>1, <2>2 DEF Finish
    <3>3. CASE s \in servers
      BY <1>2, <2>2, <3>1, <3>2, <3>3
    <3>4. CASE s \notin servers
      <4>1. row[s] = live[o][s]
        BY <1>4, <2>2, <3>4 DEF Drops
      <4>2. told'[x][s] = told[o][s] /\ live[o][s] = told[o][s]
        BY <2>1, <2>2, <3>2, <3>4 DEF IInv, SavedStays, Kept
      <4> QED  BY <1>2, <2>2, <3>1, <4>1, <4>2
    <3> QED  BY <3>3, <3>4
  <2>3. CASE x # o
    <3>1. told'[x] = told[x]
      BY <1>1, <2>3 DEF Finish
    <3>2. file[x][s] = told[x][s] /\ live[x][s] = told[x][s]
      BY <2>1, <2>3, <3>1 DEF IInv, SavedStays, Kept
    <3>3. Rebuilt(o, row)[x] = live[x]
      BY <1>1, <2>3 DEF Rebuilt
    <3>4. file'[x] = live[x] \/ file'[x] = file[x]
      BY <3>3 DEF Finish, Written
    <3> QED  BY <1>2, <3>1, <3>2, <3>4
  <2> QED  BY <2>2, <2>3
<1> QED
  BY <1>3, <1>4

\* Every save keeps the invariant.
LEMMA FinishKeeps ==
    ASSUME IInv, NEW o \in Owners, NEW row \in Row, NEW servers, Finish(o, row, servers),
           Drops(o, row, servers)
    PROVE  IInv'
BY FinishTyped, FinishStays DEF IInv

\* A save of one rule set drops nothing.
LEMMA OneDrops ==
    ASSUME Typed, NEW o \in Owners, NEW s \in Servers, NEW r \in Rules,
           dropped' = dropped \ {<<o, s>>}
    PROVE  Drops(o, [live[o] EXCEPT ![s] = r], {s})
<1>1. live[o] \in Row
  BY DEF Typed, Stored, Row
<1>2. \A x \in Servers : x = s \/ [live[o] EXCEPT ![s] = r][x] = live[o][x]
  BY <1>1 DEF Row
<1> QED
  BY <1>2 DEF Drops, Typed

\* A row in which one rule set is replaced.
LEMMA RowReplaced ==
    ASSUME Typed, NEW o \in Owners, NEW s \in Servers, NEW r \in Rules
    PROVE  [live[o] EXCEPT ![s] = r] \in Row
BY DEF Typed, Stored, Row

\* The first start.
LEMMA InitHolds == Init => IInv
<1> SUFFICES ASSUME Init PROVE IInv
  OBVIOUS
<1>1. file \in Stored /\ live = file /\ told = file /\ dropped = {}
  BY PagesAssumption DEF Init
<1>2. told \in [Owners -> [Servers -> Rules \cup {None, Unsure}]]
  BY <1>1 DEF Stored
<1> QED
  BY <1>1, <1>2 DEF IInv, Typed, SavedStays, Kept

\* Every step.
LEMMA NextKeeps == IInv /\ [Next]_vars => IInv'
<1> SUFFICES ASSUME IInv, [Next]_vars PROVE IInv'
  OBVIOUS
<1>0. Typed /\ Default \in Owners /\ Agents \subseteq Owners
  BY DEF IInv, Owners
<1>1. ASSUME NEW a \in Agents, AgentPanel(a) PROVE IInv'
  <2>1. PICK form \in [Shown(a) -> Ticks] :
            /\ Finish(a, [s \in Servers |->
                             IF s \in Shown(a) THEN FromPanel(Effective(a, s), form[s]) ELSE None],
                      Shown(a))
            /\ dropped' = dropped \cup {<<a, s>> : s \in {x \in Unshown(a) : live[a][x] # None}}
    BY <1>1 DEF AgentPanel, ApplyAgentPanel
  <2> DEFINE row == [s \in Servers |->
                        IF s \in Shown(a) THEN FromPanel(Effective(a, s), form[s]) ELSE None]
  <2>2. ASSUME NEW s \in Servers, s \in Shown(a)
        PROVE  FromPanel(Effective(a, s), form[s]) \in Rules
    <3>1. Effective(a, s) \in Rules \cup {None}
      BY <1>0, EffectiveTyped
    <3>2. form[s] \in Ticks
      BY <2>2
    <3> QED  BY <3>1, <3>2, PanelTyped
  <2>3. row \in Row
    BY <2>2 DEF Row
  <2>4. ASSUME NEW s \in Servers
        PROVE  s \in Shown(a) \/ row[s] = live[a][s] \/ <<a, s>> \in dropped'
    BY <2>1 DEF Unshown
  <2>5. Finish(a, row, Shown(a))
    BY <2>1
  <2> HIDE DEF row
  <2>6. Drops(a, row, Shown(a))
    BY <1>0, <2>1, <2>4 DEF Drops, Typed, Unshown
  <2> QED  BY <1>0, <2>3, <2>5, <2>6, FinishKeeps
<1>2. ASSUME NEW s \in Servers, DefaultsPanel(s) PROVE IInv'
  <2>1. PICK form \in Ticks :
            /\ Finish(Default, [live[Default] EXCEPT ![s] = FromPanel(live[Default][s], form)], {s})
            /\ dropped' = dropped
    BY <1>2 DEF DefaultsPanel, ApplyDefaultsPanel
  <2>2. live[Default][s] \in Rules \cup {None}
    BY <1>0 DEF Typed, Stored
  <2>3. FromPanel(live[Default][s], form) \in Rules
    BY <2>2, PanelTyped
  <2>4. [live[Default] EXCEPT ![s] = FromPanel(live[Default][s], form)] \in Row
    BY <1>0, <2>3, RowReplaced
  <2>5. dropped' = dropped \ {<<Default, s>>}
    BY <1>0, <2>1, PagesAssumption DEF Typed
  <2>6. Drops(Default, [live[Default] EXCEPT ![s] = FromPanel(live[Default][s], form)], {s})
    BY <1>0, <2>3, <2>5, OneDrops
  <2> QED  BY <1>0, <2>1, <2>4, <2>6, FinishKeeps
<1>3. ASSUME NEW a \in Agents, NEW s \in Servers, EntityPage(a, s) PROVE IInv'
  <2>1. PICK form \in Matrix :
            Finish(a, [live[a] EXCEPT ![s] = FromMatrix(Effective(a, s), form)], {s})
    BY <1>3 DEF EntityPage
  <2>2. Effective(a, s) \in Rules \cup {None}
    BY <1>0, EffectiveTyped
  <2>3. FromMatrix(Effective(a, s), form) \in Rules
    BY <2>2, MatrixTyped
  <2>4. [live[a] EXCEPT ![s] = FromMatrix(Effective(a, s), form)] \in Row
    BY <1>0, <2>3, RowReplaced
  <2>5. Drops(a, [live[a] EXCEPT ![s] = FromMatrix(Effective(a, s), form)], {s})
    BY <1>0, <1>3, <2>3, OneDrops DEF EntityPage
  <2> QED  BY <1>0, <2>1, <2>4, <2>5, FinishKeeps
<1>4. ASSUME NEW o \in Owners, NEW s \in Servers, NEW t \in Tools, ToolEditor(o, s, t) PROVE IInv'
  <2>1. PICK c \in Offered \cup {None} :
            Finish(o, [live[o] EXCEPT ![s] = FromEditor(Effective(o, s), t, c)], {s})
    BY <1>4 DEF ToolEditor
  <2>2. Effective(o, s) \in Rules \cup {None} /\ c \in Constraint \cup {None}
    BY <1>0, EffectiveTyped, PagesAssumption
  <2>3. FromEditor(Effective(o, s), t, c) \in Rules
    BY <2>2, EditorTyped
  <2>4. [live[o] EXCEPT ![s] = FromEditor(Effective(o, s), t, c)] \in Row
    BY <1>0, <2>3, RowReplaced
  <2>5. Drops(o, [live[o] EXCEPT ![s] = FromEditor(Effective(o, s), t, c)], {s})
    BY <1>0, <1>4, <2>3, OneDrops DEF ToolEditor
  <2> QED  BY <1>0, <2>1, <2>4, <2>5, FinishKeeps
<1>5. ASSUME NEW o \in Owners, NEW s \in Servers, HandEdit(o, s) PROVE IInv'
  <2>1. PICK r \in ByHand : file' = [file EXCEPT ![o][s] = r]
    BY <1>5 DEF HandEdit
  <2>2. r \in Rules \cup {None}
    BY PagesAssumption
  <2>3. told' = [told EXCEPT ![o][s] = Unsure] /\ live' = live /\ dropped' = dropped \ {<<o, s>>}
    BY <1>5 DEF HandEdit
  <2>4. Typed'
    BY <1>0, <2>1, <2>2, <2>3 DEF Typed, Stored
  <2>5. ASSUME NEW x \in Owners, NEW y \in Servers
        PROVE  IF <<x, y>> \in dropped' THEN y \in Unshown(x) ELSE Kept(x, y)'
    <3>1. IF <<x, y>> \in dropped THEN y \in Unshown(x) ELSE Kept(x, y)
      BY DEF IInv, SavedStays
    <3>2. CASE x = o /\ y = s
      BY <1>0, <2>3, <3>2 DEF Kept, Typed
    <3>3. CASE ~(x = o /\ y = s)
      <4>1. told'[x][y] = told[x][y] /\ file'[x][y] = file[x][y]
        BY <1>0, <2>1, <2>3, <3>3 DEF Typed, Stored
      <4> QED  BY <2>3, <3>1, <3>3, <4>1 DEF Kept
    <3> QED  BY <3>2, <3>3
  <2> QED  BY <2>4, <2>5 DEF IInv, SavedStays
<1>6. ASSUME BreakOther \/ RepairOther PROVE IInv'
  BY <1>6 DEF BreakOther, RepairOther, IInv, Typed, SavedStays, Kept
<1>7. ASSUME Restart PROVE IInv'
  BY <1>7 DEF Restart, IInv, Typed, SavedStays, Kept
<1>8. CASE UNCHANGED vars
  BY <1>8 DEF vars, IInv, Typed, SavedStays, Kept
<1> QED
  BY <1>1, <1>2, <1>3, <1>4, <1>5, <1>6, <1>7, <1>8 DEF Next

\* The files, the rules in force and the confirmations keep their types, and what a page
\* confirmed is in its file and in force until a page that shows that rule set saves it again,
\* unless it is an override that the panel of its agent does not show, and dropped.
THEOREM Invariant == Spec => []IInv
BY InitHolds, NextKeeps, PTL DEF Spec

\* No save, restart or edit elsewhere undoes what a page confirmed, neither for other agents nor
\* for the same one, but for the overrides that an agent's panel drops because it does not show
\* them.
THEOREM SavedRulesStay == Spec => []SavedStays
<1>1. IInv => SavedStays
  BY DEF IInv
<1> QED
  BY <1>1, Invariant, PTL

\* What is counted is bounded.
Counted == loads \in BOOLEAN /\ saves \in 0..MaxSaves /\ accidents \in 0..MaxAccidents

\* One more save.
LEMMA SavingCounted ==
    ASSUME Counted, Saving, UNCHANGED <<loads, accidents>>
    PROVE  Counted'
<1>1. saves' \in 0..MaxSaves
  BY PagesAssumption DEF Counted, Saving
<1> QED
  BY <1>1 DEF Counted

\* One more accident.
LEMMA AccidentCounted ==
    ASSUME Counted, Accident, loads' \in BOOLEAN, saves' = saves
    PROVE  Counted'
<1>1. accidents' \in 0..MaxAccidents
  BY PagesAssumption DEF Counted, Accident
<1> QED
  BY <1>1 DEF Counted

\* Every step counts within the bounds.
LEMMA NextCounts == Counted /\ [Next]_vars => Counted'
<1> SUFFICES ASSUME Counted, [Next]_vars PROVE Counted'
  OBVIOUS
<1>1. ASSUME NEW a \in Agents, AgentPanel(a) PROVE Counted'
  BY <1>1, SavingCounted DEF AgentPanel, ApplyAgentPanel, Finish
<1>2. ASSUME NEW s \in Servers, DefaultsPanel(s) PROVE Counted'
  BY <1>2, SavingCounted DEF DefaultsPanel, ApplyDefaultsPanel, Finish
<1>3. ASSUME NEW a \in Agents, NEW s \in Servers, EntityPage(a, s) PROVE Counted'
  BY <1>3, SavingCounted DEF EntityPage, Finish
<1>4. ASSUME NEW o \in Owners, NEW s \in Servers, NEW t \in Tools, ToolEditor(o, s, t) PROVE Counted'
  BY <1>4, SavingCounted DEF ToolEditor, Finish
<1>5. ASSUME NEW o \in Owners, NEW s \in Servers, HandEdit(o, s) PROVE Counted'
  <2>1. loads' \in BOOLEAN
    BY <1>5 DEF HandEdit, Counted
  <2> QED  BY <1>5, <2>1, AccidentCounted DEF HandEdit
<1>6. CASE BreakOther
  BY <1>6, AccidentCounted DEF BreakOther
<1>7. CASE RepairOther
  BY <1>7 DEF RepairOther, Counted
<1>8. CASE Restart
  BY <1>8 DEF Restart, Counted
<1>9. CASE UNCHANGED vars
  BY <1>9 DEF vars, Counted
<1> QED
  BY <1>1, <1>2, <1>3, <1>4, <1>5, <1>6, <1>7, <1>8, <1>9 DEF Next

\* Type correctness of the pages, for any agents, servers, tools and rule sets: whatever is
\* submitted, files and process hold rule sets, and no more is done than the bounds allow.
THEOREM TypeCorrect == Spec => []TypeOK
<1>1. Init => Counted
  BY PagesAssumption DEF Init, Counted
<1>2. Spec => []Counted
  BY <1>1, NextCounts, PTL DEF Spec
<1>3. IInv /\ Counted => TypeOK
  BY DEF IInv, Counted, TypeOK
<1> QED
  BY <1>2, <1>3, Invariant, PTL

-----------------------------------------------------------------------------
(* Applying a panel as it is shown *)

\* For any rule set: the same tools are permitted, under the same constraints.
LEMMA SameDecision ==
    ASSUME NEW r \in Rules \cup {None}, NEW t \in Tools
    PROVE  /\ Permits(FromPanel(r, AsShown(r)), t) = Permits(r, t)
           /\ ConstraintOf(FromPanel(r, AsShown(r)), t) = ConstraintOf(r, t)
<1> DEFINE again == FromPanel(r, AsShown(r))
<1>1. AsShown(r) \in Ticks
  BY DEF AsShown, Ticked, Ticks, Rules
<1>2. again \in Rules
  BY <1>1, PanelTyped
<1>3. again # None
  BY <1>2, PagesAssumption
<1>4. ConstraintOf(again, t) = again.constrain[t]
  BY <1>3 DEF ConstraintOf
<1>5. again.constrain[t] = IF t \in Ticked(r) THEN ConstraintOf(r, t) ELSE None
  BY DEF FromPanel, AsShown
<1>6. ConstraintOf(r, t) # None => t \in Ticked(r)
  BY DEF ConstraintOf, Ticked
<1>7. ConstraintOf(again, t) = ConstraintOf(r, t)
  BY <1>4, <1>5, <1>6
<1>8. CASE r = None
  <2>1. again.allow = {} /\ again.patterns = {}
    BY <1>8 DEF FromPanel, AsShown, Ticked
  <2>2. again.constrain[t] = None
    BY <1>4, <1>7, <1>8 DEF ConstraintOf
  <2>3. ~Permits(again, t) /\ ~Permits(r, t)
    BY <1>8, <2>1, <2>2 DEF Permits, ByPattern
  <2>4. Permits(again, t) = Permits(r, t)
    BY <2>3 DEF Permits
  <2> QED  BY <1>7, <2>4
<1>9. CASE r # None
  <2>1. again.patterns = r.patterns
    BY <1>9 DEF FromPanel, AsShown
  <2>2. again.constrain[t] = r.constrain[t]
    BY <1>4, <1>7, <1>9 DEF ConstraintOf
  <2>3. r.constrain[t] = None => (t \in again.allow <=> t \in r.allow)
    BY <1>9 DEF FromPanel, AsShown, Ticked, ConstraintOf
  <2>4. Permits(again, t) = Permits(r, t)
    BY <1>3, <1>9, <2>1, <2>2, <2>3 DEF Permits, ByPattern
  <2> QED  BY <1>7, <2>4
<1> QED
  BY <1>8, <1>9

\* What a save leaves in force for an agent, when no edit by hand waits to be loaded: the row
\* that was saved, if it was saved for the agent or for the defaults it is under.
LEMMA InForceAfter ==
    ASSUME Typed, file = live, NEW o \in Owners, NEW row \in Row, NEW servers, Finish(o, row, servers),
           NEW a \in Agents, NEW s \in Servers
    PROVE  \/ EffectiveIn(live', a, s) = Effective(a, s)
           \/ EffectiveIn(live', a, s) = row[s] /\ o = a /\ row[s] # None
           \/ EffectiveIn(live', a, s) = row[s] /\ o = Default /\ live[a][s] = None
           \/ EffectiveIn(live', a, s) = live[Default][s] /\ o = a /\ row[s] = None
<1>1. /\ file \in [Owners -> Row] /\ live \in [Owners -> Row]
      /\ a \in Owners /\ Default \in Owners /\ a # Default
  BY PagesAssumption DEF Typed, Stored, Row, Owners
<1>2. live' = live \/ live' = Written(o, row)
  BY DEF Finish
<1>3. CASE live' = live
  BY <1>3 DEF Effective
<1>4. CASE live' = Written(o, row)
  <2>1. ASSUME NEW x \in Owners PROVE live'[x] = IF x = o THEN row ELSE live[x]
    BY <1>1, <1>4 DEF Written, Rebuilt
  <2>2. live'[a] = (IF a = o THEN row ELSE live[a]) /\ live'[Default] = IF Default = o THEN row ELSE live[Default]
    BY <1>1, <2>1
  <2>3. CASE o = a
    BY <1>1, <2>2, <2>3 DEF EffectiveIn
  <2>4. CASE o # a
    BY <1>1, <2>2, <2>4 DEF EffectiveIn, Effective
  <2> QED  BY <2>3, <2>4
<1> QED
  BY <1>2, <1>3, <1>4

\* The rules in force for an agent, after a save that leaves them, or replaces them by what a
\* panel makes of them as they are shown, decide as before.
LEMMA SameAfter ==
    ASSUME Typed, NEW b \in Agents, NEW s \in Servers,
           \/ EffectiveIn(live', b, s) = Effective(b, s)
           \/ EffectiveIn(live', b, s) = FromPanel(Effective(b, s), AsShown(Effective(b, s)))
    PROVE  SameRules(b, s)
<1>1. Effective(b, s) \in Rules \cup {None}
  BY EffectiveTyped DEF Owners
<1>2. CASE EffectiveIn(live', b, s) = Effective(b, s)
  BY <1>2 DEF SameRules
<1>3. CASE EffectiveIn(live', b, s) = FromPanel(Effective(b, s), AsShown(Effective(b, s)))
  BY <1>1, <1>3, SameDecision DEF SameRules
<1> QED
  BY <1>2, <1>3

\* The panel of an agent, applied as it is shown.
LEMMA AgentPanelSame ==
    ASSUME Typed, file = live, NEW a \in Agents, ApplyAgentPanel(a, AsItIs(a)),
           NEW b \in Agents, NEW s \in Servers
    PROVE  SameRules(b, s) \/ (b = a /\ s \in Unshown(a) /\ live[a][s] # None)
<1> DEFINE row == [x \in Servers |->
                      IF x \in Shown(a) THEN FromPanel(Effective(a, x), AsItIs(a)[x]) ELSE None]
<1>1. Finish(a, row, Shown(a))
  BY DEF ApplyAgentPanel
<1>2. a \in Owners /\ a # Default
  BY PagesAssumption DEF Owners
<1>3. ASSUME NEW x \in Servers, x \in Shown(a)
      PROVE  row[x] = FromPanel(Effective(a, x), AsShown(Effective(a, x))) /\ row[x] \in Rules
  <2>1. row[x] = FromPanel(Effective(a, x), AsShown(Effective(a, x)))
    BY <1>3 DEF AsItIs
  <2>2. Effective(a, x) \in Rules \cup {None}
    BY <1>2, EffectiveTyped
  <2>3. AsShown(Effective(a, x)) \in Ticks
    BY <2>2 DEF AsShown, Ticked, Ticks, Rules
  <2> HIDE DEF row
  <2> QED  BY <2>1, <2>2, <2>3, PanelTyped
<1>4. ASSUME NEW x \in Servers, x \notin Shown(a) PROVE row[x] = None
  BY <1>4
<1> HIDE DEF row
<1>5. row \in Row
  <2>1. row = [x \in Servers |-> row[x]]
    BY DEF row
  <2> QED  BY <1>3, <1>4, <2>1 DEF Row
<1>6. \/ EffectiveIn(live', b, s) = Effective(b, s)
      \/ EffectiveIn(live', b, s) = row[s] /\ a = b /\ row[s] # None
      \/ EffectiveIn(live', b, s) = row[s] /\ a = Default /\ live[b][s] = None
      \/ EffectiveIn(live', b, s) = live[Default][s] /\ a = b /\ row[s] = None
  BY <1>1, <1>2, <1>5, InForceAfter
<1>7. CASE EffectiveIn(live', b, s) = Effective(b, s)
  BY <1>7, SameAfter
<1>8. CASE EffectiveIn(live', b, s) = row[s] /\ a = b /\ row[s] # None
  BY <1>3, <1>4, <1>8, SameAfter
<1>9. CASE EffectiveIn(live', b, s) = live[Default][s] /\ a = b /\ row[s] = None
  <2>1. s \in Unshown(a)
    BY <1>3, <1>9, PagesAssumption DEF Unshown
  <2>2. live[a][s] = None => EffectiveIn(live', b, s) = Effective(b, s)
    BY <1>9 DEF Effective, EffectiveIn
  <2> QED  BY <1>9, <2>1, <2>2, SameAfter
<1> QED
  BY <1>2, <1>6, <1>7, <1>8, <1>9

\* The panel of a server's defaults, applied as it is shown.
LEMMA DefaultsPanelSame ==
    ASSUME Typed, file = live, NEW d \in Servers, ApplyDefaultsPanel(d, AsShown(live[Default][d])),
           NEW b \in Agents, NEW s \in Servers
    PROVE  SameRules(b, s)
<1> DEFINE submitted == FromPanel(live[Default][d], AsShown(live[Default][d]))
           row == [live[Default] EXCEPT ![d] = submitted]
<1>1. Default \in Owners /\ b # Default /\ live[Default] \in Row
  BY PagesAssumption DEF Typed, Stored, Row, Owners
<1>2. submitted \in Rules
  <2>1. live[Default][d] \in Rules \cup {None}
    BY <1>1 DEF Row
  <2>2. AsShown(live[Default][d]) \in Ticks
    BY <2>1 DEF AsShown, Ticked, Ticks, Rules
  <2> QED  BY <2>1, <2>2, PanelTyped
<1>3. row \in Row
  BY <1>1, <1>2, RowReplaced
<1>4. Finish(Default, row, {d})
  BY DEF ApplyDefaultsPanel
<1>5. row[s] = live[Default][s] \/ row[s] = FromPanel(live[Default][s], AsShown(live[Default][s]))
  BY <1>1 DEF Row
<1> HIDE DEF row
<1>6. \/ EffectiveIn(live', b, s) = Effective(b, s)
      \/ EffectiveIn(live', b, s) = row[s] /\ Default = b /\ row[s] # None
      \/ EffectiveIn(live', b, s) = row[s] /\ Default = Default /\ live[b][s] = None
      \/ EffectiveIn(live', b, s) = live[Default][s] /\ Default = b /\ row[s] = None
  BY <1>1, <1>3, <1>4, InForceAfter
<1>7. live[b][s] = None => Effective(b, s) = live[Default][s]
  BY DEF Effective, EffectiveIn
<1> QED
  BY <1>1, <1>5, <1>6, <1>7, SameAfter

\* To open a panel, an agent's or that of a server's defaults, and apply it as it is shown
\* changes no permission and no constraint of any agent for any server, but for the overrides
\* of the agent that its panel does not show.
THEOREM ResavingIsHarmless == Spec => ResaveIsHarmless
<1>1. IInv => ChangesNothingShown
  BY AgentPanelSame, DefaultsPanelSame DEF IInv, ChangesNothingShown, Servers
<1>2. IInv /\ [Next]_vars => [ChangesNothingShown]_vars
  BY <1>1
<1> QED
  BY <1>2, Invariant, PTL DEF Spec, ResaveIsHarmless

-----------------------------------------------------------------------------
(* Constraints *)

\* A panel leaves the constraint of a tool, or closes the tool, or a pattern opens it.
LEMMA PanelHolds ==
    ASSUME NEW old \in Rules \cup {None}, NEW form \in Ticks, NEW t \in Tools,
           ConstraintOf(old, t) # None
    PROVE  Held(FromPanel(old, form), t, LAMBDA d : d = ConstraintOf(old, t))
<1> DEFINE r == FromPanel(old, form)
           c == ConstraintOf(old, t)
<1>1. r \in Rules /\ r # None
  BY PanelTyped, PagesAssumption
<1>2. ConstraintOf(r, t) = IF t \in form.tools THEN c ELSE None
  BY <1>1 DEF ConstraintOf, FromPanel
<1>3. t \in form.tools \/ t \notin r.allow
  BY DEF FromPanel
<1>4. ConstraintOf(r, t) = r.constrain[t]
  BY <1>1 DEF ConstraintOf
<1> HIDE DEF r, c
<1>5. CASE t \in form.tools
  <2>1. ConstraintOf(r, t) # None /\ ConstraintOf(r, t) = c
    BY <1>2, <1>5 DEF c
  <2> QED  BY <2>1 DEF Held, r, c
<1>6. CASE t \notin form.tools
  <2>1. ConstraintOf(r, t) = None /\ t \notin r.allow
    BY <1>2, <1>3, <1>6
  <2>2. ~Permits(r, t) \/ ByPattern(r, t)
    BY <1>4, <2>1 DEF Permits
  <2> QED  BY <2>1, <2>2 DEF Held, r, c
<1> QED
  BY <1>5, <1>6

\* The constraints that the matrix makes are constraints.
LEMMA MadeIsConstraint ==
    ASSUME NEW gate \in BOOLEAN, NEW limits \in BOOLEAN, NEW named \in BOOLEAN,
           NEW names \in SUBSET Entities, ~named => names = {}
    PROVE  [gate |-> gate, limits |-> limits, response |-> FALSE, named |-> named, names |-> names] # None
<1>1. [gate |-> gate, limits |-> limits, response |-> FALSE, named |-> named, names |-> names] \in Constraint
  BY DEF Constraint
<1> QED
  BY <1>1, PagesAssumption

\* What the matrix makes of a limited constraint is limited, with names and without.
LEMMA NamedLimits ==
    ASSUME NEW old \in Rules \cup {None}, NEW form \in Matrix, NEW t \in NameTools,
           Limited(ConstraintOf(old, t))
    PROVE  NameConstraint(old, form, t) # None /\ NameConstraint(old, form, t).limits
<1> DEFINE gate == t \in form.gates
           names == form.cells[t]
           named == names # {}
<1>1. NameConstraint(old, form, t) =
          [gate |-> gate, limits |-> Limited(ConstraintOf(old, t)), response |-> FALSE,
           named |-> named, names |-> names]
  BY DEF NameConstraint
<1>2. names \in SUBSET Entities
  BY DEF Matrix
<1>3. gate \in BOOLEAN /\ named \in BOOLEAN /\ Limited(ConstraintOf(old, t)) = TRUE
  <2>1. t \in Tools
    BY PagesAssumption
  <2>2. Limited(ConstraintOf(old, t)) \in BOOLEAN
    BY <2>1, ConstraintTyped DEF Limited, Constraint
  <2> QED  BY <2>2
<1> HIDE DEF gate, names
<1>4. NameConstraint(old, form, t) # None
  BY <1>1, <1>2, <1>3, MadeIsConstraint
<1>5. NameConstraint(old, form, t).limits = TRUE
  BY <1>1, <1>3
<1> QED
  BY <1>4, <1>5

\* The same for a tool without names.
LEMMA OtherLimits ==
    ASSUME NEW old \in Rules \cup {None}, NEW form \in Matrix, NEW t \in Tools,
           Limited(ConstraintOf(old, t))
    PROVE  OtherConstraint(old, form, t) # None /\ OtherConstraint(old, form, t).limits
<1> DEFINE c == ConstraintOf(old, t)
           gate == t \in form.gates
           named == c # None /\ c.named
           names == IF named THEN c.names ELSE {}
<1>1. OtherConstraint(old, form, t) =
          [gate |-> gate, limits |-> Limited(c), response |-> FALSE, named |-> named, names |-> names]
  BY DEF OtherConstraint
<1>2. c \in Constraint \cup {None}
  BY ConstraintTyped
<1>3. /\ gate \in BOOLEAN /\ named \in BOOLEAN /\ names \in SUBSET Entities
      /\ ~named => names = {}
      /\ Limited(c) \in BOOLEAN /\ Limited(c)
  <2> HIDE DEF c
  <2>1. Limited(c) \in BOOLEAN /\ named \in BOOLEAN /\ names \in SUBSET Entities
    BY <1>2 DEF Limited, Constraint
  <2> QED  BY <2>1 DEF c
<1> HIDE DEF c, gate, named, names
<1>4. OtherConstraint(old, form, t) # None
  BY <1>1, <1>3, MadeIsConstraint
<1>5. OtherConstraint(old, form, t).limits = Limited(c)
  BY <1>1
<1> QED
  BY <1>3, <1>4, <1>5

\* The matrix leaves the limits of a tool, or closes the tool, or a pattern opens it.
LEMMA MatrixHolds ==
    ASSUME NEW old \in Rules \cup {None}, NEW form \in Matrix, NEW t \in Tools,
           Limited(ConstraintOf(old, t))
    PROVE  Held(FromMatrix(old, form), t, LAMBDA d : d.limits)
<1> DEFINE r == FromMatrix(old, form)
           others == form.others \cap form.listed
           constraint(x) == CASE x \in NameTools \cap form.listed -> NameConstraint(old, form, x)
                              [] x \in others -> OtherConstraint(old, form, x)
                              [] OTHER -> None
<1>1. r \in Rules /\ r # None
  BY MatrixTyped, PagesAssumption
<1>2. r.constrain[t] = constraint(t) /\ (t \in r.allow => t \in others /\ constraint(t) = None)
  BY DEF FromMatrix
<1>3. ConstraintOf(r, t) = r.constrain[t]
  BY <1>1 DEF ConstraintOf
<1>4. others \cap NameTools = {}
  BY DEF Matrix
<1>5. CASE t \in NameTools \cap form.listed
  <2>0. constraint(t) = NameConstraint(old, form, t)
    BY <1>4, <1>5
  <2>1. ConstraintOf(r, t) = NameConstraint(old, form, t)
    <3> HIDE DEF r, constraint
    <3> QED  BY <1>2, <1>3, <2>0
  <2>2. NameConstraint(old, form, t) # None
    BY <1>5, NamedLimits
  <2>3. NameConstraint(old, form, t).limits
    BY <1>5, NamedLimits
  <2> HIDE DEF r
  <2> QED  BY <2>1, <2>2, <2>3 DEF Held, r
<1>6. CASE t \in others
  <2>1. t \notin NameTools
    BY <1>4, <1>6
  <2>0. constraint(t) = OtherConstraint(old, form, t)
    BY <1>6, <2>1
  <2>2. ConstraintOf(r, t) = OtherConstraint(old, form, t)
    <3> HIDE DEF r, constraint
    <3> QED  BY <1>2, <1>3, <2>0
  <2>3. OtherConstraint(old, form, t) # None /\ OtherConstraint(old, form, t).limits
    BY OtherLimits
  <2> HIDE DEF r
  <2> QED  BY <2>2, <2>3 DEF Held, r
<1>7. CASE t \notin NameTools \cap form.listed /\ t \notin others
  <2>1. ConstraintOf(r, t) = None /\ t \notin r.allow
    BY <1>2, <1>3, <1>7
  <2>2. ~Permits(r, t) \/ ByPattern(r, t)
    BY <1>3, <2>1 DEF Permits
  <2> HIDE DEF r
  <2> QED  BY <2>1, <2>2 DEF Held, r
<1> QED
  BY <1>5, <1>6, <1>7

\* Neither a panel opens a tool that is under a constraint, nor the matrix one that is limited,
\* unless a pattern opens it, for the servers that the agent's panel shows.
THEOREM ConstraintsAreKept == Spec => ConstraintsStay
<1>1. ASSUME IInv, file = live, NEW a \in Agents, NEW s \in Shown(a), NEW t \in Tools
      PROVE  Panels /\ ConstraintOf(Effective(a, s), t) # None =>
                 Held(EffectiveIn(live', a, s), t, LAMBDA d : d = ConstraintOf(Effective(a, s), t))
  <2> DEFINE old == Effective(a, s)
             new == EffectiveIn(live', a, s)
  <2> SUFFICES ASSUME ConstraintOf(old, t) # None, Panels
               PROVE  Held(new, t, LAMBDA d : d = ConstraintOf(old, t))
    OBVIOUS
  <2>1. /\ Typed /\ a \in Owners /\ a # Default /\ Default \in Owners /\ Agents \subseteq Owners
        /\ Default \notin Agents /\ s \in Servers
    BY <1>1, PagesAssumption DEF IInv, Owners, Servers, Shown
  <2>2. old \in Rules \cup {None}
    BY <2>1, EffectiveTyped
  <2>3. \/ new = old
        \/ \E form \in Ticks : new = FromPanel(old, form)
    <3>1. ASSUME NEW b \in Agents, AgentPanel(b) PROVE new = old \/ \E form \in Ticks : new = FromPanel(old, form)
      <4>1. PICK form \in [Shown(b) -> Ticks] :
                Finish(b, [x \in Servers |->
                              IF x \in Shown(b) THEN FromPanel(Effective(b, x), form[x]) ELSE None], Shown(b))
        BY <3>1 DEF AgentPanel, ApplyAgentPanel
      <4> DEFINE row == [x \in Servers |->
                            IF x \in Shown(b) THEN FromPanel(Effective(b, x), form[x]) ELSE None]
      <4>2. ASSUME NEW x \in Servers, x \in Shown(b)
            PROVE  FromPanel(Effective(b, x), form[x]) \in Rules
        <5>1. Effective(b, x) \in Rules \cup {None}
          BY <2>1, EffectiveTyped
        <5>2. form[x] \in Ticks
          BY <4>2
        <5> QED  BY <5>1, <5>2, PanelTyped
      <4>3. row \in Row
        BY <4>2 DEF Row
      <4>4. b = a => row[s] = FromPanel(old, form[s]) /\ row[s] # None /\ form[s] \in Ticks
        <5> SUFFICES ASSUME b = a
                     PROVE  row[s] = FromPanel(old, form[s]) /\ row[s] # None /\ form[s] \in Ticks
          OBVIOUS
        <5>1. s \in Shown(b)
          OBVIOUS
        <5>2. row[s] = FromPanel(old, form[s])
          BY <2>1, <5>1
        <5>3. row[s] \in Rules
          BY <2>1, <4>2, <5>1
        <5>4. form[s] \in Ticks
          BY <5>1
        <5> QED  BY <5>2, <5>3, <5>4, PagesAssumption
      <4>5. Finish(b, row, Shown(b))
        BY <4>1
      <4> HIDE DEF row
      <4>6. \/ new = old
            \/ new = row[s] /\ b = a /\ row[s] # None
            \/ new = row[s] /\ b = Default /\ live[a][s] = None
            \/ new = live[Default][s] /\ b = a /\ row[s] = None
        BY <1>1, <2>1, <4>3, <4>5, InForceAfter
      <4> HIDE DEF old, new
      <4> QED  BY <2>1, <4>4, <4>6
    <3>2. ASSUME NEW x \in Servers, DefaultsPanel(x) PROVE new = old \/ \E form \in Ticks : new = FromPanel(old, form)
      <4>1. PICK form \in Ticks :
                Finish(Default, [live[Default] EXCEPT ![x] = FromPanel(live[Default][x], form)], {x})
        BY <3>2 DEF DefaultsPanel, ApplyDefaultsPanel
      <4> DEFINE row == [live[Default] EXCEPT ![x] = FromPanel(live[Default][x], form)]
      <4>2. live[Default] \in Row
        BY <2>1 DEF Typed, Stored, Row
      <4>3. FromPanel(live[Default][x], form) \in Rules
        BY <4>2, PanelTyped DEF Row
      <4>4. row \in Row
        BY <2>1, <4>3, RowReplaced
      <4>5. row[s] = live[Default][s] \/ row[s] = FromPanel(live[Default][s], form)
        BY <2>1, <4>2 DEF Row
      <4>6. live[a][s] = None => old = live[Default][s]
        BY DEF Effective, EffectiveIn
      <4>7. Finish(Default, row, {x})
        BY <4>1
      <4> HIDE DEF row
      <4>8. \/ new = old
            \/ new = row[s] /\ Default = a /\ row[s] # None
            \/ new = row[s] /\ Default = Default /\ live[a][s] = None
            \/ new = live[Default][s] /\ Default = a /\ row[s] = None
        BY <1>1, <2>1, <4>4, <4>7, InForceAfter
      <4> HIDE DEF old, new
      <4> QED  BY <2>1, <4>5, <4>6, <4>8
    <3> QED  BY <3>1, <3>2 DEF Panels
  <2>4. CASE new = old
    <3> HIDE DEF old, new
    <3> QED  BY <2>4 DEF Held
  <2>5. ASSUME NEW form \in Ticks, new = FromPanel(old, form) PROVE Held(new, t, LAMBDA d : d = ConstraintOf(old, t))
    <3> HIDE DEF old, new
    <3>1. Held(FromPanel(old, form), t, LAMBDA d : d = ConstraintOf(old, t))
      BY <2>2, PanelHolds
    <3> QED  BY <2>5, <3>1 DEF Held
  <2> QED
    BY <2>3, <2>4, <2>5
<1>2. ASSUME IInv, file = live, NEW a \in Agents, NEW s \in Shown(a), NEW t \in Tools
      PROVE  Matrices /\ Limited(ConstraintOf(Effective(a, s), t)) =>
                 Held(EffectiveIn(live', a, s), t, LAMBDA d : d.limits)
  <2> DEFINE old == Effective(a, s)
             new == EffectiveIn(live', a, s)
  <2> SUFFICES ASSUME Limited(ConstraintOf(old, t)), Matrices
               PROVE  Held(new, t, LAMBDA d : d.limits)
    OBVIOUS
  <2>1. /\ Typed /\ a \in Owners /\ a # Default /\ Agents \subseteq Owners
        /\ Default \notin Agents /\ s \in Servers
    BY <1>2, PagesAssumption DEF IInv, Owners, Servers, Shown
  <2>2. old \in Rules \cup {None}
    BY <2>1, EffectiveTyped
  <2>3. \/ new = old
        \/ \E form \in Matrix : new = FromMatrix(old, form)
    <3>1. PICK b \in Agents, x \in Servers : EntityPage(b, x)
      BY DEF Matrices
    <3>2. PICK form \in Matrix :
              Finish(b, [live[b] EXCEPT ![x] = FromMatrix(Effective(b, x), form)], {x})
      BY <3>1 DEF EntityPage
    <3> DEFINE row == [live[b] EXCEPT ![x] = FromMatrix(Effective(b, x), form)]
    <3>3. FromMatrix(Effective(b, x), form) \in Rules /\ FromMatrix(Effective(b, x), form) # None
      <4>1. Effective(b, x) \in Rules \cup {None}
        BY <2>1, EffectiveTyped
      <4> QED  BY <4>1, MatrixTyped, PagesAssumption
    <3>4. row \in Row
      BY <2>1, <3>3, RowReplaced
    <3>5. b = a => \/ row[s] = live[a][s]
                   \/ row[s] = FromMatrix(old, form) /\ row[s] # None
      <4>1. live[b] \in Row
        BY <2>1 DEF Typed, Stored, Row
      <4>2. CASE s = x
        <5>1. row[s] = FromMatrix(Effective(b, x), form)
          BY <2>1, <4>1, <4>2 DEF Row
        <5> QED  BY <3>3, <4>2, <5>1
      <4>3. CASE s # x
        BY <2>1, <4>1, <4>3 DEF Row
      <4> QED  BY <4>2, <4>3
    <3>6. old = IF live[a][s] # None THEN live[a][s] ELSE live[Default][s]
      BY DEF Effective, EffectiveIn
    <3>7. Finish(b, row, {x})
      BY <3>2
    <3> HIDE DEF row
    <3>8. \/ new = old
          \/ new = row[s] /\ b = a /\ row[s] # None
          \/ new = row[s] /\ b = Default /\ live[a][s] = None
          \/ new = live[Default][s] /\ b = a /\ row[s] = None
      BY <1>2, <2>1, <3>4, <3>7, InForceAfter
    <3> HIDE DEF old, new
    <3> QED  BY <2>1, <3>5, <3>6, <3>8
  <2>4. CASE new = old
    <3> HIDE DEF old, new
    <3> QED  BY <2>4 DEF Held, Limited
  <2>5. ASSUME NEW form \in Matrix, new = FromMatrix(old, form) PROVE Held(new, t, LAMBDA d : d.limits)
    <3> HIDE DEF old, new
    <3>1. Held(FromMatrix(old, form), t, LAMBDA d : d.limits)
      BY <2>2, MatrixHolds
    <3> QED  BY <2>5, <3>1 DEF Held
  <2> QED
    BY <2>3, <2>4, <2>5
<1>3. IInv /\ [Next]_vars => [OpensNoConstraint]_vars
  BY <1>1, <1>2 DEF OpensNoConstraint
<1> QED
  BY <1>3, Invariant, PTL DEF Spec, ConstraintsStay
=============================================================================
