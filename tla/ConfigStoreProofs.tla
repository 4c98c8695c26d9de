-------------------------- MODULE ConfigStoreProofs --------------------------
(***************************************************************************)
(* Proofs about ConfigStore, for every set of names and secrets, any       *)
(* number of saves and accidents and every directory to start with.        *)
(***************************************************************************)
EXTENDS ConfigStore, SequenceTheorems, TLAPS

\* The three parts are inductive together: what a page said and did is in the file and, where
\* it is applied at once, in force, and that is what the next rebuilt file is made from.
IInv == Typed /\ KeptAsTold /\ InStep

-----------------------------------------------------------------------------
(* Contents and directories *)

\* A file that parses has an entry, or none, under each of its names.
LEMMA DiskGives ==
    ASSUME NEW d \in Disk, NEW f \in Files
    PROVE  /\ d = [g \in Files |-> d[g]]
           /\ d[f] \in Contents(f) \cup {Broken}
           /\ d[f] # Broken => /\ d[f] \in Contents(f)
                               /\ \A n \in Names(f) : d[f][n] \in Entry \cup {Absent}
  BY DEF Disk, Contents

\* Conversely, contents for all files make a directory.
LEMMA MakesDisk ==
    ASSUME NEW d, d = [g \in Files |-> d[g]],
           \A f \in Files : d[f] \in Contents(f) \cup {Broken}
    PROVE  d \in Disk
<1> DEFINE all == (UNION {Contents(g) : g \in Files}) \cup {Broken}
<1>1. \A f \in Files : d[f] \in all
  <2> TAKE f \in Files
  <2>1. CASE d[f] = Broken
    BY <2>1
  <2>2. CASE d[f] \in Contents(f)
    <3>1. \E c \in {Contents(g) : g \in Files} : d[f] \in c
      BY <2>2
    <3> QED BY <3>1
  <2> QED BY <2>1, <2>2
<1>2. d \in [Files -> all]
  <2> HIDE DEF all
  <2> QED BY <1>1
<1> QED
  BY <1>2 DEF Disk

\* Contents parse.
LEMMA ContentsParse ==
    ASSUME NEW f \in Files, NEW content \in Contents(f)
    PROVE  content # Broken /\ \A n \in Names(f) : content[n] \in Entry \cup {Absent}
  BY StoreAssumption DEF Contents

\* One file of a directory can be replaced.
LEMMA Replaced ==
    ASSUME Typed, NEW f \in Files, NEW content \in Contents(f) \cup {Broken},
           disk' = [disk EXCEPT ![f] = content]
    PROVE  /\ disk' \in Disk
           /\ disk'[f] = content
           /\ \A g \in Files \ {f} : disk'[g] = disk[g]
<1>1. disk \in Disk /\ disk = [g \in Files |-> disk[g]]
  BY DiskGives DEF Typed
<1>2. /\ disk' = [g \in Files |-> disk'[g]] /\ disk'[f] = content
      /\ \A g \in Files \ {f} : disk'[g] = disk[g]
  BY <1>1
<1>3. \A g \in Files : disk'[g] \in Contents(g) \cup {Broken}
  BY <1>1, <1>2, DiskGives
<1> QED
  BY <1>2, <1>3, MakesDisk

\* What a reload takes over is a directory that parses, with the hot entries of the files.
LEMMA ReloadedIsDisk ==
    ASSUME Typed, NEW d \in Disk, Loads(d)
    PROVE  /\ Reloaded(d) \in Disk
           /\ Loads(Reloaded(d))
           /\ \A f \in Files : \A n \in Names(f) :
                  Reloaded(d)[f][n] = IF Hot(f, n) THEN d[f][n] ELSE live[f][n]
<1> DEFINE r == Reloaded(d)
<1>1. \A f \in Files : \A n \in Names(f) :
          d[f][n] \in Entry \cup {Absent} /\ live[f][n] \in Entry \cup {Absent}
  BY DiskGives DEF Typed, Loads
<1>2. r = [g \in Files |-> r[g]]
      /\ \A f \in Files : r[f] = [n \in Names(f) |-> IF Hot(f, n) THEN d[f][n] ELSE live[f][n]]
  BY DEF Reloaded
<1>3. \A f \in Files : r[f] \in Contents(f)
  BY <1>1, <1>2 DEF Contents
<1>4. r \in Disk
  <2> HIDE DEF r
  <2> QED BY <1>2, <1>3, MakesDisk
<1>5. Loads(r)
  BY <1>3, StoreAssumption DEF Loads
<1> QED
  BY <1>2, <1>4, <1>5

\* One entry of what has been confirmed is replaced.
LEMMA ToldReplaced ==
    ASSUME Typed, NEW f \in Files, NEW n \in Names(f), NEW x \in Secrets \cup {Absent, Unsure}
    PROVE  LET t == [told EXCEPT ![f][n] = x]
           IN  /\ DOMAIN t = Files
               /\ \A g \in Files : t[g] \in [Names(g) -> Secrets \cup {Absent, Unsure}]
               /\ t[f][n] = x
               /\ \A g \in Files : \A m \in Names(g) : g # f \/ m # n => t[g][m] = told[g][m]
  BY DEF Typed

\* An entry shows its secret; so does one that is made from a secret alone.
LEMMA EntryShows ==
    ASSUME NEW entry \in Entry
    PROVE  entry # Absent /\ Shown(entry) = entry.secret /\ entry.secret \in Secrets
<1>1. entry # Absent
  BY StoreAssumption
<1> QED
  BY <1>1 DEF Shown, Entry

LEMMA PlainShows ==
    ASSUME NEW s \in Secrets
    PROVE  [secret |-> s, more |-> FALSE] \in Entry /\ Shown([secret |-> s, more |-> FALSE]) = s
<1> DEFINE plain == [secret |-> s, more |-> FALSE]
<1>1. plain \in Entry /\ plain.secret = s
  BY DEF Entry
<1>2. Shown(plain) = plain.secret
  <2> HIDE DEF plain
  <2> QED BY <1>1, EntryShows
<1> QED
  BY <1>1, <1>2

\* What a page shows is a secret or that there is no entry, never that it is unsure.
LEMMA ShownIsSure ==
    ASSUME NEW entry \in Entry \cup {Absent}
    PROVE  Shown(entry) \in Secrets \cup {Absent} /\ Shown(entry) # Unsure
  BY StoreAssumption DEF Shown, Entry

-----------------------------------------------------------------------------
(* Steps on one file *)

\* A step that changes one file, and perhaps what is loaded of it, keeps what has been
\* confirmed elsewhere; of the file itself, whatever is still confirmed must be right.
LEMMA OneFileKeeps ==
    ASSUME Typed, KeptAsTold,
           NEW f \in Files, NEW content \in Contents(f) \cup {Broken},
           disk' = [disk EXCEPT ![f] = content],
           live' \in Disk, Loads(live'), clean' \in BOOLEAN,
           \A g \in Files \ {f} : live'[g] = live[g] /\ told'[g] = told[g],
           DOMAIN told' = Files,
           told'[f] \in [Names(f) -> Secrets \cup {Absent, Unsure}],
           unkept' \subseteq MayBeUnkept,
           \A g \in Files \ {f} : \A m \in Names(g) : <<g, m>> \in unkept => <<g, m>> \in unkept',
           \A n \in Names(f) : Claimed(f, n)' =>
               /\ content # Broken
               /\ Shown(content[n]) = told'[f][n]
               /\ Hot(f, n) \/ n = "admin" => Shown(live'[f][n]) = told'[f][n]
    PROVE  Typed' /\ KeptAsTold'
<1>1. /\ disk' \in Disk /\ disk'[f] = content
      /\ \A g \in Files \ {f} : disk'[g] = disk[g]
  BY Replaced
<1>2. \A g \in Files : told'[g] \in [Names(g) -> Secrets \cup {Absent, Unsure}]
  BY DEF Typed
<1>3. Typed'
  BY <1>1, <1>2 DEF Typed, Loads
<1>4. ASSUME NEW g \in Files, NEW n \in Names(g), Claimed(g, n)'
      PROVE  /\ disk'[g] # Broken
             /\ Shown(disk'[g][n]) = told'[g][n]
             /\ Hot(g, n) \/ n = "admin" => Shown(live'[g][n]) = told'[g][n]
  <2>1. CASE g = f
    BY <1>1, <1>4, <2>1
  <2>2. CASE g # f
    <3>1. disk'[g] = disk[g] /\ live'[g] = live[g] /\ told'[g] = told[g]
      BY <1>1, <2>2
    <3>2. Claimed(g, n)
      BY <1>4, <2>2, <3>1 DEF Claimed
    <3> QED BY <3>1, <3>2 DEF KeptAsTold
  <2> QED BY <2>1, <2>2
<1>5. KeptAsTold'
  BY <1>4 DEF KeptAsTold, Claimed, Shown, Hot
<1> QED
  BY <1>3, <1>5

\* A reload after a file has been replaced by one that parses leaves files and
\* configuration in step, if they were before.
LEMMA ReloadKeepsStep ==
    ASSUME Typed, InStep, NEW f \in Files, NEW content \in Contents(f),
           disk' = [disk EXCEPT ![f] = content], Reload
    PROVE  InStep'
<1>1. /\ disk' \in Disk /\ disk'[f] = content
      /\ \A g \in Files \ {f} : disk'[g] = disk[g]
  BY Replaced
<1>2. CASE Loads(disk')
  <2>1. live' = Reloaded(disk')
    BY <1>2 DEF Reload
  <2>2. \A g \in Files : \A n \in Names(g) : Hot(g, n) => live'[g][n] = disk'[g][n]
    BY <1>1, <1>2, <2>1, ReloadedIsDisk
  <2> QED BY <1>2, <2>2 DEF InStep, Loads, Hot
<1>3. CASE ~Loads(disk')
  <2>1. ~Loads(disk)
    BY <1>1, <1>3, ContentsParse DEF Loads
  <2>2. clean' = clean /\ clean \in BOOLEAN
    BY <1>3 DEF Reload, Typed
  <2> QED BY <2>1, <2>2 DEF InStep
<1> QED
  BY <1>2, <1>3

\* A save that is applied at once keeps the invariant, if the new content has what the
\* pages confirmed of the other entries of its file.
LEMMA FinishKeeps ==
    ASSUME IInv, NEW f \in Files, NEW n \in Names(f), Hot(f, n),
           NEW content \in Contents(f),
           NEW heard \in Secrets \cup {Absent, Unsure},
           unkept' \subseteq MayBeUnkept, unkept \subseteq unkept' \cup {<<f, n>>},
           heard # Unsure /\ <<f, n>> \notin unkept' => Shown(content[n]) = heard,
           \A m \in Names(f) : m # n /\ Claimed(f, m) => Shown(content[m]) = told[f][m],
           Finish(f, content, n, heard)
    PROVE  IInv'
<1> DEFINE x == IF Loads(disk') THEN heard ELSE Unsure
<1> USE DEF IInv
<1>1. /\ disk' \in Disk /\ disk'[f] = content
      /\ \A g \in Files \ {f} : disk'[g] = disk[g]
  BY Replaced DEF Finish
<1>2. /\ disk' = [disk EXCEPT ![f] = content] /\ Reload
      /\ told' = [told EXCEPT ![f][n] = x]
  BY DEF Finish
<1>3. x \in Secrets \cup {Absent, Unsure}
  OBVIOUS
<1>4. \A g \in Files : \A m \in Names(g) : (g # f \/ m # n) /\ told'[g][m] = told[g][m] /\ Claimed(g, m)' => Claimed(g, m)
  BY DEF Claimed
<1>5. /\ DOMAIN told' = Files
      /\ \A g \in Files : told'[g] \in [Names(g) -> Secrets \cup {Absent, Unsure}]
      /\ told'[f][n] = x
      /\ \A g \in Files : \A m \in Names(g) : g # f \/ m # n => told'[g][m] = told[g][m]
  <2> HIDE DEF x
  <2> QED BY <1>2, <1>3, ToldReplaced
<1>6. live' \in Disk /\ Loads(live') /\ clean' \in BOOLEAN
  <2>1. CASE Loads(disk')
    <3>1. live' = Reloaded(disk') /\ clean' = TRUE
      BY <1>2, <2>1 DEF Reload
    <3>2. Reloaded(disk') \in Disk /\ Loads(Reloaded(disk'))
      BY <1>1, <2>1, ReloadedIsDisk
    <3> QED BY <3>1, <3>2 DEF Loads
  <2>2. CASE ~Loads(disk')
    <3>1. live' = live /\ clean' = clean
      BY <1>2, <2>2 DEF Reload
    <3> QED BY <3>1 DEF Typed, Loads
  <2> QED BY <2>1, <2>2
<1>7. Typed'
  BY <1>1, <1>5, <1>6 DEF Typed, Loads
<1>8. ASSUME NEW g \in Files, NEW m \in Names(g), Claimed(g, m)'
      PROVE  /\ disk'[g] # Broken
             /\ Shown(disk'[g][m]) = told'[g][m]
             /\ Hot(g, m) \/ m = "admin" => Shown(live'[g][m]) = told'[g][m]
  <2>1. Loads(disk') => live'[g][m] = IF Hot(g, m) THEN disk'[g][m] ELSE live[g][m]
    <3>1. Loads(disk') => live' = Reloaded(disk')
      BY <1>2 DEF Reload
    <3> QED BY <1>1, <3>1, ReloadedIsDisk
  <2>2. ~Loads(disk') => live' = live
    BY <1>2 DEF Reload
  <2>3. CASE g = f /\ m = n
    <3>1. Loads(disk') /\ told'[g][m] = heard /\ heard # Unsure
      BY <1>5, <1>8, <2>3 DEF Claimed
    <3>2. <<f, n>> \notin unkept'
      BY <1>8, <2>3 DEF Claimed
    <3> QED BY <1>1, <2>1, <2>3, <3>1, <3>2, ContentsParse
  <2>4. CASE g = f /\ m # n
    <3>1. told'[g][m] = told[g][m] /\ Claimed(g, m)
      BY <1>4, <1>5, <1>8, <2>4
    <3>2. Shown(content[m]) = told[g][m] /\ content # Broken
      BY <2>4, <3>1, ContentsParse
    <3>3. Hot(g, m) \/ m = "admin" => Shown(live[g][m]) = told[g][m]
      BY <3>1 DEF KeptAsTold
    <3> QED BY <1>1, <2>1, <2>2, <2>4, <3>1, <3>2, <3>3
  <2>5. CASE g # f
    <3>1. told'[g][m] = told[g][m] /\ disk'[g] = disk[g] /\ Claimed(g, m)
      BY <1>4, <1>1, <1>5, <1>8, <2>5
    <3>2. /\ disk[g] # Broken
          /\ Shown(disk[g][m]) = told[g][m]
          /\ Hot(g, m) \/ m = "admin" => Shown(live[g][m]) = told[g][m]
      BY <3>1 DEF KeptAsTold
    <3> QED BY <2>1, <2>2, <3>1, <3>2
  <2> QED BY <2>3, <2>4, <2>5
<1>9. KeptAsTold'
  BY <1>8 DEF KeptAsTold, Claimed, Shown, Hot
<1>10. InStep'
  BY <1>2, ReloadKeepsStep
<1> QED
  BY <1>7, <1>9, <1>10

\* The same for a new entry on a base that has what the pages confirmed.
LEMMA EntryKeeps ==
    ASSUME IInv, NEW f \in Files, NEW n \in Names(f), Hot(f, n),
           NEW base \in Contents(f),
           \A m \in Names(f) : Claimed(f, m) => Shown(base[m]) = told[f][m],
           NEW entry \in Entry \cup {Absent},
           NEW heard \in Secrets \cup {Absent, Unsure},
           unkept' \subseteq MayBeUnkept, unkept \subseteq unkept' \cup {<<f, n>>},
           heard # Unsure /\ <<f, n>> \notin unkept' => Shown(entry) = heard,
           Finish(f, [base EXCEPT ![n] = entry], n, heard)
    PROVE  IInv'
<1> DEFINE content == [base EXCEPT ![n] = entry]
<1>1. /\ content \in Contents(f)
      /\ content[n] = entry
      /\ \A m \in Names(f) : m # n => content[m] = base[m]
  BY DEF Contents
<1>2. Finish(f, content, n, heard)
  OBVIOUS
<1> HIDE DEF content
<1> QED
  BY <1>1, <1>2, FinishKeeps

\* A file that parses is such a base.
LEMMA AmendedBase ==
    ASSUME IInv, NEW f \in Files, disk[f] # Broken
    PROVE  /\ disk[f] \in Contents(f)
           /\ \A m \in Names(f) : disk[f][m] \in Entry \cup {Absent}
           /\ \A m \in Names(f) : Claimed(f, m) => Shown(disk[f][m]) = told[f][m]
  BY DiskGives DEF IInv, Typed, KeptAsTold

\* So is one rebuilt from the loaded configuration, because its entries are in force.
LEMMA RebuiltBase ==
    ASSUME IInv, NEW f \in EntryFiles
    PROVE  /\ Rebuilt(f) \in Contents(f)
           /\ \A m \in Names(f) : Claimed(f, m) => Shown(Rebuilt(f)[m]) = told[f][m]
<1> USE DEF IInv
<1>1. f \in Files /\ f # "wrapper"
  BY DEF Files, EntryFiles
<1>2. \A m \in Names(f) : live[f][m] \in Entry \cup {Absent}
  BY <1>1, DiskGives DEF Typed, Loads
<1>3. \A m \in Names(f) : /\ Carried(f, live[f][m]) \in Entry \cup {Absent}
                          /\ Shown(Carried(f, live[f][m])) = Shown(live[f][m])
  BY <1>2, StoreAssumption DEF Carried, Shown, Entry
<1>4. Rebuilt(f) \in Contents(f)
      /\ \A m \in Names(f) : Rebuilt(f)[m] = Carried(f, live[f][m])
  BY <1>3 DEF Rebuilt, Contents
<1>5. \A m \in Names(f) : Claimed(f, m) => Shown(live[f][m]) = told[f][m]
  BY <1>1 DEF KeptAsTold, Hot
<1> QED
  BY <1>3, <1>4, <1>5

\* An edited entry shows what the page then says, unless it keeps what an earlier page
\* has said without doing it.
LEMMA EditedShows ==
    ASSUME IInv, NEW f \in EntryFiles, NEW n \in Names(f), live[f][n] # Absent,
           NEW s \in Submitted
    PROVE  /\ Edited(f, n, s) \in Entry
           /\ Confirmed(f, n, s) \in Secrets \cup {Absent, Unsure}
           /\ Confirmed(f, n, s) # Unsure /\ (s # Blank \/ <<f, n>> \notin unkept)
              => Edited(f, n, s).secret = Confirmed(f, n, s)
<1> USE DEF IInv
<1>1. f \in Files /\ f # "wrapper"
  BY DEF Files, EntryFiles
<1>2. live[f][n] \in Entry
  BY <1>1, DiskGives DEF Typed, Loads
<1>3. Carried(f, live[f][n]) \in Entry /\ Carried(f, live[f][n]).secret = live[f][n].secret
  BY <1>2 DEF Carried, Entry
<1>4. /\ s = Blank \/ s \in Secrets
      /\ told[f][n] \in Secrets \cup {Absent, Unsure}
  BY <1>1, StoreAssumption DEF Submitted, Typed
<1>5. Claimed(f, n) => live[f][n].secret = told[f][n]
  BY <1>1, <1>2 DEF KeptAsTold, Hot, Shown
<1> DEFINE carried == Carried(f, live[f][n])
<1>6. Edited(f, n, s) = [carried EXCEPT !.secret = IF s = Blank THEN carried.secret ELSE s]
  BY DEF Edited
<1>7. /\ Edited(f, n, s) \in Entry
      /\ Edited(f, n, s).secret = IF s = Blank THEN carried.secret ELSE s
  <2> HIDE DEF carried
  <2>1. carried \in Entry
    BY <1>3 DEF carried
  <2> QED BY <1>4, <1>6, <2>1 DEF Entry
<1> QED
  BY <1>3, <1>4, <1>5, <1>7 DEF Confirmed, Claimed

-----------------------------------------------------------------------------
(* Steps that load nothing *)

\* After an accident nothing is claimed of the file it happened to, nor that files and
\* process are in step.
LEMMA ForgetKeeps ==
    ASSUME IInv, NEW f \in Files, NEW content \in Contents(f) \cup {Broken},
           disk' = [disk EXCEPT ![f] = content], Forget(f), live' = live, clean' = FALSE
    PROVE  IInv'
<1> USE DEF IInv
<1>1. /\ \A g \in Files \ {f} : told'[g] = told[g]
      /\ DOMAIN told' = Files
      /\ told'[f] = [n \in Names(f) |-> Unsure]
      /\ unkept' \subseteq MayBeUnkept
      /\ \A g \in Files \ {f} : \A m \in Names(g) : <<g, m>> \in unkept => <<g, m>> \in unkept'
      /\ \A n \in Names(f) : ~Claimed(f, n)'
  BY DEF Forget, Typed, Claimed
<1>2. live' \in Disk /\ Loads(live') /\ clean' \in BOOLEAN
  BY DEF Typed, Loads
<1>3. Typed' /\ KeptAsTold'
  BY <1>1, <1>2, OneFileKeeps
<1>4. InStep'
  BY DEF InStep
<1> QED
  BY <1>3, <1>4

\* A file may be replaced without a reload where nothing of it is applied at once.
LEMMA KeepsStep ==
    ASSUME Typed, InStep, NEW f \in Files, NEW content \in Contents(f), disk[f] # Broken,
           disk' = [disk EXCEPT ![f] = content], clean' = clean,
           \A g \in Files : \A n \in Names(g) : Hot(g, n) => live'[g][n] = live[g][n],
           \A n \in Names(f) : Hot(f, n) => content[n] = disk[f][n]
    PROVE  InStep'
<1>1. /\ disk' \in Disk /\ disk'[f] = content
      /\ \A g \in Files \ {f} : disk'[g] = disk[g]
  BY Replaced
<1>2. content # Broken
  BY ContentsParse
<1> QED
  BY <1>1, <1>2 DEF InStep, Loads, Hot

\* The content of wrapper.toml that the settings page writes.
LEMMA SettingsContent ==
    ASSUME IInv, disk["wrapper"] # Broken, NEW form \in SettingsForm
    PROVE  /\ WithSettings(form) \in Contents("wrapper")
           /\ WithSettings(form)["dlp"] = disk["wrapper"]["dlp"]
           /\ SettingsConfirmed(form) \in [WrapperParts -> Secrets \cup {Absent, Unsure}]
           /\ \A p \in WrapperParts :
                  SettingsConfirmed(form)[p] # Unsure /\ <<"wrapper", p>> \notin UnkeptAfter(form)
                  => Shown(WithSettings(form)[p]) = SettingsConfirmed(form)[p]
           /\ SettingsConfirmed(form)["dlp"] = told["wrapper"]["dlp"]
           /\ SettingsConfirmed(form)["admin"] = told["wrapper"]["admin"]
<1> USE DEF IInv
<1> DEFINE content == WithSettings(form)
           old     == live["wrapper"]["telegram"]
<1>1. "wrapper" \in Files /\ Names("wrapper") = WrapperParts
  BY DEF Files, Names, EntryFiles
<1>2. \A p \in WrapperParts : /\ disk["wrapper"][p] \in Entry \cup {Absent}
                              /\ live["wrapper"][p] \in Entry \cup {Absent}
                              /\ told["wrapper"][p] \in Secrets \cup {Absent, Unsure}
  BY <1>1, DiskGives DEF Typed, Loads
<1>3. /\ form.settings \in Secrets
      /\ form.vault # Blank => form.vault \in Secrets
      /\ form.slack # Blank => form.slack \in Secrets
      /\ form.telegram # Blank => form.telegram \in Secrets
      /\ form.hook \in BOOLEAN
      /\ form.hook => old # Absent \/ form.telegram # Blank
  BY StoreAssumption DEF SettingsForm, Submitted
<1>4. TelegramGiven(form) => TelegramEntry(form) \in Entry
  BY <1>2, <1>3 DEF TelegramGiven, TelegramEntry, Entry, WrapperParts
<1>5. \A s \in Secrets : [secret |-> s, more |-> FALSE] \in Entry
  BY DEF Entry
<1>6. \A p \in WrapperParts : content[p] \in Entry \cup {Absent}
  BY <1>2, <1>3, <1>4, <1>5 DEF WithSettings, Amended, SlackGiven, TelegramGiven
<1>7. content \in Contents("wrapper")
  BY <1>1, <1>6 DEF WithSettings, Contents
<1>8. content["dlp"] = disk["wrapper"]["dlp"]
  BY DEF WithSettings, Amended, WrapperParts
<1>9. /\ SettingsConfirmed(form) \in [WrapperParts -> Secrets \cup {Absent, Unsure}]
      /\ SettingsConfirmed(form)["dlp"] = told["wrapper"]["dlp"]
      /\ SettingsConfirmed(form)["admin"] = told["wrapper"]["admin"]
  BY <1>1, <1>3, <1>4 DEF SettingsConfirmed, Typed, WrapperParts
<1>10. ASSUME NEW p \in WrapperParts, SettingsConfirmed(form)[p] # Unsure,
              <<"wrapper", p>> \notin UnkeptAfter(form)
       PROVE  Shown(content[p]) = SettingsConfirmed(form)[p]
  <2> DEFINE heard == SettingsConfirmed(form)
  <2> USE DEF WrapperParts
  <2>1. DOMAIN told["wrapper"] = WrapperParts
    BY <1>1 DEF Typed
  <2>2. \A q \in WrapperParts : told["wrapper"][q] # Unsure /\ <<"wrapper", q>> \notin unkept =>
            /\ Shown(disk["wrapper"][q]) = told["wrapper"][q]
            /\ q = "admin" => Shown(live["wrapper"][q]) = told["wrapper"][q]
    BY <1>1 DEF KeptAsTold, Claimed
  <2>3. /\ p \notin BlankIgnored(form)
    /\ (<<"wrapper", p>> \in unkept => p = "settings" \/ (p \in MayBeBlank /\ form[p] # Blank))
    BY <1>10 DEF UnkeptAfter
  <2>4. \A s \in Secrets : Shown([secret |-> s, more |-> FALSE]) = s
    <3> TAKE s \in Secrets
    <3> QED BY PlainShows
  <2>5. CASE p = "settings"
    BY <1>3, <2>1, <2>4, <2>5 DEF SettingsConfirmed, WithSettings
  <2>6. CASE p = "vault"
    <3>1. form.vault # Blank \/ disk["wrapper"]["vault"] = Absent
      BY <2>3, <2>6 DEF BlankIgnored, MayBeBlank, Amended
    <3> QED BY <1>3, <2>1, <2>4, <2>6, <3>1 DEF SettingsConfirmed, WithSettings, Amended, Shown
  <2>7. CASE p = "slack"
    <3>1. CASE form.slack # Blank
      BY <1>3, <2>1, <2>4, <2>7, <3>1 DEF SettingsConfirmed, WithSettings, SlackGiven
    <3>2. CASE form.slack = Blank
      <4>1. disk["wrapper"]["slack"] = Absent \/ ~TelegramGiven(form)
        BY <2>3, <2>7, <3>2 DEF BlankIgnored, MayBeBlank, Amended
      <4>2. heard[p] = told["wrapper"]["slack"] /\ <<"wrapper", "slack">> \notin unkept
        BY <2>3, <2>1, <2>7, <3>2 DEF SettingsConfirmed, MayBeBlank
      <4>3. Shown(disk["wrapper"]["slack"]) = heard[p]
        BY <1>10, <2>2, <4>2
      <4>4. content["slack"] = disk["wrapper"]["slack"]
        BY <3>2, <4>1 DEF WithSettings, Amended, SlackGiven
      <4> QED BY <2>7, <4>3, <4>4
    <3> QED BY <3>1, <3>2
  <2>8. CASE p = "telegram"
    <3>1. CASE form.telegram # Blank
      <4>1. content["telegram"] = TelegramEntry(form) /\ TelegramGiven(form)
        BY <3>1 DEF WithSettings, TelegramGiven
      <4>2. heard["telegram"] = form.telegram /\ TelegramEntry(form).secret = form.telegram
        BY <2>1, <3>1 DEF SettingsConfirmed, TelegramEntry
      <4> QED BY <1>4, <2>8, <4>1, <4>2, EntryShows
    <3>2. CASE form.telegram = Blank
      <4>1. ~form.hook /\ (disk["wrapper"]["telegram"] = Absent \/ ~SlackGiven(form))
        BY <2>3, <2>8, <3>2 DEF BlankIgnored, MayBeBlank, Amended
      <4>2. heard[p] = told["wrapper"]["telegram"] /\ <<"wrapper", "telegram">> \notin unkept
        BY <2>3, <2>1, <2>8, <3>2 DEF SettingsConfirmed, MayBeBlank
      <4>3. Shown(disk["wrapper"]["telegram"]) = heard[p]
        BY <1>10, <2>2, <4>2
      <4>4. content["telegram"] = disk["wrapper"]["telegram"]
        BY <3>2, <4>1 DEF WithSettings, Amended, TelegramGiven
      <4> QED BY <2>8, <4>3, <4>4
    <3> QED BY <3>1, <3>2
  <2>9. CASE p = "dlp"
    <3>1. <<"wrapper", "dlp">> \notin unkept
      BY <2>3, <2>9 DEF MayBeBlank
    <3> QED BY <1>8, <1>9, <1>10, <2>2, <2>9, <3>1
  <2>10. CASE p = "admin"
    <3>1. <<"wrapper", "admin">> \notin unkept
      BY <2>3, <2>10 DEF MayBeBlank
    <3> QED BY <1>9, <1>10, <2>2, <2>10, <3>1 DEF WithSettings
  <2> QED
    BY <2>5, <2>6, <2>7, <2>8, <2>9, <2>10
<1> QED
  BY <1>7, <1>8, <1>9, <1>10

\* Without the sections behind the place where a writer stopped, a content is still one.
LEMMA CutIsContents ==
    ASSUME NEW content \in Contents("wrapper"), NEW o
    PROVE  CutBehind(content, o) \in Contents("wrapper")
<1>1. Names("wrapper") = WrapperParts
  BY DEF Names
<1>2. \A p \in WrapperParts : content[p] \in Entry \cup {Absent}
  BY <1>1 DEF Contents
<1> QED
  BY <1>1, <1>2 DEF CutBehind, Contents

-----------------------------------------------------------------------------
(* The order of the sections of wrapper.toml *)

LEMMA Occurrence ==
    ASSUME NEW o, NoneTwice(o)
    PROVE  /\ Len(o) \in Nat
           /\ \A i \in 1..Len(o) : o[i] \in SectionNames
           /\ \A s : s \in InFile(o) <=> \E i \in 1..Len(o) : o[i] = s
  BY ElementOfSeq, LenProperties DEF NoneTwice, InFile

\* A section that is written stands in the file once, and no other goes.
LEMMA SectionWritten ==
    ASSUME NEW o, NoneTwice(o), NEW s \in SectionNames
    PROVE  NoneTwice(WithSection(o, s)) /\ InFile(WithSection(o, s)) = InFile(o) \cup {s}
<1>1. CASE s \in InFile(o)
  BY <1>1 DEF WithSection
<1>2. CASE s \notin InFile(o)
  <2> DEFINE longer == Append(o, s)
  <2>1. o \in Seq(SectionNames) /\ Len(o) \in Nat /\ \A i \in 1..Len(o) : o[i] # s
    BY <1>2, Occurrence DEF NoneTwice
  <2>2. /\ longer \in Seq(SectionNames) /\ Len(longer) = Len(o) + 1
        /\ \A i \in 1..Len(o) : longer[i] = o[i]
        /\ longer[Len(o) + 1] = s
    BY <2>1, AppendProperties
  <2>3. WithSection(o, s) = longer
    BY <1>2 DEF WithSection
  <2> HIDE DEF longer
  <2>4. NoneTwice(longer)
    <3> SUFFICES ASSUME NEW i \in 1..Len(longer), NEW j \in 1..Len(longer), longer[i] = longer[j]
                 PROVE  i = j
      BY <2>2 DEF NoneTwice
    <3>1. (i \in 1..Len(o) \/ i = Len(o) + 1) /\ (j \in 1..Len(o) \/ j = Len(o) + 1)
      BY <2>1, <2>2
    <3> QED BY <2>1, <2>2, <3>1 DEF NoneTwice
  <2>5. InFile(longer) = InFile(o) \cup {s}
    <3>1. 1..Len(longer) = 1..Len(o) \cup {Len(o) + 1}
      BY <2>1, <2>2
    <3> QED BY <2>2, <3>1 DEF InFile
  <2> QED BY <2>3, <2>4, <2>5
<1> QED
  BY <1>1, <1>2

\* The same for one that is put first.
LEMMA SectionFirst ==
    ASSUME NEW o, NoneTwice(o), NEW s \in SectionNames, s \notin InFile(o)
    PROVE  NoneTwice(<<s>> \o o) /\ InFile(<<s>> \o o) = InFile(o) \cup {s}
<1> DEFINE longer == <<s>> \o o
<1>1. o \in Seq(SectionNames) /\ Len(o) \in Nat /\ \A i \in 1..Len(o) : o[i] # s
  BY Occurrence DEF NoneTwice
<1>2. /\ longer \in Seq(SectionNames) /\ Len(longer) = Len(o) + 1
      /\ longer[1] = s
      /\ \A i \in 2..Len(o) + 1 : longer[i] = o[i - 1]
  <2>1. <<s>> \in Seq(SectionNames) /\ Len(<<s>>) = 1 /\ <<s>>[1] = s
    OBVIOUS
  <2> QED BY <1>1, <2>1, ConcatProperties
<1> HIDE DEF longer
<1>3. NoneTwice(longer)
  <2> SUFFICES ASSUME NEW i \in 1..Len(longer), NEW j \in 1..Len(longer), longer[i] = longer[j]
               PROVE  i = j
    BY <1>2 DEF NoneTwice
  <2>1. /\ i = 1 \/ (i \in 2..Len(o) + 1 /\ i - 1 \in 1..Len(o))
        /\ j = 1 \/ (j \in 2..Len(o) + 1 /\ j - 1 \in 1..Len(o))
    BY <1>1, <1>2
  <2> QED BY <1>1, <1>2, <2>1 DEF NoneTwice
<1>4. InFile(longer) = InFile(o) \cup {s}
  <2>1. \A i \in 1..Len(longer) : longer[i] \in InFile(o) \cup {s}
    <3> TAKE i \in 1..Len(longer)
    <3>1. i = 1 \/ (i \in 2..Len(o) + 1 /\ i - 1 \in 1..Len(o))
      BY <1>1, <1>2
    <3> QED BY <1>2, <3>1 DEF InFile
  <2>2. \A x \in InFile(o) : \E i \in 1..Len(longer) : longer[i] = x
    <3> TAKE x \in InFile(o)
    <3>1. PICK k \in 1..Len(o) : o[k] = x
      BY DEF InFile
    <3>2. k + 1 \in 2..Len(o) + 1 /\ k + 1 \in 1..Len(longer) /\ (k + 1) - 1 = k
      BY <1>1, <1>2
    <3>3. longer[k + 1] = x
      BY <1>2, <3>1, <3>2
    <3> QED BY <3>2, <3>3
  <2>3. 1 \in 1..Len(longer)
    BY <1>1, <1>2
  <2>4. InFile(longer) \subseteq InFile(o) \cup {s}
    BY <2>1 DEF InFile
  <2>5. \A x : x \in InFile(longer) <=> \E i \in 1..Len(longer) : longer[i] = x
    BY DEF InFile
  <2>6. InFile(o) \cup {s} \subseteq InFile(longer)
    BY <1>2, <2>2, <2>3, <2>5
  <2> QED BY <2>4, <2>6
<1> QED
  BY <1>3, <1>4 DEF longer

\* One that is taken out is gone, and no other is.
LEMMA SectionRemoved ==
    ASSUME NEW o, NoneTwice(o), NEW s
    PROVE  NoneTwice(WithoutSection(o, s)) /\ InFile(WithoutSection(o, s)) = InFile(o) \ {s}
<1>1. CASE s \notin InFile(o)
  BY <1>1 DEF WithoutSection
<1>2. CASE s \in InFile(o)
  <2> DEFINE at     == CHOOSE i \in 1..Len(o) : o[i] = s
             front  == SubSeq(o, 1, at - 1)
             back   == SubSeq(o, at + 1, Len(o))
             rest   == front \o back
  <2>1. at \in 1..Len(o) /\ o[at] = s
    BY <1>2 DEF InFile
  <2>2. o \in Seq(SectionNames) /\ Len(o) \in Nat /\ \A i \in 1..Len(o) : o[i] \in SectionNames
    BY Occurrence DEF NoneTwice
  <2>3. WithoutSection(o, s) = rest
    BY <1>2 DEF WithoutSection
  <2> HIDE DEF at
  <2>4. /\ front \in Seq(SectionNames) /\ Len(front) = at - 1
        /\ \A i \in 1..at - 1 : front[i] = o[i]
    BY <2>1, <2>2, SubSeqProperties
  <2>5. /\ back \in Seq(SectionNames) /\ Len(back) = Len(o) - at
        /\ \A i \in 1..Len(o) - at : back[i] = o[at + i]
    <3>1. \A i \in at + 1..Len(o) : o[i] \in SectionNames
      BY <2>1, <2>2
    <3>2. at + 1 \in Int /\ Len(o) \in Int
      BY <2>1, <2>2
    <3>3. /\ back \in Seq(SectionNames)
          /\ Len(back) = IF at + 1 <= Len(o) THEN Len(o) - (at + 1) + 1 ELSE 0
          /\ \A i \in 1..Len(o) - (at + 1) + 1 : back[i] = o[at + 1 + i - 1]
      BY <3>1, <3>2, SubSeqProperties
    <3> HIDE DEF back
    <3> QED BY <2>1, <2>2, <3>3
  <2> HIDE DEF front, back
  <2>6. /\ rest \in Seq(SectionNames) /\ Len(rest) = Len(o) - 1
        /\ \A i \in 1..Len(o) - 1 : rest[i] = IF i < at THEN o[i] ELSE o[i + 1]
    <3>1. /\ rest \in Seq(SectionNames) /\ Len(rest) = (at - 1) + (Len(o) - at)
          /\ \A i \in 1..(at - 1) + (Len(o) - at) :
                 rest[i] = IF i <= at - 1 THEN front[i] ELSE back[i - (at - 1)]
      BY <2>4, <2>5, ConcatProperties
    <3> HIDE DEF rest
    <3>2. (at - 1) + (Len(o) - at) = Len(o) - 1
      BY <2>1, <2>2
    <3>3. ASSUME NEW i \in 1..Len(o) - 1
          PROVE  rest[i] = IF i < at THEN o[i] ELSE o[i + 1]
      <4>1. CASE i < at
        <5>1. i \in 1..at - 1 /\ i \in 1..Len(o) - 1 /\ i <= at - 1
          BY <2>1, <2>2, <4>1
        <5> QED BY <2>4, <3>1, <3>2, <4>1, <5>1
      <4>2. CASE ~(i < at)
        <5>1. /\ i - (at - 1) \in 1..Len(o) - at /\ ~(i <= at - 1)
              /\ at + (i - (at - 1)) = i + 1
          BY <2>1, <2>2, <4>2
        <5>2. rest[i] = back[i - (at - 1)]
          BY <3>1, <3>2, <5>1
        <5>3. back[i - (at - 1)] = o[at + (i - (at - 1))]
          BY <2>5, <5>1
        <5> QED BY <4>2, <5>1, <5>2, <5>3
      <4> QED BY <4>1, <4>2
    <3> QED BY <3>1, <3>2, <3>3
  <2> HIDE DEF rest
  <2>7. NoneTwice(rest)
    <3> SUFFICES ASSUME NEW i \in 1..Len(rest), NEW j \in 1..Len(rest), rest[i] = rest[j]
                 PROVE  i = j
      BY <2>6 DEF NoneTwice
    <3> QED BY <2>1, <2>2, <2>6 DEF NoneTwice
  <2>8. InFile(rest) \subseteq InFile(o) \ {s}
    <3> SUFFICES ASSUME NEW i \in 1..Len(rest) PROVE rest[i] \in InFile(o) \ {s}
      BY DEF InFile
    <3> DEFINE k == IF i < at THEN i ELSE i + 1
    <3>1. k \in 1..Len(o) /\ k # at /\ rest[i] = o[k]
      BY <2>1, <2>2, <2>6
    <3> HIDE DEF k
    <3> QED BY <2>1, <3>1 DEF InFile, NoneTwice
  <2>9. InFile(o) \ {s} \subseteq InFile(rest)
    <3> SUFFICES ASSUME NEW k \in 1..Len(o), o[k] # s PROVE o[k] \in InFile(rest)
      BY DEF InFile
    <3> DEFINE i == IF k < at THEN k ELSE k - 1
    <3>1. i \in 1..Len(rest) /\ rest[i] = o[k]
      BY <2>1, <2>2, <2>6
    <3> HIDE DEF i
    <3> QED BY <3>1 DEF InFile
  <2> QED BY <2>3, <2>7, <2>8, <2>9
<1> QED
  BY <1>1, <1>2

\* The sections a writer got to stand in the file as they did before.
LEMMA SectionsCut ==
    ASSUME NEW o, NoneTwice(o), NEW k \in 0..Len(o)
    PROVE  NoneTwice(SubSeq(o, 1, k)) /\ InFile(SubSeq(o, 1, k)) \subseteq InFile(o)
<1> DEFINE cut == SubSeq(o, 1, k)
<1>1. o \in Seq(SectionNames) /\ Len(o) \in Nat /\ \A i \in 1..Len(o) : o[i] \in SectionNames
  BY Occurrence DEF NoneTwice
<1>2. cut \in Seq(SectionNames) /\ Len(cut) = k /\ \A i \in 1..k : cut[i] = o[i]
  BY <1>1, SubSeqProperties
<1> HIDE DEF cut
<1>3. NoneTwice(cut)
  BY <1>1, <1>2 DEF NoneTwice
<1>4. InFile(cut) \subseteq InFile(o)
  BY <1>1, <1>2 DEF InFile
<1> QED
  BY <1>3, <1>4 DEF cut

\* A section that gets an entry is present; without one, only if another part of it is.
LEMMA PresentOf ==
    ASSUME NEW content
    PROVE  /\ Present(content) \subseteq SectionNames
           /\ \A s : s \in Present(content) <=>
                  \E p \in WrapperParts : content[p] # Absent /\ SectionOf(p) = s
  BY DEF Present, SectionNames

LEMMA SectionParts ==
    ASSUME NEW content
    PROVE  \A s : s \in Present(content) <=>
              \/ s \in {"settings", "vault", "dlp", "admin"} /\ content[s] # Absent
              \/ s = "notifications" /\ (content["slack"] # Absent \/ content["telegram"] # Absent)
  BY PresentOf DEF SectionOf, WrapperParts

LEMMA PresentWith ==
    ASSUME NEW content \in Contents("wrapper"), NEW p \in WrapperParts, NEW entry \in Entry
    PROVE  Present([content EXCEPT ![p] = entry]) = Present(content) \cup {SectionOf(p)}
<1>1. Names("wrapper") = WrapperParts /\ entry # Absent
  BY StoreAssumption DEF Names
<1> DEFINE after == [content EXCEPT ![p] = entry]
<1>2. after[p] # Absent /\ \A q \in WrapperParts : q # p => after[q] = content[q]
  BY <1>1 DEF Contents
<1> HIDE DEF after
<1>3. \A s : s \in Present(after) <=> s \in Present(content) \cup {SectionOf(p)}
  BY <1>2, PresentOf
<1> QED
  BY <1>3 DEF after

\* What a hand does to one part of a content changes at most the presence of its section.
LEMMA PresentBut ==
    ASSUME NEW content \in Contents("wrapper"), NEW p \in WrapperParts, NEW entry
    PROVE  LET after == Present([content EXCEPT ![p] = entry])
           IN  after \ {SectionOf(p)} = Present(content) \ {SectionOf(p)}
<1>1. Names("wrapper") = WrapperParts
  BY DEF Names
<1> DEFINE after == [content EXCEPT ![p] = entry]
<1>2. \A q \in WrapperParts : q # p => after[q] = content[q]
  BY <1>1 DEF Contents
<1> HIDE DEF after
<1>3. \A s : s # SectionOf(p) => (s \in Present(after) <=> s \in Present(content))
  BY <1>2, PresentOf
<1> QED
  BY <1>3 DEF after

\* What is left of a content behind a cut has the sections in front of it.
LEMMA PresentInCut ==
    ASSUME NEW content, NEW o, InFile(o) \subseteq Present(content)
    PROVE  Present(CutBehind(content, o)) = InFile(o)
<1> DEFINE rest == CutBehind(content, o)
<1>1. \A p \in WrapperParts : rest[p] = IF SectionOf(p) \in InFile(o) THEN content[p] ELSE Absent
  BY DEF CutBehind
<1> HIDE DEF rest
<1>2. \A s \in Present(rest) : s \in InFile(o)
  BY <1>1, PresentOf
<1>3. \A s \in InFile(o) : s \in Present(rest)
  <2> TAKE s \in InFile(o)
  <2>1. PICK p \in WrapperParts : content[p] # Absent /\ SectionOf(p) = s
    BY PresentOf
  <2> QED BY <1>1, <2>1, PresentOf
<1> QED
  BY <1>2, <1>3 DEF rest

\* The settings page writes the sections in its content, each once.
LEMMA SettingsInOrder ==
    ASSUME IInv, OrderFits(order, disk), disk["wrapper"] # Broken, Saving, NEW form \in SettingsForm
    PROVE  /\ NoneTwice(OrderWithSettings(form))
           /\ InFile(OrderWithSettings(form)) = Present(WithSettings(form))
           /\ TelegramGiven(form) => "notifications" \in InFile(OrderWithSettings(form))
<1> DEFINE file     == disk["wrapper"]
           given    == SlackGiven(form) \/ TelegramGiven(form)
           settings == WithSection(order, "settings")
           vault    == IF form.vault # Blank THEN WithSection(settings, "vault") ELSE settings
           notified == IF given THEN WithSection(vault, "notifications") ELSE vault
           all      == WithSection(notified, "admin")
           content  == WithSettings(form)
<1>1. {"settings", "vault", "notifications", "admin"} \subseteq SectionNames
  <2>1. /\ SectionOf("settings") = "settings" /\ SectionOf("vault") = "vault"
        /\ SectionOf("slack") = "notifications" /\ SectionOf("admin") = "admin"
    BY DEF SectionOf
  <2>2. "settings" \in WrapperParts /\ "vault" \in WrapperParts /\ "slack" \in WrapperParts /\ "admin" \in WrapperParts
    BY DEF WrapperParts
  <2> QED BY <2>1, <2>2 DEF SectionNames
<1>2. NoneTwice(order) /\ InFile(order) = Present(file)
  BY DEF OrderFits
<1>3. NoneTwice(settings) /\ InFile(settings) = Present(file) \cup {"settings"}
  BY <1>1, <1>2, SectionWritten
<1>4. /\ NoneTwice(vault)
      /\ InFile(vault) = InFile(settings) \cup (IF form.vault # Blank THEN {"vault"} ELSE {})
  <2> HIDE DEF settings
  <2> QED BY <1>1, <1>3, SectionWritten
<1>5. /\ NoneTwice(notified)
      /\ InFile(notified) = InFile(vault) \cup (IF given THEN {"notifications"} ELSE {})
  <2> HIDE DEF vault
  <2> QED BY <1>1, <1>4, SectionWritten
<1>6. NoneTwice(all) /\ InFile(all) = InFile(notified) \cup {"admin"}
  <2> HIDE DEF notified
  <2> QED BY <1>1, <1>5, SectionWritten
<1>7. \A s : s \in InFile(all) <=>
             \/ s \in Present(file) \cup {"settings", "admin"}
             \/ s = "vault" /\ form.vault # Blank
             \/ s = "notifications" /\ given
  <2> HIDE DEF settings, vault, notified, all, given
  <2> QED BY <1>3, <1>4, <1>5, <1>6
<1>8. OrderWithSettings(form) = all
  BY DEF OrderWithSettings
<1>9. \A s : s \in Present(content) <=>
             \/ s \in Present(file) \cup {"settings", "admin"}
             \/ s = "vault" /\ form.vault # Blank
             \/ s = "notifications" /\ given
  <2> DEFINE old == live["wrapper"]["telegram"]
  <2>1. "wrapper" \in Files /\ Names("wrapper") = WrapperParts
    BY DEF Files, Names, EntryFiles
  <2>2. \A p \in WrapperParts : live["wrapper"][p] \in Entry \cup {Absent}
    BY <2>1, DiskGives DEF IInv, Typed, Loads
  <2>3. /\ form.settings \in Secrets
        /\ form.vault # Blank => form.vault \in Secrets
        /\ form.slack # Blank => form.slack \in Secrets
        /\ form.telegram # Blank => form.telegram \in Secrets
        /\ form.hook \in BOOLEAN
        /\ form.hook => old # Absent \/ form.telegram # Blank
    BY StoreAssumption DEF SettingsForm, Submitted
  <2>4. TelegramGiven(form) => TelegramEntry(form) \in Entry
    BY <2>2, <2>3 DEF TelegramGiven, TelegramEntry, Entry, WrapperParts
  <2>5. \A s \in Secrets : [secret |-> s, more |-> FALSE] \in Entry
    BY DEF Entry
  <2>6. \A entry \in Entry : entry # Absent
    BY StoreAssumption
  <2>7. content["settings"] # Absent /\ content["admin"] # Absent /\ content["dlp"] = file["dlp"]
    BY <2>3, <2>5, <2>6 DEF WithSettings, Amended, WrapperParts, Saving
  <2>8. IF form.vault # Blank THEN content["vault"] # Absent ELSE content["vault"] = file["vault"]
    BY <2>3, <2>5, <2>6 DEF WithSettings, Amended, WrapperParts
  <2>9. IF given THEN content["slack"] # Absent \/ content["telegram"] # Absent
        ELSE content["slack"] = file["slack"] /\ content["telegram"] = file["telegram"]
    <3>1. CASE SlackGiven(form)
      BY <2>3, <2>5, <2>6, <3>1 DEF WithSettings, WrapperParts, SlackGiven
    <3>2. CASE TelegramGiven(form)
      BY <2>4, <2>6, <3>2 DEF WithSettings, WrapperParts
    <3>3. CASE ~given
      BY <3>3 DEF WithSettings, Amended, WrapperParts
    <3> QED BY <3>1, <3>2, <3>3
  <2> HIDE DEF content, file, given
  <2> QED BY <2>7, <2>8, <2>9, SectionParts
<1> QED
  BY <1>6, <1>7, <1>8, <1>9

-----------------------------------------------------------------------------
(* Every step *)

LEMMA InitInv == Init => IInv
<1> SUFFICES ASSUME Init PROVE IInv
  OBVIOUS
<1>1. disk \in Disk /\ Loads(disk) /\ live = disk
  BY StoreAssumption DEF Init
<1>2. \A f \in Files : \A n \in Names(f) :
          /\ Shown(disk[f][n]) \in Secrets \cup {Absent}
          /\ told[f][n] = Shown(disk[f][n])
  BY <1>1, DiskGives, ShownIsSure DEF Init, Loads
<1>3. Typed
  BY <1>1, <1>2 DEF Init, Typed
<1>4. KeptAsTold /\ InStep
  BY <1>1, <1>2 DEF KeptAsTold, Claimed, InStep, Loads
<1> QED
  BY <1>3, <1>4 DEF IInv

\* Agents and servers.
LEMMA EntriesKeep ==
    ASSUME IInv, NEW f \in {"agents", "servers"}, NEW n \in EntryNames[f],
           CreateEntry(f, n) \/ EditEntry(f, n) \/ DeleteEntry(f, n)
    PROVE  IInv'
<1>1. f \in Files /\ f \in EntryFiles /\ n \in Names(f) /\ Hot(f, n)
  BY DEF Files, EntryFiles, Names, Hot
<1>2. /\ Rebuilt(f) \in Contents(f)
      /\ \A m \in Names(f) : Claimed(f, m) => Shown(Rebuilt(f)[m]) = told[f][m]
  BY <1>1, RebuiltBase
<1>3. unkept' = unkept /\ unkept \subseteq MayBeUnkept /\ <<f, n>> \notin unkept
  BY DEF IInv, Typed, MayBeUnkept, CreateEntry, EditEntry, DeleteEntry
<1>4. CASE CreateEntry(f, n)
  <2>1. PICK s \in Offered :
            Finish(f, [Rebuilt(f) EXCEPT ![n] = [secret |-> s, more |-> FALSE]], n, s)
    BY <1>4 DEF CreateEntry
  <2> DEFINE entry == [secret |-> s, more |-> FALSE]
  <2>2. s \in Secrets /\ entry \in Entry /\ Shown(entry) = s
    BY PlainShows, StoreAssumption
  <2>3. Finish(f, [Rebuilt(f) EXCEPT ![n] = entry], n, s)
    BY <2>1
  <2> HIDE DEF entry
  <2> QED BY <1>1, <1>2, <1>3, <2>2, <2>3, EntryKeeps
<1>5. CASE EditEntry(f, n)
  <2>1. live[f][n] # Absent
    BY <1>5 DEF EditEntry
  <2>2. PICK s \in Submitted :
            Finish(f, [Rebuilt(f) EXCEPT ![n] = Edited(f, n, s)], n, Confirmed(f, n, s))
    BY <1>5 DEF EditEntry
  <2>3. /\ Edited(f, n, s) \in Entry
        /\ Confirmed(f, n, s) \in Secrets \cup {Absent, Unsure}
        /\ Confirmed(f, n, s) # Unsure => Shown(Edited(f, n, s)) = Confirmed(f, n, s)
    BY <1>1, <1>3, <2>1, EditedShows, EntryShows
  <2> QED BY <1>1, <1>2, <1>3, <2>2, <2>3, EntryKeeps
<1>6. CASE DeleteEntry(f, n)
  <2>1. Finish(f, [Rebuilt(f) EXCEPT ![n] = Absent], n, Absent)
    BY <1>6 DEF DeleteEntry
  <2> QED BY <1>1, <1>2, <1>3, <2>1, EntryKeeps DEF Shown
<1> QED
  BY <1>4, <1>5, <1>6

LEMMA GatewayKeeps ==
    ASSUME IInv, NEW n \in EntryNames["gateway"], GatewayCredentials(n)
    PROVE  IInv'
<1> DEFINE f == "gateway"
<1>1. f \in Files /\ f \in EntryFiles /\ n \in Names(f) /\ Hot(f, n) /\ live[f][n] # Absent
  BY DEF Files, EntryFiles, Names, Hot, GatewayCredentials
<1>2. unkept' = unkept /\ unkept \subseteq MayBeUnkept /\ <<f, n>> \notin unkept
  BY DEF IInv, Typed, MayBeUnkept, GatewayCredentials
<1>3. PICK s \in Submitted :
          Finish(f, [Rebuilt(f) EXCEPT ![n] = Edited(f, n, s)], n, Confirmed(f, n, s))
  BY DEF GatewayCredentials
<1>4. /\ Edited(f, n, s) \in Entry
      /\ Confirmed(f, n, s) \in Secrets \cup {Absent, Unsure}
      /\ Confirmed(f, n, s) # Unsure => Shown(Edited(f, n, s)) = Confirmed(f, n, s)
  BY <1>1, <1>2, EditedShows, EntryShows
<1>5. /\ Rebuilt(f) \in Contents(f)
      /\ \A m \in Names(f) : Claimed(f, m) => Shown(Rebuilt(f)[m]) = told[f][m]
  BY <1>1, RebuiltBase
<1> HIDE DEF f
<1> QED
  BY <1>1, <1>3, <1>4, <1>5, <1>2, EntryKeeps

LEMMA PluginKeeps ==
    ASSUME IInv, NEW n \in EntryNames["plugins"], PluginCredentials(n)
    PROVE  IInv'
<1> DEFINE f    == "plugins"
           file == disk[f]
<1>1. /\ f \in Files /\ f \in EntryFiles /\ n \in Names(f) /\ Hot(f, n)
      /\ live[f][n] # Absent /\ file # Broken
  BY DEF Files, EntryFiles, Names, Hot, PluginCredentials
<1>2. /\ file \in Contents(f) /\ file[n] \in Entry \cup {Absent}
      /\ \A m \in Names(f) : Claimed(f, m) => Shown(file[m]) = told[f][m]
  BY <1>1, AmendedBase
<1>3. PICK s \in Submitted :
          IF file[n] = Absent
          THEN Finish(f, file, n, Confirmed(f, n, s)) /\ unkept' = unkept \cup {<<f, n>>}
          ELSE /\ Finish(f, [file EXCEPT ![n].secret = Edited(f, n, s).secret], n, Confirmed(f, n, s))
               /\ unkept' = IF s = Blank THEN unkept ELSE unkept \ {<<f, n>>}
  BY DEF PluginCredentials, Amended
<1>4. unkept' \subseteq MayBeUnkept /\ unkept \subseteq unkept' \cup {<<f, n>>}
  <2>1. unkept \subseteq MayBeUnkept /\ <<f, n>> \in MayBeUnkept
    BY DEF IInv, Typed, MayBeUnkept, Names
  <2> HIDE DEF f, file
  <2> QED BY <1>3, <2>1
<1>5. CASE file[n] = Absent
  <2>1. Finish(f, file, n, Confirmed(f, n, s)) /\ <<f, n>> \in unkept'
    BY <1>3, <1>5
  <2>2. Confirmed(f, n, s) \in Secrets \cup {Absent, Unsure}
    BY <1>1, EditedShows
  <2> HIDE DEF f, file
  <2> QED BY <1>1, <1>2, <1>4, <2>1, <2>2, FinishKeeps
<1>6. CASE file[n] # Absent
  <2> DEFINE secret == Edited(f, n, s).secret
             entry  == [file[n] EXCEPT !.secret = secret]
  <2>1. /\ secret \in Secrets
        /\ Confirmed(f, n, s) \in Secrets \cup {Absent, Unsure}
        /\ Confirmed(f, n, s) # Unsure /\ (s # Blank \/ <<f, n>> \notin unkept) => secret = Confirmed(f, n, s)
    BY <1>1, EditedShows, EntryShows
  <2>2. entry \in Entry /\ entry.secret = secret
    <3> HIDE DEF secret
    <3> QED BY <1>2, <1>6, <2>1 DEF Entry
  <2>3. Finish(f, [file EXCEPT ![n] = entry], n, Confirmed(f, n, s))
    BY <1>3, <1>6
  <2>4. <<f, n>> \notin unkept' => s # Blank \/ <<f, n>> \notin unkept
    BY <1>3, <1>6
  <2>5. Shown(entry) = secret
    <3> HIDE DEF entry
    <3> QED BY <2>2, EntryShows
  <2> HIDE DEF f, file, entry, secret
  <2> QED BY <1>1, <1>2, <1>4, <2>1, <2>2, <2>3, <2>5, <2>4, EntryKeeps
<1> QED
  BY <1>5, <1>6

LEMMA CreateWorkflowKeeps ==
    ASSUME IInv, NEW n \in EntryNames["workflows"], CreateWorkflow(n)
    PROVE  IInv'
<1> DEFINE f == "workflows"
<1>1. f \in Files /\ n \in Names(f) /\ Hot(f, n) /\ disk[f] # Broken
  BY DEF Files, EntryFiles, Names, Hot, CreateWorkflow
<1>2. PICK s \in Offered :
          Finish(f, [disk[f] EXCEPT ![n] = [secret |-> s, more |-> FALSE]], n, s)
  BY DEF CreateWorkflow, Amended
<1> DEFINE entry == [secret |-> s, more |-> FALSE]
<1>3. s \in Secrets /\ entry \in Entry /\ Shown(entry) = s
  BY PlainShows, StoreAssumption
<1>4. Finish(f, [disk[f] EXCEPT ![n] = entry], n, s)
  BY <1>2
<1>5. unkept' = unkept /\ unkept \subseteq MayBeUnkept
  BY DEF IInv, Typed, CreateWorkflow
<1> HIDE DEF f, entry
<1> QED
  BY <1>1, <1>3, <1>4, <1>5, AmendedBase, EntryKeeps

LEMMA DlpKeeps ==
    ASSUME IInv, SaveDlp
    PROVE  IInv'
<1> DEFINE f == "wrapper"
           n == "dlp"
<1>1. f \in Files /\ n \in Names(f) /\ Hot(f, n) /\ disk[f] # Broken
  BY DEF Files, EntryFiles, Names, WrapperParts, Hot, SaveDlp
<1>2. PICK s \in Offered :
          Finish(f, [disk[f] EXCEPT ![n] = [secret |-> s, more |-> FALSE]], n, s)
  BY DEF SaveDlp, Amended
<1> DEFINE entry == [secret |-> s, more |-> FALSE]
<1>3. s \in Secrets /\ entry \in Entry /\ Shown(entry) = s
  BY PlainShows, StoreAssumption
<1>4. Finish(f, [disk[f] EXCEPT ![n] = entry], n, s)
  BY <1>2
<1>5. unkept' = unkept \ {<<f, n>>} /\ unkept \subseteq MayBeUnkept
  BY DEF IInv, Typed, SaveDlp
<1> HIDE DEF f, n, entry
<1> QED
  BY <1>1, <1>3, <1>4, <1>5, AmendedBase, EntryKeeps

LEMMA SetupKeeps ==
    ASSUME IInv, Setup
    PROVE  IInv'
<1> USE DEF IInv
<1> DEFINE f == "wrapper"
           n == "admin"
<1>1. f \in Files /\ n \in Names(f) /\ Names(f) = WrapperParts /\ disk[f] # Broken
  BY DEF Files, EntryFiles, Names, WrapperParts, Setup
<1>2. PICK s \in Offered :
          /\ disk' = [disk EXCEPT ![f] = [disk[f] EXCEPT ![n] = [secret |-> s, more |-> FALSE]]]
          /\ live' = [live EXCEPT ![f][n] = [secret |-> s, more |-> FALSE]]
          /\ told' = [told EXCEPT ![f][n] = s]
  BY DEF Setup, Amended
<1> DEFINE entry   == [secret |-> s, more |-> FALSE]
           content == [disk[f] EXCEPT ![n] = entry]
           loaded  == [live[f] EXCEPT ![n] = entry]
<1>3. s \in Secrets /\ entry \in Entry /\ Shown(entry) = s /\ s # Unsure
  BY PlainShows, StoreAssumption
<1>4. /\ disk[f] \in Contents(f) /\ live \in Disk /\ live[f] \in Contents(f)
      /\ \A m \in Names(f) : Claimed(f, m) => Shown(disk[f][m]) = told[f][m]
  BY <1>1, AmendedBase, DiskGives DEF Typed, Loads
<1>5. /\ content \in Contents(f) /\ content[n] = entry
      /\ \A m \in Names(f) : m # n => content[m] = disk[f][m]
      /\ loaded \in Contents(f) /\ loaded[n] = entry
      /\ \A m \in Names(f) : m # n => loaded[m] = live[f][m]
  <2> HIDE DEF entry
  <2> QED BY <1>1, <1>3, <1>4 DEF Contents
<1>6. disk' = [disk EXCEPT ![f] = content] /\ live' = [live EXCEPT ![f] = loaded]
  BY <1>2
<1>7. /\ told' = [told EXCEPT ![f][n] = s]
      /\ clean' = clean
  BY <1>2 DEF Setup
<1>8. /\ DOMAIN told' = Files
      /\ \A g \in Files : told'[g] \in [Names(g) -> Secrets \cup {Absent, Unsure}]
      /\ told'[f][n] = s
      /\ \A g \in Files : \A m \in Names(g) : g # f \/ m # n => told'[g][m] = told[g][m]
      /\ \A g \in Files \ {f} : told'[g] = told[g]
  BY <1>1, <1>3, <1>7 DEF Typed
<1>9. /\ live'[f] = loaded
      /\ \A g \in Files \ {f} : live'[g] = live[g]
      /\ live' = [g \in Files |-> live'[g]]
  <2> HIDE DEF loaded
  <2>1. live = [g \in Files |-> live[g]]
    BY <1>1, <1>4, DiskGives
  <2> QED BY <1>1, <1>6, <2>1
<1>10. live' \in Disk /\ Loads(live')
  <2> HIDE DEF loaded
  <2>1. \A g \in Files : live'[g] \in Contents(g)
    BY <1>4, <1>5, <1>9, DiskGives DEF Typed, Loads
  <2> QED BY <1>9, <2>1, MakesDisk, ContentsParse DEF Loads
<1>11. /\ unkept' \subseteq MayBeUnkept
       /\ \A g \in Files \ {f} : \A m \in Names(g) : <<g, m>> \in unkept => <<g, m>> \in unkept'
       /\ \A m \in Names(f) : m # n /\ <<f, m>> \in unkept => <<f, m>> \in unkept'
  BY DEF Setup, Typed
<1>12. ASSUME NEW m \in Names(f), Claimed(f, m)'
       PROVE  /\ content # Broken
              /\ Shown(content[m]) = told'[f][m]
              /\ Hot(f, m) \/ m = "admin" => Shown(live'[f][m]) = told'[f][m]
  <2>1. content # Broken
    BY <1>1, <1>5, ContentsParse
  <2>2. CASE m = n
    <3> HIDE DEF entry, content, loaded
    <3> QED BY <1>3, <1>5, <1>8, <1>9, <2>1, <2>2
  <2>3. CASE m # n
    <3>1. told'[f][m] = told[f][m] /\ Claimed(f, m)
      BY <1>1, <1>8, <1>12, <1>11, <2>3 DEF Claimed
    <3>2. Hot(f, m) \/ m = "admin" => Shown(live[f][m]) = told[f][m]
      BY <1>1, <1>12, <3>1 DEF KeptAsTold
    <3> HIDE DEF entry, content, loaded
    <3> QED BY <1>4, <1>5, <1>9, <1>12, <2>1, <2>3, <3>1, <3>2
  <2> QED BY <2>2, <2>3
<1>13. Typed' /\ KeptAsTold'
  <2>1. clean' \in BOOLEAN
    BY <1>7 DEF Typed
  <2>2. content \in Contents(f) \cup {Broken}
    BY <1>5
  <2> HIDE DEF entry, content, loaded, f
  <2> QED BY <1>1, <1>6, <1>8, <1>9, <1>10, <1>12, <1>11, <2>1, <2>2, OneFileKeeps
<1>14. InStep'
  <2>1. \A g \in Files : \A m \in Names(g) : Hot(g, m) => live'[g][m] = live[g][m]
    <3> HIDE DEF entry, content, loaded
    <3> QED BY <1>5, <1>9 DEF Hot
  <2>2. \A m \in Names(f) : Hot(f, m) => content[m] = disk[f][m]
    <3> HIDE DEF entry, content
    <3> QED BY <1>5 DEF Hot
  <2> HIDE DEF entry, content, loaded, f
  <2> QED BY <1>1, <1>5, <1>6, <1>7, <2>1, <2>2, KeepsStep
<1> QED
  BY <1>13, <1>14

LEMMA SettingsKeep ==
    ASSUME IInv, SaveSettings
    PROVE  IInv'
<1> USE DEF IInv
<1> DEFINE f == "wrapper"
<1>1. f \in Files /\ Names(f) = WrapperParts /\ disk[f] # Broken
  BY DEF Files, EntryFiles, Names, SaveSettings
<1>2. PICK form \in SettingsForm :
          /\ disk' = [disk EXCEPT ![f] = WithSettings(form)]
          /\ told' = [told EXCEPT ![f] = SettingsConfirmed(form)]
          /\ unkept' = UnkeptAfter(form)
  BY DEF SaveSettings
<1> DEFINE content == WithSettings(form)
           heard   == SettingsConfirmed(form)
<1>3. /\ content \in Contents(f) /\ content["dlp"] = disk[f]["dlp"]
      /\ heard \in [Names(f) -> Secrets \cup {Absent, Unsure}]
      /\ \A p \in Names(f) : heard[p] # Unsure /\ <<f, p>> \notin unkept' => Shown(content[p]) = heard[p]
      /\ heard["dlp"] = told[f]["dlp"] /\ heard["admin"] = told[f]["admin"]
  BY <1>1, <1>2, SettingsContent
<1>4. live' = live /\ clean' = clean
  BY DEF SaveSettings
<1>5. /\ told'[f] = heard /\ DOMAIN told' = Files
      /\ \A g \in Files \ {f} : told'[g] = told[g]
  BY <1>1, <1>2 DEF Typed
<1>6. /\ unkept' \subseteq MayBeUnkept
      /\ \A g \in Files \ {f} : \A m \in Names(g) : <<g, m>> \in unkept => <<g, m>> \in unkept'
      /\ \A m \in {"dlp", "admin"} : <<f, m>> \in unkept => <<f, m>> \in unkept'
  BY <1>2 DEF Typed, UnkeptAfter, BlankIgnored, MayBeBlank, MayBeUnkept, WrapperParts
<1>7. ASSUME NEW m \in Names(f), Claimed(f, m)'
      PROVE  /\ content # Broken
             /\ Shown(content[m]) = told'[f][m]
             /\ Hot(f, m) \/ m = "admin" => Shown(live'[f][m]) = told'[f][m]
  <2>1. content # Broken
    BY <1>1, <1>3, ContentsParse
  <2>2. Hot(f, m) \/ m = "admin" => told'[f][m] = told[f][m]
    BY <1>3, <1>5 DEF Hot
  <2>3. Hot(f, m) \/ m = "admin" => Claimed(f, m)
    BY <1>7, <1>6, <2>2 DEF Hot, Claimed
  <2>4. Hot(f, m) \/ m = "admin" => Shown(live[f][m]) = told'[f][m]
    BY <1>1, <2>2, <2>3 DEF KeptAsTold
  <2> QED BY <1>3, <1>4, <1>5, <1>7, <2>1, <2>4 DEF Claimed
<1>8. Typed' /\ KeptAsTold'
  <2>1. live' \in Disk /\ Loads(live') /\ clean' \in BOOLEAN
    BY <1>4 DEF Typed, Loads
  <2>2. content \in Contents(f) \cup {Broken}
    BY <1>3
  <2> HIDE DEF f, content, heard
  <2> QED BY <1>1, <1>2, <1>3, <1>4, <1>5, <1>7, <1>6, <2>1, <2>2, OneFileKeeps DEF content
<1>9. InStep'
  <2>1. \A m \in Names(f) : Hot(f, m) => content[m] = disk[f][m]
    BY <1>3 DEF Hot
  <2> HIDE DEF f
  <2> QED BY <1>1, <1>2, <1>3, <1>4, <2>1, KeepsStep
<1> QED
  BY <1>8, <1>9

LEMMA SettingsCutKeeps ==
    ASSUME IInv, SettingsCut
    PROVE  IInv'
<1> DEFINE f == "wrapper"
<1>1. f \in Files /\ disk[f] # Broken
  BY DEF Files, EntryFiles, SettingsCut
<1>2. PICK form \in SettingsForm : disk' = [disk EXCEPT ![f] = CutBehind(WithSettings(form), order')]
  BY DEF SettingsCut
<1>3. CutBehind(WithSettings(form), order') \in Contents(f) \cup {Broken}
  BY <1>1, SettingsContent, CutIsContents
<1>4. /\ live' = live /\ told' = told /\ clean' = FALSE
      /\ unkept' = unkept \cup {<<f, n>> : n \in Names(f)}
  BY DEF SettingsCut, Names
<1>5. /\ Typed /\ KeptAsTold /\ InStep
      /\ unkept' \subseteq MayBeUnkept
  BY <1>4 DEF IInv, Typed, MayBeUnkept, Names
<1>6. \A n \in Names(f) : ~Claimed(f, n)'
  BY <1>4 DEF Claimed
<1>7. Typed' /\ KeptAsTold'
  <2> HIDE DEF f
  <2>1. live' \in Disk /\ Loads(live') /\ clean' \in BOOLEAN
    BY <1>4, <1>5 DEF Typed, Loads
  <2>2. DOMAIN told' = Files /\ told'[f] \in [Names(f) -> Secrets \cup {Absent, Unsure}]
    BY <1>1, <1>4, <1>5 DEF Typed
  <2> QED BY <1>1, <1>2, <1>3, <1>4, <1>5, <1>6, <2>1, <2>2, OneFileKeeps
<1>8. InStep'
  BY <1>4 DEF InStep
<1> QED
  BY <1>7, <1>8 DEF IInv

\* People and failing writes leave some content in the file, or one that does not parse.
LEMMA HandEditKeeps ==
    ASSUME IInv, NEW f \in Files, NEW n \in Names(f), HandEdit(f, n)
    PROVE  IInv'
<1> USE DEF IInv
<1>1. PICK entry \in ByHand : disk' = [disk EXCEPT ![f][n] = entry]
  BY DEF HandEdit
<1> DEFINE content == [disk[f] EXCEPT ![n] = entry]
<1>2. /\ disk[f] \in Contents(f)
      /\ \A m \in Names(f) : Claimed(f, m) => Shown(disk[f][m]) = told[f][m]
  BY AmendedBase DEF HandEdit
<1>3. entry \in Entry \cup {Absent}
  BY StoreAssumption
<1>4. content \in Contents(f) /\ \A m \in Names(f) : m # n => content[m] = disk[f][m]
  BY <1>2, <1>3 DEF Contents
<1>5. disk' = [disk EXCEPT ![f] = content]
  BY <1>1
<1>6. /\ told' = [told EXCEPT ![f][n] = Unsure]
      /\ live' = live /\ clean' = FALSE
  BY DEF HandEdit, Accident
<1>7. /\ DOMAIN told' = Files
      /\ told'[f] \in [Names(f) -> Secrets \cup {Absent, Unsure}]
      /\ told'[f][n] = Unsure
      /\ \A m \in Names(f) : m # n => told'[f][m] = told[f][m]
      /\ \A g \in Files \ {f} : told'[g] = told[g]
  BY <1>6 DEF Typed
<1>8. /\ unkept' \subseteq MayBeUnkept
      /\ \A g \in Files \ {f} : \A m \in Names(g) : <<g, m>> \in unkept => <<g, m>> \in unkept'
      /\ \A m \in Names(f) : m # n /\ <<f, m>> \in unkept => <<f, m>> \in unkept'
  BY DEF HandEdit, Typed
<1>9. ASSUME NEW m \in Names(f), Claimed(f, m)'
      PROVE  /\ content # Broken
             /\ Shown(content[m]) = told'[f][m]
             /\ Hot(f, m) \/ m = "admin" => Shown(live'[f][m]) = told'[f][m]
  <2>1. m # n /\ told'[f][m] = told[f][m] /\ Claimed(f, m)
    BY <1>7, <1>9, <1>8 DEF Claimed
  <2>2. Hot(f, m) \/ m = "admin" => Shown(live[f][m]) = told[f][m]
    BY <2>1 DEF KeptAsTold
  <2>3. content # Broken
    BY <1>4, ContentsParse
  <2> HIDE DEF content
  <2> QED BY <1>2, <1>4, <1>6, <1>9, <2>1, <2>2, <2>3
<1>10. Typed' /\ KeptAsTold'
  <2>1. live' \in Disk /\ Loads(live') /\ clean' \in BOOLEAN
    BY <1>6 DEF Typed, Loads
  <2>2. content \in Contents(f) \cup {Broken}
    BY <1>4
  <2> HIDE DEF content
  <2> QED BY <1>5, <1>6, <1>7, <1>9, <1>8, <2>1, <2>2, OneFileKeeps
<1>11. InStep'
  BY <1>6 DEF InStep
<1> QED
  BY <1>10, <1>11

LEMMA SaveFailsKeeps ==
    ASSUME IInv, NEW f \in Files, SaveFails(f)
    PROVE  IInv'
<1> USE DEF IInv
<1>1. Forget(f) /\ live' = live /\ clean' = FALSE
  BY DEF SaveFails, Accident
<1>2. \E content \in Contents(f) \cup {Broken} : disk' = [disk EXCEPT ![f] = content]
  <2>1. CASE \E base \in {disk[f], live[f]} \ {Broken}, lost \in SUBSET Names(f) \ {{}} :
                 disk' = [disk EXCEPT ![f] = [n \in Names(f) |-> IF n \in lost THEN Absent ELSE base[n]]]
    <3>1. PICK base \in {disk[f], live[f]} \ {Broken}, lost \in SUBSET Names(f) \ {{}} :
                 disk' = [disk EXCEPT ![f] = [n \in Names(f) |-> IF n \in lost THEN Absent ELSE base[n]]]
      BY <2>1
    <3> DEFINE content == [n \in Names(f) |-> IF n \in lost THEN Absent ELSE base[n]]
    <3>2. \A n \in Names(f) : base[n] \in Entry \cup {Absent}
      BY DiskGives DEF Typed
    <3>3. content \in Contents(f)
      BY <3>2 DEF Contents
    <3>4. disk' = [disk EXCEPT ![f] = content]
      BY <3>1
    <3> HIDE DEF content
    <3> QED BY <3>3, <3>4
  <2>2. CASE /\ f = "wrapper" /\ disk[f] # Broken
             /\ disk' = [disk EXCEPT ![f] = CutBehind(disk[f], order')]
    <3>1. disk[f] \in Contents(f)
      BY <2>2, AmendedBase
    <3>2. CutBehind(disk[f], order') \in Contents(f)
      BY <2>2, <3>1, CutIsContents
    <3> QED BY <2>2, <3>2
  <2>3. CASE disk' = [disk EXCEPT ![f] = Broken]
    BY <2>3
  <2> QED
    BY <2>1, <2>2, <2>3 DEF SaveFails
<1> QED
  BY <1>1, <1>2, ForgetKeeps

\* Nothing has been confirmed of a file that does not parse, so it can be replaced.
LEMMA HandRepairKeeps ==
    ASSUME IInv, NEW f \in Files, HandRepair(f)
    PROVE  IInv'
<1> USE DEF IInv
<1> DEFINE content == live[f]
<1>1. /\ disk[f] = Broken /\ disk' = [disk EXCEPT ![f] = content]
      /\ live' = live /\ told' = told /\ unkept' = unkept /\ clean' = clean
  BY DEF HandRepair
<1>2. content \in Contents(f) \cup {Broken}
  BY DiskGives DEF Typed
<1>3. \A n \in Names(f) : ~Claimed(f, n)'
  BY <1>1 DEF KeptAsTold, Claimed
<1>4. clean = FALSE
  BY <1>1 DEF InStep, Loads, Typed
<1>5. Typed' /\ KeptAsTold'
  <2>1. live' \in Disk /\ Loads(live') /\ clean' \in BOOLEAN
    BY <1>1 DEF Typed, Loads
  <2>2. /\ DOMAIN told' = Files /\ told'[f] \in [Names(f) -> Secrets \cup {Absent, Unsure}]
        /\ unkept' \subseteq MayBeUnkept
    BY <1>1 DEF Typed
  <2> HIDE DEF content
  <2> QED BY <1>1, <1>2, <1>3, <2>1, <2>2, OneFileKeeps
<1>6. InStep'
  BY <1>1, <1>4 DEF InStep
<1> QED
  BY <1>5, <1>6

LEMMA RestartKeeps ==
    ASSUME IInv, Restart
    PROVE  IInv'
<1>1. disk' = disk /\ live' = disk /\ told' = told /\ unkept' = unkept /\ clean' = TRUE /\ Loads(disk)
  BY DEF Restart
<1> QED
  BY <1>1 DEF IInv, Typed, KeptAsTold, Claimed, InStep, Loads, Shown, Hot

LEMMA SaveWorkflowKeeps ==
    ASSUME IInv, NEW n \in EntryNames["workflows"], SaveWorkflow(n)
    PROVE  IInv'
<1> USE DEF IInv
<1>1. disk' = disk /\ told' = told /\ unkept' = unkept /\ Reload
  BY DEF SaveWorkflow
<1>2. CASE Loads(disk)
  <2>1. live' = Reloaded(disk) /\ clean' = TRUE
    BY <1>1, <1>2 DEF Reload, Loads
  <2>2. /\ live' \in Disk /\ Loads(live')
        /\ \A f \in Files : \A m \in Names(f) :
               live'[f][m] = IF Hot(f, m) THEN disk[f][m] ELSE live[f][m]
    BY <1>2, <2>1, ReloadedIsDisk DEF Typed, Loads
  <2>3. Typed'
    BY <1>1, <2>1, <2>2 DEF Typed, Loads
  <2>4. KeptAsTold'
    BY <1>1, <2>2 DEF KeptAsTold, Claimed, Shown, Hot
  <2>5. InStep'
    BY <1>1, <1>2, <2>2 DEF InStep, Loads, Hot
  <2> QED BY <2>3, <2>4, <2>5
<1>3. CASE ~Loads(disk)
  <2>1. live' = live /\ clean' = clean
    BY <1>1, <1>3 DEF Reload, Loads
  <2> QED BY <1>1, <2>1 DEF Typed, KeptAsTold, Claimed, InStep, Loads, Shown, Hot
<1> QED
  BY <1>2, <1>3

LEMMA NextInv == IInv /\ [Next]_vars => IInv'
<1> SUFFICES ASSUME IInv, [Next]_vars PROVE IInv'
  OBVIOUS
<1>1. ASSUME NEW f \in {"agents", "servers"}, Entries(f)
      PROVE  IInv'
  BY <1>1, EntriesKeep DEF Entries
<1>2. ASSUME NEW n \in EntryNames["gateway"], GatewayCredentials(n)
      PROVE  IInv'
  BY <1>2, GatewayKeeps
<1>3. ASSUME NEW n \in EntryNames["plugins"], PluginCredentials(n)
      PROVE  IInv'
  BY <1>3, PluginKeeps
<1>4. ASSUME NEW n \in EntryNames["workflows"], CreateWorkflow(n) \/ SaveWorkflow(n)
      PROVE  IInv'
  BY <1>4, CreateWorkflowKeeps, SaveWorkflowKeeps
<1>5. CASE SaveDlp
  BY <1>5, DlpKeeps
<1>6. CASE Setup
  BY <1>6, SetupKeeps
<1>7. CASE SaveSettings
  BY <1>7, SettingsKeep
<1>8. CASE SettingsCut
  BY <1>8, SettingsCutKeeps
<1>9. ASSUME NEW f \in Files, HandBreak(f)
      PROVE  IInv'
  <2>1. /\ disk' = [disk EXCEPT ![f] = Broken]
        /\ Forget(f) /\ live' = live /\ clean' = FALSE
    BY <1>9 DEF HandBreak, Accident
  <2> QED BY <2>1, ForgetKeeps
<1>10. ASSUME NEW f \in Files, HandRepair(f)
       PROVE  IInv'
  BY <1>10, HandRepairKeeps
<1>11. ASSUME NEW f \in Files, SaveFails(f)
       PROVE  IInv'
  BY <1>11, SaveFailsKeeps
<1>12. ASSUME NEW f \in Files, NEW n \in Names(f), HandEdit(f, n)
       PROVE  IInv'
  BY <1>12, HandEditKeeps
<1>13. CASE Restart
  BY <1>13, RestartKeeps
<1>14. CASE UNCHANGED vars
  BY <1>14 DEF vars, IInv, Typed, KeptAsTold, Claimed, InStep, Loads, Shown, Hot
<1> QED
  BY <1>1, <1>2, <1>3, <1>4, <1>5, <1>6, <1>7, <1>8, <1>9, <1>10, <1>11, <1>12, <1>13, <1>14 DEF Next

-----------------------------------------------------------------------------
(* The order of the sections, step by step *)

\* A step on another file leaves the sections as they are.
LEMMA OtherFileKeepsOrder ==
    ASSUME OrderFits(order, disk), disk'["wrapper"] = disk["wrapper"], order' = order
    PROVE  OrderFits(order, disk)'
  BY DEF OrderFits, NoneTwice, InFile, Present

\* So does one that damages the file.
LEMMA DamageKeepsOrder ==
    ASSUME OrderFits(order, disk), disk'["wrapper"] = Broken, order' = order
    PROVE  OrderFits(order, disk)'
  BY DEF OrderFits, NoneTwice

LEMMA FitsAfter ==
    ASSUME NEW content, NEW o, disk'["wrapper"] = content, order' = o,
           NoneTwice(o), InFile(o) = Present(content)
    PROVE  OrderFits(order, disk)'
  BY DEF OrderFits, NoneTwice, InFile, Present

\* A part is saved, and its section with it.
LEMMA PartSavedKeepsOrder ==
    ASSUME Typed, OrderFits(order, disk), disk["wrapper"] # Broken,
           NEW p \in WrapperParts, NEW entry \in Entry,
           disk' = [disk EXCEPT !["wrapper"] = [disk["wrapper"] EXCEPT ![p] = entry]],
           order' = WithSection(order, SectionOf(p))
    PROVE  OrderFits(order, disk)'
<1>1. "wrapper" \in Files /\ disk \in Disk
  BY DEF Files, Typed
<1>2. disk["wrapper"] \in Contents("wrapper") /\ disk = [g \in Files |-> disk[g]]
  BY <1>1, DiskGives
<1> DEFINE content == [disk["wrapper"] EXCEPT ![p] = entry]
<1>3. disk'["wrapper"] = content
  BY <1>1, <1>2
<1>4. SectionOf(p) \in SectionNames
  BY DEF SectionNames
<1>5. Present(content) = Present(disk["wrapper"]) \cup {SectionOf(p)}
  BY <1>2, PresentWith
<1>6. NoneTwice(order') /\ InFile(order') = Present(content)
  BY <1>4, <1>5, SectionWritten DEF OrderFits
<1> HIDE DEF content
<1> QED
  BY <1>3, <1>6, FitsAfter

LEMMA CutKeepsOrder ==
    ASSUME Typed, NEW content, NEW all, NoneTwice(all), InFile(all) = Present(content),
           NEW k \in 0..Len(all),
           order' = SubSeq(all, 1, k),
           disk' = [disk EXCEPT !["wrapper"] = CutBehind(content, order')]
    PROVE  OrderFits(order, disk)'
<1>1. "wrapper" \in Files /\ disk = [g \in Files |-> disk[g]]
  BY DiskGives DEF Files, Typed
<1>2. disk'["wrapper"] = CutBehind(content, order')
  BY <1>1
<1>3. NoneTwice(order') /\ InFile(order') \subseteq Present(content)
  BY SectionsCut
<1>4. Present(CutBehind(content, order')) = InFile(order')
  BY <1>3, PresentInCut
<1> QED
  BY <1>2, <1>3, <1>4, FitsAfter

LEMMA SettingsCutKeepsOrder ==
    ASSUME IInv, OrderFits(order, disk), SettingsCut
    PROVE  OrderFits(order, disk)'
<1>1. PICK form \in SettingsForm :
          LET all  == OrderWithSettings(form)
              here == CHOOSE i \in 1..Len(all) : all[i] = "notifications"
          IN  /\ Unwritable(form)
              /\ order' = SubSeq(all, 1, here)
              /\ disk' = [disk EXCEPT !["wrapper"] = CutBehind(WithSettings(form), order')]
  BY DEF SettingsCut
<1> DEFINE all  == OrderWithSettings(form)
           here == CHOOSE i \in 1..Len(all) : all[i] = "notifications"
<1>2. NoneTwice(all) /\ InFile(all) = Present(WithSettings(form))
  BY SettingsInOrder DEF SettingsCut
<1>3. "notifications" \in InFile(all)
  <2>1. TelegramGiven(form) /\ Saving /\ disk["wrapper"] # Broken
    BY <1>1 DEF Unwritable, SettingsCut
  <2> QED BY <2>1, SettingsInOrder
<1>4. here \in 0..Len(all)
  <2>1. Len(all) \in Nat /\ \E i \in 1..Len(all) : all[i] = "notifications"
    BY <1>2, <1>3, Occurrence
  <2> HIDE DEF all
  <2>2. here \in 1..Len(all)
    BY <2>1
  <2> HIDE DEF here
  <2> QED BY <2>1, <2>2
<1>5. order' = SubSeq(all, 1, here) /\ disk' = [disk EXCEPT !["wrapper"] = CutBehind(WithSettings(form), order')]
  BY <1>1
<1> HIDE DEF all, here
<1> QED
  BY <1>2, <1>4, <1>5, CutKeepsOrder DEF IInv

LEMMA HandEditKeepsOrder ==
    ASSUME IInv, OrderFits(order, disk), NEW n \in WrapperParts, HandEdit("wrapper", n)
    PROVE  OrderFits(order, disk)'
<1>1. /\ "wrapper" \in Files /\ disk["wrapper"] # Broken
      /\ disk["wrapper"] \in Contents("wrapper") /\ disk = [g \in Files |-> disk[g]]
  BY DiskGives DEF Files, IInv, Typed, HandEdit
<1>2. PICK entry \in ByHand : disk' = [disk EXCEPT !["wrapper"][n] = entry]
  BY DEF HandEdit
<1> DEFINE content == [disk["wrapper"] EXCEPT ![n] = entry]
           s       == SectionOf(n)
<1>3. disk'["wrapper"] = content
  BY <1>1, <1>2
<1>4. Present(content) \ {s} = Present(disk["wrapper"]) \ {s}
  BY <1>1, PresentBut
<1>5. s \in SectionNames /\ NoneTwice(order) /\ InFile(order) = Present(disk["wrapper"])
  BY <1>1 DEF SectionNames, OrderFits
<1>6. IF s \notin Present(content) THEN order' = WithoutSection(order, s)
      ELSE order' = WithSection(order, s) \/ (s \notin InFile(order) /\ order' = <<s>> \o order)
  BY <1>3 DEF HandEdit
<1> HIDE DEF content, s
<1>7. NoneTwice(order') /\ InFile(order') = Present(content)
  <2>1. CASE order' = WithoutSection(order, s) /\ s \notin Present(content)
    <3>1. NoneTwice(order') /\ InFile(order') = InFile(order) \ {s}
      BY <1>5, <2>1, SectionRemoved
    <3> QED BY <1>4, <1>5, <2>1, <3>1
  <2>2. CASE order' = WithSection(order, s) /\ s \in Present(content)
    <3>1. NoneTwice(order') /\ InFile(order') = InFile(order) \cup {s}
      BY <1>5, <2>2, SectionWritten
    <3> QED BY <1>4, <1>5, <2>2, <3>1
  <2>3. CASE order' = <<s>> \o order /\ s \notin InFile(order) /\ s \in Present(content)
    <3>1. NoneTwice(order') /\ InFile(order') = InFile(order) \cup {s}
      BY <1>5, <2>3, SectionFirst
    <3> QED BY <1>4, <1>5, <2>3, <3>1
  <2> QED BY <1>6, <2>1, <2>2, <2>3
<1> QED
  BY <1>3, <1>7, FitsAfter

LEMMA HandRepairKeepsOrder ==
    ASSUME IInv, HandRepair("wrapper")
    PROVE  OrderFits(order, disk)'
<1> DEFINE content    == live["wrapper"]
           with(o, s) == IF s \in Present(content) THEN WithSection(o, s) ELSE o
           Has(o, S)  == NoneTwice(o) /\ InFile(o) = Present(content) \cap S
<1>1. disk'["wrapper"] = content /\ order' = ExampleOrder(content)
  BY DiskGives DEF Files, IInv, Typed, HandRepair
<1>2. ASSUME NEW o, NEW S, NEW s, Has(o, S)
      PROVE  Has(with(o, s), S \cup {s})
  <2>1. s \in Present(content) => s \in SectionNames
    BY PresentOf
  <2> HIDE DEF content
  <2> QED BY <1>2, <2>1, SectionWritten
<1> DEFINE o1 == with(<<>>, "settings")
           o2 == with(o1, "vault")
           o3 == with(o2, "dlp")
           o4 == with(o3, "notifications")
           o5 == with(o4, "admin")
<1>3. ExampleOrder(content) = o5
  BY DEF ExampleOrder
<1>4. Has(<<>>, {})
  BY EmptySeq DEF NoneTwice, InFile
<1> HIDE DEF with, Has
<1>5. Has(o1, {"settings"})
  BY <1>2, <1>4
<1>6. Has(o2, {"settings", "vault"})
  BY <1>2, <1>5
<1>7. Has(o3, {"settings", "vault", "dlp"})
  BY <1>2, <1>6
<1>8. Has(o4, {"settings", "vault", "dlp", "notifications"})
  BY <1>2, <1>7
<1>9. Has(o5, {"settings", "vault", "dlp", "notifications", "admin"})
  BY <1>2, <1>8
<1>10. Present(content) \subseteq {"settings", "vault", "dlp", "notifications", "admin"}
  BY SectionParts
<1> HIDE DEF content, o1, o2, o3, o4, o5
<1>11. NoneTwice(o5) /\ InFile(o5) = Present(content)
  BY <1>9, <1>10 DEF Has
<1> QED
  BY <1>1, <1>3, <1>11, FitsAfter

LEMMA SaveFailsKeepsOrder ==
    ASSUME IInv, OrderFits(order, disk), NEW f \in Files, SaveFails(f)
    PROVE  OrderFits(order, disk)'
<1>1. disk = [g \in Files |-> disk[g]] /\ "wrapper" \in Files
  BY DiskGives DEF Files, IInv, Typed
<1>2. CASE /\ f \in EntryFiles /\ order' = order
           /\ \E content : disk' = [disk EXCEPT ![f] = content]
  <2>1. f # "wrapper"
    BY <1>2 DEF EntryFiles
  <2> QED BY <1>1, <1>2, <2>1, OtherFileKeepsOrder
<1>3. CASE /\ f = "wrapper" /\ disk[f] # Broken
           /\ \E k \in 0..Len(order) :
                  /\ order' = SubSeq(order, 1, k)
                  /\ disk' = [disk EXCEPT ![f] = CutBehind(disk[f], order')]
  BY <1>3, CutKeepsOrder DEF OrderFits, IInv
<1>4. CASE disk' = [disk EXCEPT ![f] = Broken] /\ order' = order
  <2>1. disk'["wrapper"] = Broken \/ disk'["wrapper"] = disk["wrapper"]
    BY <1>1, <1>4
  <2> QED BY <1>4, <2>1, DamageKeepsOrder, OtherFileKeepsOrder
<1> QED
  BY <1>2, <1>3, <1>4 DEF SaveFails

LEMMA OrderStep ==
    ASSUME IInv, OrderFits(order, disk), [Next]_vars
    PROVE  OrderFits(order, disk)'
<1>1. disk = [g \in Files |-> disk[g]] /\ "wrapper" \in Files
  BY DiskGives DEF Files, IInv, Typed
<1>2. ASSUME NEW f \in Files \ {"wrapper"}, NEW content, disk' = [disk EXCEPT ![f] = content], order' = order
      PROVE  OrderFits(order, disk)'
  BY <1>1, <1>2, OtherFileKeepsOrder
<1>3. EntryFiles = Files \ {"wrapper"}
  BY DEF Files, EntryFiles
<1>4. \A s \in Offered : [secret |-> s, more |-> FALSE] \in Entry
  BY PlainShows, StoreAssumption
<1>5. ASSUME NEW f \in {"agents", "servers"}, Entries(f)
      PROVE  OrderFits(order, disk)'
  <2>1. order' = order /\ \E content : disk' = [disk EXCEPT ![f] = content]
    BY <1>5 DEF Entries, CreateEntry, EditEntry, DeleteEntry, Finish
  <2> QED BY <1>2, <1>3, <2>1 DEF EntryFiles
<1>6. ASSUME NEW n, GatewayCredentials(n)
      PROVE  OrderFits(order, disk)'
  <2>1. order' = order /\ \E content : disk' = [disk EXCEPT !["gateway"] = content]
    BY <1>6 DEF GatewayCredentials, Finish
  <2> QED BY <1>2, <1>3, <2>1 DEF EntryFiles
<1>7. ASSUME NEW n, PluginCredentials(n)
      PROVE  OrderFits(order, disk)'
  <2>1. order' = order /\ \E content : disk' = [disk EXCEPT !["plugins"] = content]
    BY <1>7 DEF PluginCredentials, Finish
  <2> QED BY <1>2, <1>3, <2>1 DEF EntryFiles
<1>8. ASSUME NEW n, CreateWorkflow(n)
      PROVE  OrderFits(order, disk)'
  <2>1. order' = order /\ \E content : disk' = [disk EXCEPT !["workflows"] = content]
    BY <1>8 DEF CreateWorkflow, Finish
  <2> QED BY <1>2, <1>3, <2>1 DEF EntryFiles
<1>9. ASSUME NEW n, SaveWorkflow(n)
      PROVE  OrderFits(order, disk)'
  BY <1>9, OtherFileKeepsOrder DEF SaveWorkflow
<1>10. CASE SaveDlp
  <2>1. PICK s \in Offered :
            disk' = [disk EXCEPT !["wrapper"] = [disk["wrapper"] EXCEPT !["dlp"] = [secret |-> s, more |-> FALSE]]]
    BY <1>10 DEF SaveDlp, Finish, Amended
  <2>2. /\ order' = WithSection(order, SectionOf("dlp")) /\ disk["wrapper"] # Broken
        /\ "dlp" \in WrapperParts
    BY <1>10 DEF SaveDlp, SectionOf, WrapperParts
  <2> QED BY <1>4, <2>1, <2>2, PartSavedKeepsOrder DEF IInv
<1>11. CASE Setup
  <2>1. PICK s \in Offered :
            disk' = [disk EXCEPT !["wrapper"] = [disk["wrapper"] EXCEPT !["admin"] = [secret |-> s, more |-> FALSE]]]
    BY <1>11 DEF Setup, Amended
  <2>2. /\ order' = WithSection(order, SectionOf("admin")) /\ disk["wrapper"] # Broken
        /\ "admin" \in WrapperParts
    BY <1>11 DEF Setup, SectionOf, WrapperParts
  <2> QED BY <1>4, <2>1, <2>2, PartSavedKeepsOrder DEF IInv
<1>12. CASE SaveSettings
  <2>1. disk["wrapper"] # Broken /\ Saving
    BY <1>12 DEF SaveSettings
  <2>2. PICK form \in SettingsForm :
            /\ disk' = [disk EXCEPT !["wrapper"] = WithSettings(form)]
            /\ order' = OrderWithSettings(form)
    BY <1>12 DEF SaveSettings
  <2>3. disk'["wrapper"] = WithSettings(form)
    BY <1>1, <2>2
  <2>4. NoneTwice(OrderWithSettings(form)) /\ InFile(OrderWithSettings(form)) = Present(WithSettings(form))
    BY <2>1, SettingsInOrder
  <2> QED BY <2>2, <2>3, <2>4, FitsAfter
<1>13. CASE SettingsCut
  BY <1>13, SettingsCutKeepsOrder
<1>14. ASSUME NEW f \in Files, HandBreak(f)
       PROVE  OrderFits(order, disk)'
  <2>1. order' = order /\ disk' = [disk EXCEPT ![f] = Broken]
    BY <1>14 DEF HandBreak
  <2>2. disk'["wrapper"] = Broken \/ disk'["wrapper"] = disk["wrapper"]
    BY <1>1, <2>1
  <2> QED BY <2>1, <2>2, DamageKeepsOrder, OtherFileKeepsOrder
<1>15. ASSUME NEW f \in Files, HandRepair(f)
       PROVE  OrderFits(order, disk)'
  <2>1. CASE f = "wrapper"
    BY <1>15, <2>1, HandRepairKeepsOrder
  <2>2. CASE f # "wrapper"
    BY <1>2, <1>15, <2>2 DEF HandRepair
  <2> QED BY <2>1, <2>2
<1>16. ASSUME NEW f \in Files, SaveFails(f)
       PROVE  OrderFits(order, disk)'
  BY <1>16, SaveFailsKeepsOrder
<1>17. ASSUME NEW f \in Files, NEW n \in Names(f), HandEdit(f, n)
       PROVE  OrderFits(order, disk)'
  <2>1. CASE f = "wrapper"
    BY <1>17, <2>1, HandEditKeepsOrder DEF Names
  <2>2. CASE f # "wrapper"
    <3>1. order' = order /\ \E entry \in ByHand : disk' = [disk EXCEPT ![f][n] = entry]
      BY <1>17, <2>2 DEF HandEdit
    <3>2. disk'["wrapper"] = disk["wrapper"]
      BY <1>1, <2>2, <3>1
    <3> QED BY <3>1, <3>2, OtherFileKeepsOrder
  <2> QED BY <2>1, <2>2
<1>18. CASE Restart
  BY <1>18, OtherFileKeepsOrder DEF Restart
<1>19. CASE UNCHANGED vars
  BY <1>19, OtherFileKeepsOrder DEF vars
<1> QED
  BY <1>5, <1>6, <1>7, <1>8, <1>9, <1>10, <1>11, <1>12, <1>13, <1>14, <1>15, <1>16, <1>17, <1>18, <1>19
     DEF Next

\* Saves and accidents are counted up to their bounds.
Counters == saves \in 0..MaxSaves /\ accidents \in 0..MaxAccidents

LEMMA CountersStep == Counters /\ [Next]_vars => Counters'
<1> SUFFICES ASSUME Counters, [Next]_vars PROVE Counters'
  OBVIOUS
<1>1. (saves' = saves \/ Counted) /\ (accidents' = accidents \/ Accident)
  BY DEF Next, vars, Entries, CreateEntry, EditEntry, DeleteEntry, GatewayCredentials, PluginCredentials,
         CreateWorkflow, SaveWorkflow, SaveDlp, Setup, SaveSettings, SettingsCut, HandEdit, HandBreak,
         HandRepair, SaveFails, Restart, Finish, Saving
<1> QED
  BY <1>1, StoreAssumption DEF Counters, Counted, Accident

\* Of every behaviour: the files, the loaded configuration and what was confirmed are of
\* their types, what was confirmed is kept, and files and process are in step.
THEOREM Invariant == Spec => []IInv
<1> QED
  BY InitInv, NextInv, PTL DEF Spec

\* What a page said of an entry, and its own save did (Claimed), no other save, no reload, no
\* damage elsewhere and no restart undoes (admin's saves with config_writer, _hot_reload and
\* load_config).  Not claimed is what the settings page says of a blank field, what the page
\* of a plugin says that has left its file, and wrapper.toml once a save of the settings cut it.
THEOREM ConfirmedIsKept == Spec => []KeptAsTold
<1>1. IInv => KeptAsTold
  BY DEF IInv
<1> QED
  BY <1>1, Invariant, PTL

\* Until somebody touches the files or a write fails, the process runs on what the files say.
THEOREM FilesAndProcessInStep == Spec => []InStep
<1>1. IInv => InStep
  BY DEF IInv
<1> QED
  BY <1>1, Invariant, PTL

\* What is on disk, what is loaded of it, the order of the sections of wrapper.toml and the
\* counters are of their types: whatever is saved, cut off or edited, the sections listed
\* are those of the file, each once.
THEOREM TypeCorrect == Spec => []TypeOK
<1> DEFINE All == IInv /\ OrderFits(order, disk) /\ Counters
<1>1. Init => All
  <2> SUFFICES ASSUME Init PROVE All
    OBVIOUS
  <2>1. IInv
    BY InitInv
  <2>2. OrderFits(order, disk) /\ Counters
    BY StoreAssumption DEF Init, Counters
  <2> QED BY <2>1, <2>2
<1>2. All /\ [Next]_vars => All'
  BY NextInv, OrderStep, CountersStep
<1>3. All => TypeOK
  BY DEF TypeOK, IInv, Counters
<1> QED
  BY <1>1, <1>2, <1>3, PTL DEF Spec

\* A step that takes over a configuration takes over all of one, read at one moment.
TakenWhole ==
    \A f \in Files : \A n \in Names(f) : Hot(f, n) /\ live'[f][n] # live[f][n] =>
        /\ Loads(disk')
        /\ \A g \in Files : \A m \in Names(g) : Hot(g, m) => live'[g][m] = disk'[g][m]

LEMMA StepTakesWhole == IInv /\ IInv' /\ [Next]_vars => TakenWhole
<1> SUFFICES ASSUME IInv, IInv', [Next]_vars PROVE TakenWhole
  OBVIOUS
<1>1. CASE Reload
  <2>1. CASE Loads(disk')
    <3>1. disk' \in Disk /\ Typed /\ live' = Reloaded(disk')
      BY <1>1, <2>1 DEF IInv, Typed, Reload
    <3>2. \A g \in Files : \A m \in Names(g) : Hot(g, m) => live'[g][m] = disk'[g][m]
      BY <2>1, <3>1, ReloadedIsDisk
    <3> QED BY <2>1, <3>2 DEF TakenWhole
  <2>2. CASE ~Loads(disk')
    BY <1>1, <2>2 DEF Reload, TakenWhole
  <2> QED BY <2>1, <2>2
<1>2. CASE live' = live
  BY <1>2 DEF TakenWhole
<1>3. CASE Setup
  <2>1. PICK s \in Offered : live' = [live EXCEPT !["wrapper"]["admin"] = [secret |-> s, more |-> FALSE]]
    BY <1>3 DEF Setup
  <2>2. \A f \in Files : \A n \in Names(f) : Hot(f, n) => live'[f][n] = live[f][n]
    <3>1. live = [g \in Files |-> live[g]]
      BY DiskGives DEF IInv, Typed, Files
    <3>2. live["wrapper"] = [n \in Names("wrapper") |-> live["wrapper"][n]]
      BY DEF IInv, Typed, Disk, Loads, Contents, Files
    <3> QED BY <2>1, <3>1, <3>2 DEF Hot
  <2> QED BY <2>2 DEF TakenWhole
<1>4. CASE Restart
  BY <1>4 DEF Restart, TakenWhole
<1>5. Next => Reload \/ live' = live \/ Setup \/ Restart
  BY DEF Next, Entries, CreateEntry, EditEntry, DeleteEntry, GatewayCredentials, PluginCredentials,
         CreateWorkflow, SaveWorkflow, SaveDlp, SaveSettings, SettingsCut, HandEdit, HandBreak,
         HandRepair, SaveFails, Finish
<1>6. CASE UNCHANGED vars
  BY <1>2, <1>6 DEF vars
<1> QED
  BY <1>1, <1>2, <1>3, <1>4, <1>5, <1>6

\* A reload that fails changes nothing, one that succeeds leaves no part behind.
THEOREM ReloadsAreWhole == Spec => ReloadIsWhole
<1>1. IInv /\ IInv' /\ [Next]_vars => [TakenWhole]_vars
  BY StepTakesWhole
<1> QED
  BY <1>1, Invariant, PTL DEF Spec, ReloadIsWhole, TakenWhole
=============================================================================
