----------------------------- MODULE ConfigStore -----------------------------
(***************************************************************************)
(* The TOML files of the configuration directory, what the running process *)
(* has loaded of them, and the admin pages that save them (config_writer,  *)
(* config.load_config, admin, _hot_reload of server).                      *)
(*                                                                         *)
(* A handler that saves writes one file and reloads all of them without a  *)
(* suspension point, so a save is one action.  Four kinds of save differ   *)
(* in where they take from what the page does not show: agents, servers    *)
(* and gateway tools rebuild their file from the loaded configuration;     *)
(* plugins, workflows and the sections of wrapper.toml amend the file.     *)
(* People edit the files by hand as well, writes fail halfway, and the     *)
(* process stops and starts.                                               *)
(***************************************************************************)
EXTENDS Naturals, Sequences

CONSTANTS EntryNames,     \* per file with entries: their names
          Secrets,        \* what an entry can hold
          Offered,        \* what people type into the pages
          Blank,          \* a field left blank: keep what is there
          Absent,         \* no such entry
          Broken,         \* a file that does not parse
          Unsure,         \* nothing is known of an entry
          ByHand,         \* what people write into an entry by hand, Absent among it
          Installed,      \* directories the process is first started with: files and order
          MaxSaves, MaxAccidents

EntryFiles == {"agents", "servers", "gateway", "plugins", "workflows"}
Files == EntryFiles \cup {"wrapper"}

\* The parts of wrapper.toml that the pages treat apart, and their sections.  "settings"
\* stands for server, logging, approval and anomaly, which are always written together.
WrapperParts == {"settings", "vault", "slack", "telegram", "dlp", "admin"}
SectionOf(p) == IF p \in {"slack", "telegram"} THEN "notifications" ELSE p
SectionNames == {SectionOf(p) : p \in WrapperParts}

Names(f) == IF f = "wrapper" THEN WrapperParts ELSE EntryNames[f]

\* An entry: the field the page replaces, and whether it has fields the pages do not
\* know; for Telegram, whether it has the optional secret of its webhook.
Entry == [secret : Secrets, more : BOOLEAN]
Contents(f) == [Names(f) -> Entry \cup {Absent}]
Disk == {d \in [Files -> (UNION {Contents(f) : f \in Files}) \cup {Broken}] :
             \A f \in Files : d[f] \in Contents(f) \cup {Broken}}

Loads(d) == \A f \in Files : d[f] # Broken

\* The sections a content of wrapper.toml has, in some order without repetition.
Present(content) == {SectionOf(p) : p \in {q \in WrapperParts : content[q] # Absent}}
InFile(o) == {o[i] : i \in 1..Len(o)}
NoneTwice(o) == o \in Seq(SectionNames) /\ \A i, j \in 1..Len(o) : o[i] = o[j] => i = j
OrderFits(o, d) == NoneTwice(o) /\ (d["wrapper"] # Broken => InFile(o) = Present(d["wrapper"]))

ASSUME StoreAssumption ==
    /\ Blank \notin Secrets /\ Absent \notin Secrets /\ Unsure \notin Secrets \cup {Absent}
    /\ Absent \notin Entry
    /\ \A f \in Files : Broken \notin Contents(f)
    /\ Offered \subseteq Secrets
    /\ ByHand \subseteq Entry \cup {Absent}
    /\ \A i \in Installed : i.files \in Disk /\ Loads(i.files) /\ OrderFits(i.order, i.files)
    /\ MaxSaves \in Nat /\ MaxAccidents \in Nat

VARIABLES disk,       \* the files
          order,      \* the sections of wrapper.toml in the order they stand there
          live,       \* WrapperConfig
          told,       \* what the pages last said of each entry, and nobody changed since
          unkept,     \* the entries of which a page said what its save did not do
          clean,      \* whether all files have been loaded since the last accident
          saves, accidents

vars == <<disk, order, live, told, unkept, clean, saves, accidents>>

\* Only two pages say what they do not do: the settings page, and the one for the
\* credentials of a plugin.
MayBeUnkept == {<<"wrapper", p>> : p \in WrapperParts} \cup {<<"plugins", n>> : n \in Names("plugins")}

\* The files, what was loaded of them, and what the pages said.
Typed ==
    /\ disk \in Disk
    /\ live \in Disk /\ Loads(live)
    /\ DOMAIN told = Files
    /\ \A f \in Files : told[f] \in [Names(f) -> Secrets \cup {Absent, Unsure}]
    /\ unkept \subseteq MayBeUnkept
    /\ clean \in BOOLEAN

TypeOK ==
    /\ Typed
    /\ OrderFits(order, disk)
    /\ saves \in 0..MaxSaves /\ accidents \in 0..MaxAccidents

\* What a page shows of an entry.
Shown(entry) == IF entry = Absent THEN Absent ELSE entry.secret

Init ==
    /\ \E i \in Installed : disk = i.files /\ order = i.order
    /\ live = disk
    /\ told = [f \in Files |-> [n \in Names(f) |-> Shown(disk[f][n])]]
    /\ unkept = {}
    /\ clean = TRUE
    /\ saves = 0 /\ accidents = 0

-----------------------------------------------------------------------------
(* Loading *)

\* _hot_reload takes over every entry and, of wrapper.toml, the [dlp] section.
Hot(f, n) == f # "wrapper" \/ n = "dlp"

Reloaded(d) == [f \in Files |-> [n \in Names(f) |-> IF Hot(f, n) THEN d[f][n] ELSE live[f][n]]]

\* (mutant) every file that parses is taken over at once.
ReloadPartly ==
    /\ live' = [f \in Files |-> [n \in Names(f) |->
                   IF Hot(f, n) /\ disk'[f] # Broken THEN disk'[f][n] ELSE live[f][n]]]
    /\ clean' = (clean \/ Loads(disk'))

\* All files are loaded as the save leaves them.  When one of them does not load, the page
\* reports an error and the process goes on with what it had.
Reload ==
    IF Loads(disk')
    THEN live' = Reloaded(disk') /\ clean' = TRUE
    ELSE UNCHANGED <<live, clean>>

\* A save of entry n that is applied at once: the file is written, then all are loaded.
Finish(f, content, n, heard) ==
    /\ disk' = [disk EXCEPT ![f] = content]
    /\ Reload
    /\ told' = [told EXCEPT ![f][n] = IF Loads(disk') THEN heard ELSE Unsure]
    /\ UNCHANGED accidents

Counted == saves < MaxSaves /\ saves' = saves + 1

\* The pages are for those who are logged in, so there is an account.
Saving == live["wrapper"]["admin"] # Absent /\ Counted

-----------------------------------------------------------------------------
(* Files rebuilt from the loaded configuration *)

\* _server_to_dict does not know tool_prefix; the other converters know every field.
Carried(f, entry) ==
    IF f = "servers" /\ entry # Absent THEN [entry EXCEPT !.more = FALSE] ELSE entry

Rebuilt(f) == [n \in Names(f) |-> Carried(f, live[f][n])]

Submitted == Offered \cup {Blank}

\* The edited entry: a blank secret keeps the loaded one.
Edited(f, n, s) ==
    [Carried(f, live[f][n]) EXCEPT !.secret = IF s = Blank THEN @ ELSE s]

\* What the page confirms: after a blank field, what was known before.
Confirmed(f, n, s) == IF s = Blank THEN told[f][n] ELSE s

CreateEntry(f, n) ==
    /\ f \in {"agents", "servers"}
    /\ live[f][n] = Absent
    /\ \E s \in Offered :
           Finish(f, [Rebuilt(f) EXCEPT ![n] = [secret |-> s, more |-> FALSE]], n, s)
    /\ Saving /\ UNCHANGED <<order, unkept>>

EditEntry(f, n) ==
    /\ f \in {"agents", "servers"}
    /\ live[f][n] # Absent
    /\ \E s \in Submitted :
           Finish(f, [Rebuilt(f) EXCEPT ![n] = Edited(f, n, s)], n, Confirmed(f, n, s))
    /\ Saving /\ UNCHANGED <<order, unkept>>

\* Deleting what is not there is no error.
DeleteEntry(f, n) ==
    /\ f \in {"agents", "servers"}
    /\ Finish(f, [Rebuilt(f) EXCEPT ![n] = Absent], n, Absent)
    /\ Saving /\ UNCHANGED <<order, unkept>>

GatewayCredentials(n) ==
    /\ live["gateway"][n] # Absent
    /\ \E s \in Submitted :
           Finish("gateway", [Rebuilt("gateway") EXCEPT ![n] = Edited("gateway", n, s)],
                  n, Confirmed("gateway", n, s))
    /\ Saving /\ UNCHANGED <<order, unkept>>

-----------------------------------------------------------------------------
(* Files amended: read, changed and written back *)

\* (mutant) the file is rebuilt from the loaded configuration.
AmendedFromLive(f) == live[f]

\* What a handler that amends a file starts from.
Amended(f) == disk[f]

\* A plugin that is loaded but no longer in its file: the page says that it has saved the
\* credentials, and nothing is written.
PluginCredentials(n) ==
    /\ live["plugins"][n] # Absent
    /\ disk["plugins"] # Broken
    /\ \E s \in Submitted :
           LET credentials == Edited("plugins", n, s).secret
               file        == Amended("plugins")
           IN  IF file[n] = Absent
               THEN /\ Finish("plugins", file, n, Confirmed("plugins", n, s))
                    /\ unkept' = unkept \cup {<<"plugins", n>>}
               ELSE /\ Finish("plugins", [file EXCEPT ![n].secret = credentials],
                              n, Confirmed("plugins", n, s))
                    /\ unkept' = IF s = Blank THEN unkept ELSE unkept \ {<<"plugins", n>>}
    /\ Saving /\ UNCHANGED order

CreateWorkflow(n) ==
    /\ live["workflows"][n] = Absent
    /\ disk["workflows"] # Broken
    /\ \E s \in Offered :
           Finish("workflows", [Amended("workflows") EXCEPT ![n] = [secret |-> s, more |-> FALSE]], n, s)
    /\ Saving /\ UNCHANGED <<order, unkept>>

\* The text of a workflow is saved to its own file; all configuration files are loaded.
SaveWorkflow(n) ==
    /\ live["workflows"][n] # Absent
    /\ disk' = disk
    /\ Reload
    /\ Saving /\ UNCHANGED <<order, told, unkept, accidents>>

-----------------------------------------------------------------------------
(* wrapper.toml *)

\* (mutant) a section is written at the end even when it stands in the file already.
WithSectionTwice(o, s) == Append(o, s)

\* A section that is replaced keeps its place, a new one comes last.
WithSection(o, s) == IF s \in InFile(o) THEN o ELSE Append(o, s)

\* (mutant) the saved patterns wait for a restart like the other sections.
SaveDlpForRestart ==
    /\ disk["wrapper"] # Broken
    /\ \E s \in Offered :
           /\ disk' = [disk EXCEPT !["wrapper"] =
                          [Amended("wrapper") EXCEPT !["dlp"] = [secret |-> s, more |-> FALSE]]]
           /\ told' = [told EXCEPT !["wrapper"]["dlp"] = s]
    /\ order' = WithSection(order, "dlp")
    /\ unkept' = unkept \ {<<"wrapper", "dlp">>}
    /\ Saving /\ UNCHANGED <<live, clean, accidents>>

\* The switches of the scanner, a pattern saved or one deleted: the section is made from
\* the loaded one and replaced whole.
SaveDlp ==
    /\ disk["wrapper"] # Broken
    /\ \E s \in Offered :
           Finish("wrapper", [Amended("wrapper") EXCEPT !["dlp"] = [secret |-> s, more |-> FALSE]],
                  "dlp", s)
    /\ order' = WithSection(order, "dlp")
    /\ unkept' = unkept \ {<<"wrapper", "dlp">>}
    /\ Saving

\* The first account: written, then taken over without a reload.
Setup ==
    /\ live["wrapper"]["admin"] = Absent
    /\ disk["wrapper"] # Broken
    /\ \E s \in Offered :
           LET account == [secret |-> s, more |-> FALSE]
           IN  /\ disk' = [disk EXCEPT !["wrapper"] = [Amended("wrapper") EXCEPT !["admin"] = account]]
               /\ live' = [live EXCEPT !["wrapper"]["admin"] = account]
               /\ told' = [told EXCEPT !["wrapper"]["admin"] = s]
    /\ order' = WithSection(order, "admin")
    /\ unkept' = unkept \ {<<"wrapper", "admin">>}
    /\ Counted /\ UNCHANGED <<clean, accidents>>

\* What the settings page submits.  Vault, Slack and Telegram are left blank or given.
SettingsForm ==
    {form \in [settings : Offered, vault : Submitted, slack : Submitted,
               telegram : Submitted, hook : BOOLEAN] :
        form.hook => live["wrapper"]["telegram"] # Absent \/ form.telegram # Blank}

SlackGiven(form) == form.slack # Blank
TelegramGiven(form) == form.telegram # Blank \/ form.hook

\* The secrets of Telegram that the section gets; without a webhook secret, the page puts None.
TelegramEntry(form) ==
    LET old == live["wrapper"]["telegram"]
    IN  [secret |-> IF form.telegram = Blank THEN old.secret ELSE form.telegram,
         more   |-> form.hook \/ (old # Absent /\ old.more)]

\* tomli_w cannot write None and raises in the middle of the file.
Unwritable(form) == TelegramGiven(form) /\ ~TelegramEntry(form).more

\* The merged content: the sections that are given replace the file's, [notifications] as one.
WithSettings(form) ==
    LET plain(s) == [secret |-> s, more |-> FALSE]
        notified == SlackGiven(form) \/ TelegramGiven(form)
    IN  [p \in WrapperParts |->
            CASE p = "settings" -> plain(form.settings)
              [] p = "vault" /\ form.vault # Blank -> plain(form.vault)
              [] p = "slack" /\ notified -> IF SlackGiven(form) THEN plain(form.slack) ELSE Absent
              [] p = "telegram" /\ notified -> IF TelegramGiven(form) THEN TelegramEntry(form) ELSE Absent
              [] p = "admin" -> live["wrapper"]["admin"]
              [] OTHER -> Amended("wrapper")[p]]

\* Sections in the order the handler adds them.
OrderWithSettings(form) ==
    LET settings == WithSection(order, "settings")
        vault    == IF form.vault # Blank THEN WithSection(settings, "vault") ELSE settings
        notified == IF SlackGiven(form) \/ TelegramGiven(form)
                    THEN WithSection(vault, "notifications") ELSE vault
    IN  WithSection(notified, "admin")

\* What the page says of the fields: of Vault, "Leave blank to disable Vault"; of the secrets
\* of Slack and Telegram, when the current one is a vault: reference, "Leave blank to keep
\* current".
SettingsConfirmed(form) ==
    [p \in WrapperParts |->
        CASE p = "settings" -> form.settings
          [] p = "vault" -> IF form.vault = Blank THEN Absent ELSE form.vault
          [] p \in {"slack", "telegram"} /\ form[p] # Blank -> form[p]
          [] OTHER -> told["wrapper"][p]]

MayBeBlank == {"vault", "slack", "telegram"}

\* What becomes of blank fields instead: Vault stays in the file; Slack goes when Telegram is
\* given, and Telegram when Slack is; a Telegram of which only the webhook's secret is given
\* gets the token that is loaded, not the one that is in the file.
BlankIgnored(form) ==
    {p \in MayBeBlank :
        /\ form[p] = Blank
        /\ \/ p = "vault" /\ Amended("wrapper")[p] # Absent
           \/ p = "slack" /\ Amended("wrapper")[p] # Absent /\ TelegramGiven(form)
           \/ p = "telegram" /\ (form.hook \/ (Amended("wrapper")[p] # Absent /\ SlackGiven(form)))}

\* What is given is saved as the page says.
UnkeptAfter(form) ==
    (unkept \ {<<"wrapper", p>> : p \in {"settings"} \cup {q \in MayBeBlank : form[q] # Blank}})
    \cup {<<"wrapper", p>> : p \in BlankIgnored(form)}

\* Saved for the next start: nothing is loaded.
SaveSettings ==
    /\ disk["wrapper"] # Broken
    /\ \E form \in SettingsForm :
           /\ ~Unwritable(form)
           /\ disk' = [disk EXCEPT !["wrapper"] = WithSettings(form)]
           /\ told' = [told EXCEPT !["wrapper"] = SettingsConfirmed(form)]
           /\ unkept' = UnkeptAfter(form)
           /\ order' = OrderWithSettings(form)
    /\ Saving /\ UNCHANGED <<live, clean, accidents>>

\* Nothing is known of a file any more.
Forget(f) ==
    /\ told' = [told EXCEPT ![f] = [n \in Names(f) |-> Unsure]]
    /\ unkept' = unkept \ {<<f, n>> : n \in Names(f)}

\* A content of wrapper.toml without the sections that are not in o.
CutBehind(content, o) ==
    [p \in WrapperParts |-> IF SectionOf(p) \in InFile(o) THEN content[p] ELSE Absent]

\* The file ends where the writer raised: in [notifications], behind Telegram's first fields.
\* The page reports an error; of what was said before of wrapper.toml, nothing is kept.
SettingsCut ==
    /\ disk["wrapper"] # Broken
    /\ \E form \in SettingsForm :
           LET all  == OrderWithSettings(form)
               here == CHOOSE i \in 1..Len(all) : all[i] = "notifications"
           IN  /\ Unwritable(form)
               /\ order' = SubSeq(all, 1, here)
               /\ disk' = [disk EXCEPT !["wrapper"] = CutBehind(WithSettings(form), order')]
    /\ unkept' = unkept \cup {<<"wrapper", p>> : p \in WrapperParts}
    /\ clean' = FALSE
    /\ Saving /\ UNCHANGED <<live, told, accidents>>

-----------------------------------------------------------------------------
(* Accidents and restarts *)

Accident == accidents < MaxAccidents /\ accidents' = accidents + 1 /\ clean' = FALSE

\* A section that is taken out by hand.
WithoutSection(o, s) ==
    LET i == CHOOSE i \in 1..Len(o) : o[i] = s
    IN  IF s \in InFile(o) THEN SubSeq(o, 1, i - 1) \o SubSeq(o, i + 1, Len(o)) ELSE o

\* Somebody edits one entry of a file by hand; a new section comes first or last.
HandEdit(f, n) ==
    /\ disk[f] # Broken
    /\ \E entry \in ByHand : disk' = [disk EXCEPT ![f][n] = entry]
    /\ told' = [told EXCEPT ![f][n] = Unsure]
    /\ unkept' = unkept \ {<<f, n>>}
    /\ IF f # "wrapper" THEN UNCHANGED order
       ELSE LET s == SectionOf(n)
            IN  IF s \notin Present(disk'[f]) THEN order' = WithoutSection(order, s)
                ELSE order' = WithSection(order, s) \/ (s \notin InFile(order) /\ order' = <<s>> \o order)
    /\ Accident /\ UNCHANGED <<live, saves>>

\* A mistake in the syntax.
HandBreak(f) ==
    /\ disk[f] # Broken
    /\ disk' = [disk EXCEPT ![f] = Broken]
    /\ Forget(f)
    /\ Accident /\ UNCHANGED <<order, live, saves>>

\* The sections of a content as wrapper.toml.example has them; pages put [admin] last.
ExampleOrder(content) ==
    LET with(o, s) == IF s \in Present(content) THEN WithSection(o, s) ELSE o
    IN  with(with(with(with(with(<<>>, "settings"), "vault"), "dlp"), "notifications"), "admin")

\* A file that does not parse is replaced by what was loaded last.
HandRepair(f) ==
    /\ disk[f] = Broken
    /\ disk' = [disk EXCEPT ![f] = live[f]]
    /\ IF f # "wrapper" THEN UNCHANGED order
       ELSE order' = ExampleOrder(live[f])
    /\ UNCHANGED <<live, told, unkept, clean, saves, accidents>>

\* A save of f fails after the file was emptied.  What has been written of it may parse,
\* without the entries behind it, or not.  After a full disk the process goes on,
\* after a crash it has to be started again.
SaveFails(f) ==
    /\ \/ /\ f \in EntryFiles
          /\ \E base \in {disk[f], live[f]} \ {Broken}, lost \in SUBSET Names(f) \ {{}} :
                 disk' = [disk EXCEPT ![f] = [n \in Names(f) |-> IF n \in lost THEN Absent ELSE base[n]]]
          /\ UNCHANGED order
       \/ /\ f = "wrapper" /\ disk[f] # Broken
          /\ \E k \in 0..Len(order) :
                 /\ order' = SubSeq(order, 1, k)
                 /\ disk' = [disk EXCEPT ![f] = CutBehind(disk[f], order')]
       \/ disk' = [disk EXCEPT ![f] = Broken] /\ UNCHANGED order
    /\ Forget(f)
    /\ Accident /\ UNCHANGED <<live, saves>>

\* load_config reads everything or raises, and then the process does not start: what is
\* done to the files until it does comes before this step.
Restart ==
    /\ Loads(disk)
    /\ live' = disk
    /\ clean' = TRUE
    /\ UNCHANGED <<disk, order, told, unkept, saves, accidents>>

Entries(f) == \E n \in EntryNames[f] : CreateEntry(f, n) \/ EditEntry(f, n) \/ DeleteEntry(f, n)

Next ==
    \/ Entries("agents") \/ Entries("servers")
    \/ \E n \in EntryNames["gateway"] : GatewayCredentials(n)
    \/ \E n \in EntryNames["plugins"] : PluginCredentials(n)
    \/ \E n \in EntryNames["workflows"] : CreateWorkflow(n) \/ SaveWorkflow(n)
    \/ SaveDlp \/ Setup \/ SaveSettings \/ SettingsCut
    \/ \E f \in Files : HandBreak(f) \/ HandRepair(f) \/ SaveFails(f) \/ \E n \in Names(f) : HandEdit(f, n)
    \/ Restart

Spec == Init /\ [][Next]_vars
-----------------------------------------------------------------------------
(* Properties *)

\* What a page has said of an entry, and its save has done.
Claimed(f, n) == told[f][n] # Unsure /\ <<f, n>> \notin unkept

\* What a page has said of an entry stays in the file, and in force where the page applied
\* it, whatever is saved, broken or restarted elsewhere, until somebody changes that entry or
\* its file is damaged by hand or by a write that fails.  Excepted are the entries of which
\* the page's own save does something else than it says: Vault left blank, which stays
\* although settings.html:79 says that this disables it; Slack or Telegram left blank when the
\* other is given, which goes although settings.html:162 and :209 say that this keeps it; a
\* plugin that is no longer in its file; and all of wrapper.toml after a save of the settings
\* that cut it (SettingsKeepAccount).
KeptAsTold ==
    \A f \in Files : \A n \in Names(f) : Claimed(f, n) =>
        /\ disk[f] # Broken
        /\ Shown(disk[f][n]) = told[f][n]
        /\ Hot(f, n) \/ n = "admin" => Shown(live[f][n]) = told[f][n]

\* As long as nobody touched the files and no write failed, a restart would change nothing
\* of what is applied at once: the process runs on what the files say.
InStep ==
    clean => /\ Loads(disk)
             /\ \A f \in Files : \A n \in Names(f) : Hot(f, n) => live[f][n] = disk[f][n]

\* What is in force changes to one whole reading of the files, never to a part of one.
ReloadIsWhole ==
    [][\A f \in Files : \A n \in Names(f) : Hot(f, n) /\ live'[f][n] # live[f][n] =>
           /\ Loads(disk')
           /\ \A g \in Files : \A m \in Names(g) : Hot(g, m) => live'[g][m] = disk'[g][m]]_vars

\* config_writer.py:43 "Merge updates into wrapper.toml and always preserve the [admin]
\* section."  So saving the settings must leave the account in the file.
SettingsKeepAccount ==
    [][(SaveSettings \/ SettingsCut) /\ disk["wrapper"]["admin"] # Absent
       => disk'["wrapper"]["admin"] # Absent]_vars
=============================================================================
