-------------------------- MODULE InstallerWizard --------------------------
(***************************************************************************)
(* installer_ui_collect_config (tools/installer/ui.c): the screens that    *)
(* fill an InstallerConfig before anything is written to a disk.           *)
(*                                                                         *)
(* The user answers or presses Esc on every screen, may walk back and      *)
(* forth and change earlier answers; devices come and go between screens.  *)
(* A text is abstracted to what the code tells apart: empty, rejected or   *)
(* accepted user names; empty passwords and others. The boot mode, the     *)
(* ACPI mode and the partition size are read by no screen but the summary: *)
(* their screens are steps here, their values are not kept.                *)
(***************************************************************************)
EXTENDS InstallerDevices, Integers, FiniteSets, Functions

CONSTANTS
    Stale,      \* an entry of the device arrays no scan has filled
    MaxScan     \* size of the device arrays (32)

ASSUME WizardAssumption ==
    /\ IsFiniteSet(Disks) /\ IsFiniteSet(Optical)
    /\ None \notin Devices /\ Stale \notin Devices
    /\ MaxScan \in Nat

STEP_WELCOME  == 0
STEP_ACTION   == 1
STEP_MEDIA    == 2
STEP_DISK     == 3
STEP_BOOT     == 4
STEP_ACPI     == 5
STEP_PARTSIZE == 6
STEP_HOSTNAME == 7
STEP_USER     == 8
STEP_USERPASS == 9
STEP_ROOTPASS == 10
STEP_CONFIRM  == 11
STEP_SUMMARY  == 12

Actions == {"INSTALL", "FORMAT_ONLY", "UPDATE"}

Passwords == {"empty", "set"}

UserNames == {"empty", "rejected", "accepted"}

VARIABLES
    step,               \* the screen shown
    outcome,            \* "collecting", or what the function returned
    action,             \* InstallerConfig
    install_media,
    disk,
    hostname,
    username,
    password,
    root_password,
    media_selected,     \* cursor remembered for the media menu
    disk_selected,      \* cursor remembered for the disk menu
    plugged,            \* devices below /sys/block now
    leaving,            \* the user has decided to press Esc from now on
    confirmed           \* history: the last accepted phrase

devs  == <<install_media, disk, media_selected, disk_selected>>
texts == <<hostname, username, password, root_password>>
wizard_vars == <<step, outcome, action, devs, texts, plugged, leaving, confirmed>>

WizardTypeOK ==
    /\ step \in STEP_WELCOME..STEP_SUMMARY
    /\ outcome \in {"collecting", "left", "started"}
    /\ action \in Actions
    /\ install_media \in Devices \cup {None}
    /\ disk \in Disks \cup {None}
    /\ hostname \in {"empty", "named"}
    /\ username \in UserNames
    /\ password \in Passwords
    /\ root_password \in Passwords
    /\ media_selected \in Nat
    /\ disk_selected \in Nat
    /\ plugged \subseteq Devices
    /\ leaving \in BOOLEAN
    /\ confirmed \in ({"ERASE", "UPDATE"} \X Disks) \cup {<<>>}

-----------------------------------------------------------------------------
(* Moving between the screens.                                             *)

\* Faulty variant of previous_step_for_config: the shortcut between the boot
\* and the confirmation screen is taken in both directions.
PreviousOfUpdate(s) ==
    CASE s = STEP_CONFIRM /\ action = "UPDATE" -> STEP_BOOT
      [] s = STEP_BOOT /\ action = "UPDATE" -> STEP_CONFIRM
      [] OTHER -> s - 1

\* Faulty variant of next_step_for_config: an update is taken for harmless and
\* skips the confirmation.
NextOfUpdate(s) ==
    CASE s = STEP_BOOT /\ action = "UPDATE" -> STEP_SUMMARY
      [] s = STEP_BOOT /\ action = "FORMAT_ONLY" -> STEP_PARTSIZE
      [] s = STEP_PARTSIZE /\ action = "FORMAT_ONLY" -> STEP_CONFIRM
      [] OTHER -> s + 1

next_step(s) == IF s = STEP_SUMMARY THEN STEP_SUMMARY ELSE s + 1

previous_step(s) == IF s = STEP_WELCOME THEN STEP_WELCOME ELSE s - 1

next_step_for_config(s) ==
    CASE s = STEP_BOOT /\ action = "UPDATE" -> STEP_CONFIRM
      [] s = STEP_BOOT /\ action = "FORMAT_ONLY" -> STEP_PARTSIZE
      [] s = STEP_PARTSIZE /\ action = "FORMAT_ONLY" -> STEP_CONFIRM
      [] OTHER -> next_step(s)

previous_step_for_config(s) ==
    CASE s = STEP_CONFIRM /\ action = "UPDATE" -> STEP_BOOT
      [] s = STEP_CONFIRM /\ action = "FORMAT_ONLY" -> STEP_PARTSIZE
      [] s = STEP_PARTSIZE /\ action = "FORMAT_ONLY" -> STEP_BOOT
      [] OTHER -> previous_step(s)

\* Screen s is shown; Enter needs a user who has not decided to leave.
On(s)    == outcome = "collecting" /\ step = s
Enter(s) == On(s) /\ ~leaving

Forward == step' = next_step_for_config(step)
Back    == step' = previous_step_for_config(step)

-----------------------------------------------------------------------------
(* The menus.                                                              *)

\* What scan_block_devices finds: devices of a kind, MaxScan at the most. A
\* /sys/block that cannot be read is a machine with nothing plugged in.
Found(kind) ==
    {s \in SUBSET (plugged \cap kind) :
        \/ s = plugged \cap kind /\ Cardinality(s) <= MaxScan
        \/ Cardinality(s) = MaxScan}

\* A scan as an array with a number of entries; the order of readdir is arbitrary.
Listings(s, count) == Bijection(1..count, s)

\* The indices menu_box can return for Enter, from a remembered cursor.
menu_box(count, selected) ==
    0..(IF selected < count THEN count - 1 ELSE selected)

\* Faulty variant of Cursor: a cursor beyond the new list is kept.
CursorKept(selected, count) == selected

\* if ((size_t)media_selected >= media_count) media_selected = 0;
Cursor(selected, count) == IF selected >= count THEN 0 ELSE selected

Entry(listing, count, i) == IF i < count THEN listing[i + 1] ELSE Stale

SelectMedia ==
    /\ Enter(STEP_MEDIA)
    /\ \E s \in Found(Devices), count \in 1..MaxScan :
       \E listing \in Listings(s, count),
          i \in menu_box(count, Cursor(media_selected, count)) :
            /\ media_selected' = i
            /\ install_media' = Entry(listing, count, i)
    /\ IF disk = install_media' THEN disk' = None /\ disk_selected' = 0
                                ELSE UNCHANGED <<disk, disk_selected>>
    /\ Forward
    /\ UNCHANGED <<outcome, action, texts, plugged, leaving, confirmed>>

\* Faulty variant of Targets: the installation media is offered as well.
TargetsWithMedia(s) == s

\* installer_target_disk_available
Targets(s) == s \ {install_media}

Offered == {Targets(t) : t \in Found(Disks)}

SelectDisk ==
    /\ Enter(STEP_DISK)
    /\ \E s \in Offered, count \in 1..MaxScan :
       \E listing \in Listings(s, count),
          i \in menu_box(count, Cursor(disk_selected, count)) :
            /\ disk_selected' = i
            /\ disk' = Entry(listing, count, i)
    /\ Forward
    /\ UNCHANGED <<outcome, action, install_media, media_selected, texts,
                   plugged, leaving, confirmed>>

\* No media, or no target disk: a message, then the previous screen.
NothingFound ==
    /\ \/ On(STEP_MEDIA) /\ {} \in Found(Devices)
       \/ On(STEP_DISK) /\ {} \in Offered
    /\ Back
    /\ UNCHANGED <<outcome, action, devs, texts, plugged, leaving, confirmed>>

SelectAction ==
    /\ Enter(STEP_ACTION)
    /\ action' \in Actions
    /\ Forward
    /\ UNCHANGED <<outcome, devs, texts, plugged, leaving, confirmed>>

\* The boot mode, ACPI mode and partition size screens accept any answer.
AnswerMode ==
    /\ \E s \in {STEP_BOOT, STEP_ACPI, STEP_PARTSIZE} : Enter(s)
    /\ Forward
    /\ UNCHANGED <<outcome, action, devs, texts, plugged, leaving, confirmed>>

-----------------------------------------------------------------------------
(* The text screens. input_box edits its buffer in place, so that a screen *)
(* left with Esc keeps what was typed.                                     *)

\* An empty host name is replaced by the default.
EnterHostname ==
    /\ Enter(STEP_HOSTNAME)
    /\ hostname' = "named"
    /\ Forward
    /\ UNCHANGED <<outcome, action, devs, username, password, root_password,
                   plugged, leaving, confirmed>>

\* Faulty variant of installer_valid_username: only emptiness is tested.
NotEmpty(name) == name # "empty"

installer_valid_username(name) == name = "accepted"

\* A name that is not valid keeps the screen.
EnterUser ==
    /\ Enter(STEP_USER)
    /\ username' \in UserNames
    /\ IF installer_valid_username(username') THEN Forward ELSE UNCHANGED step
    /\ UNCHANGED <<outcome, action, devs, hostname, password, root_password,
                   plugged, leaving, confirmed>>

\* What password_pair_box returns with 1: non-empty and typed twice. A pair it
\* rejects is asked for again, on the same screen.
password_pair_box == Passwords \ {"empty"}

EnterUserPassword ==
    /\ Enter(STEP_USERPASS)
    /\ password' \in password_pair_box
    /\ Forward
    /\ UNCHANGED <<outcome, action, devs, hostname, username, root_password,
                   plugged, leaving, confirmed>>

EnterRootPassword ==
    /\ Enter(STEP_ROOTPASS)
    /\ root_password' \in password_pair_box
    /\ Forward
    /\ UNCHANGED <<outcome, action, devs, hostname, username, password,
                   plugged, leaving, confirmed>>

-----------------------------------------------------------------------------
(* Confirmation, summary, Esc.                                             *)

EnterWelcome ==
    /\ Enter(STEP_WELCOME)
    /\ Forward
    /\ UNCHANGED <<outcome, action, devs, texts, plugged, leaving, confirmed>>

\* The phrase confirm_phrase_box asks for: a word and the disk.
Phrase == <<IF action = "UPDATE" THEN "UPDATE" ELSE "ERASE", disk>>

\* Other texts are rejected and asked for again; ERASE needs a disk
\* (installer_confirmation_phrase_matches).
EnterConfirm ==
    /\ Enter(STEP_CONFIRM)
    /\ action # "UPDATE" => disk # None
    /\ confirmed' = Phrase
    /\ Forward
    /\ UNCHANGED <<outcome, action, devs, texts, plugged, leaving>>

EnterSummary ==
    /\ Enter(STEP_SUMMARY)
    /\ outcome' = "started"
    /\ UNCHANGED <<step, action, devs, texts, plugged, leaving, confirmed>>

\* The cursors a menu over a non-empty scan can start from.
Cursors(selected, lists) ==
    {Cursor(selected, Cardinality(s)) : s \in lists \ {{}}}

\* What Esc may leave in a variable that screen s changes before it returns:
\* the text typed so far (password_pair_box clears it first), or the cursor
\* after the clamping.
Typed(s, value, values) == IF step = s THEN values ELSE {value}

Esc ==
    /\ outcome = "collecting"
    /\ step # STEP_WELCOME
    /\ hostname' \in Typed(STEP_HOSTNAME, hostname, {"empty", "named"})
    /\ username' \in Typed(STEP_USER, username, UserNames)
    /\ password' \in Typed(STEP_USERPASS, password, Passwords)
    /\ root_password' \in Typed(STEP_ROOTPASS, root_password, Passwords)
    /\ media_selected' \in
            Typed(STEP_MEDIA, media_selected, Cursors(media_selected, Found(Devices)))
    /\ disk_selected' \in
            Typed(STEP_DISK, disk_selected, Cursors(disk_selected, Offered))
    /\ Back
    /\ UNCHANGED <<outcome, action, install_media, disk, plugged, leaving,
                   confirmed>>

EscWelcome ==
    /\ On(STEP_WELCOME)
    /\ outcome' = "left"
    /\ UNCHANGED <<step, action, devs, texts, plugged, leaving, confirmed>>

\* Devices are plugged in or removed between two screens.
Hotplug ==
    /\ outcome = "collecting" /\ ~leaving
    /\ plugged' \in SUBSET Devices
    /\ UNCHANGED <<step, outcome, action, devs, texts, leaving, confirmed>>

\* From now on the user only presses Esc.
Decide ==
    /\ outcome = "collecting" /\ ~leaving
    /\ leaving' = TRUE
    /\ UNCHANGED <<step, outcome, action, devs, texts, plugged, confirmed>>

Returned == outcome # "collecting" /\ UNCHANGED wizard_vars

WizardInit ==
    /\ step = STEP_WELCOME
    /\ outcome = "collecting"
    /\ action = "INSTALL"
    /\ install_media = None
    /\ disk = None
    /\ hostname = "named"
    /\ username = "empty"
    /\ password = "empty"
    /\ root_password = "empty"
    /\ media_selected = 0
    /\ disk_selected = 0
    /\ plugged \in SUBSET Devices
    /\ leaving = FALSE
    /\ confirmed = <<>>

WizardNext ==
    \/ EnterWelcome \/ SelectAction \/ SelectMedia \/ SelectDisk \/ NothingFound
    \/ AnswerMode \/ EnterHostname \/ EnterUser \/ EnterUserPassword
    \/ EnterRootPassword \/ EnterConfirm \/ EnterSummary
    \/ Esc \/ EscWelcome \/ Hotplug \/ Decide \/ Returned

WizardSpec == WizardInit /\ [][WizardNext]_wizard_vars

\* The screens answer the keys of a user who has decided to leave.
WizardFairSpec == WizardSpec /\ WF_wizard_vars(leaving /\ (Esc \/ EscWelcome \/ NothingFound))

-----------------------------------------------------------------------------
(* Properties.                                                             *)

\* From the boot screen on, and when the installation starts, both devices are
\* chosen and the disk to erase is not the media, however often the user went
\* back and changed either ("Target disks ... do not include the selected
\* installation media", design of the media selection).
TargetIsNotMedia ==
    step >= STEP_BOOT =>
        /\ install_media # None /\ disk # None
        /\ disk # install_media

\* Nothing starts unless the last phrase the user typed named what is now
\* done, erasing or updating, and the very disk it is done to (confirm_phrase_box).
StartConfirmed ==
    step = STEP_SUMMARY => confirmed = Phrase

\* A started installation has a valid user, both passwords and a host name,
\* although Esc leaves half-typed texts behind on every screen.
AccountsReady ==
    step >= STEP_CONFIRM /\ action = "INSTALL" =>
        /\ username = "accepted"
        /\ password # "empty" /\ root_password # "empty"
        /\ hostname # "empty"

\* Back navigation always reaches the exit: no pair of shortcuts for the short
\* actions makes a cycle.
EscLeaves == leaving ~> outcome # "collecting"
=============================================================================
