------------------------------ MODULE Profiles ------------------------------
(***************************************************************************)
(* The recording profiles of Blip Capture (profiles.rs, and the settings   *)
(* window and the import of main.rs): the file they are kept in, the copy  *)
(* of the open toolbar, the copy that the settings window edits, and the   *)
(* imports that a link of the server starts at any time.                   *)
(*                                                                         *)
(* A text that names a destination is its base and its access token; texts *)
(* that no URL parser takes (folders, words, nothing) have no token.  The  *)
(* name of a profile is whether it has one.                                *)
(***************************************************************************)
EXTENDS Integers, SequencesExt

CONSTANTS
    Servers,            \* bases of https URLs
    Tokens,
    MaxDefaults,        \* bound: how many of the four default profiles there are
    MaxProfiles,        \* bound: profiles made
    MaxEdits,           \* bound: changes to the texts, side or format of a profile
    MaxLinks,           \* bound: links in one import
    MaxFaults           \* bound: saves that fail

ProfilesAssumption ==
    /\ Servers # {}
    /\ MaxDefaults \in 1..4
    /\ {MaxProfiles, MaxEdits, MaxLinks, MaxFaults} \subseteq Nat /\ MaxDefaults <= MaxProfiles

VARIABLES
    disk,               \* recording-profiles.json
    app,                \* the toolbar and its profiles
    menu,               \* the ids of the profiles that the open destination menu names
    settings,           \* the ProfileSettings window
    made,               \* how many profiles have been made: the next id
    edits, faults

vars == <<disk, app, menu, settings, made, edits, faults>>

NoToken == "none"
Bases == Servers \cup {"http", "words", "empty"}
Parses(base) == base \in Servers \cup {"http"}
Texts == [base : Bases, token : Tokens \cup {NoToken}]
PlainTexts == {t \in Texts : Parses(t.base) \/ t.token = NoToken}
Text(base) == [base |-> base, token |-> NoToken]
Desktop == Text("words")
OwnServer == CHOOSE s \in Servers : TRUE

Profile(id, remote, text) ==
    [id |-> id, named |-> TRUE, remote |-> remote, text |-> text, format |-> "mp4"]

Ids(list) == {list.profiles[i].id : i \in DOMAIN list.profiles}
Default == [profiles |-> [i \in 1..MaxDefaults |-> Profile(i, FALSE, Desktop)], selected |-> 1]
\* No file, a file that does not parse and a file with no profiles are read alike.
Unreadable == [profiles |-> <<>>, selected |-> 0]
Readable == disk # Unreadable

\* The inputs of the settings window; 'of' is the profile they were loaded from.
NoInputs == [named |-> FALSE, text |-> Text("empty"), token |-> NoToken, of |-> 0]
\* 'mine': the toolbar that is open is the window's controller.
NoSettings == [open |-> FALSE, mine |-> FALSE, list |-> Default, index |-> 1, inputs |-> NoInputs,
               error |-> "none"]
\* 'stale': the settings window of an earlier toolbar has saved behind this one.
NoToolbar == [open |-> FALSE, list |-> Default, stale |-> FALSE]

Profs == [id : 1..MaxProfiles, named : BOOLEAN, remote : BOOLEAN, text : PlainTexts,
          format : {"mp4", "hls", "bundle"}]
Lists == [profiles : Seq(Profs), selected : 1..MaxProfiles]
InputTexts == [named : BOOLEAN, text : PlainTexts, token : Tokens \cup {NoToken}, of : 0..MaxProfiles]

TypeOK ==
    /\ disk \in Lists \cup {Unreadable}
    /\ app \in [open : BOOLEAN, list : Lists, stale : BOOLEAN]
    /\ menu \in Seq(1..MaxProfiles)
    /\ settings \in [open : BOOLEAN, mine : BOOLEAN, list : Lists, index : Nat, inputs : InputTexts,
                     error : {"none", "last", "refused"}]
    /\ settings.index \in DOMAIN settings.list.profiles
    /\ made \in MaxDefaults..MaxProfiles /\ edits \in 0..MaxEdits /\ faults \in 0..MaxFaults

Init ==
    /\ disk \in {Unreadable, Default} /\ app = NoToolbar /\ menu = <<>> /\ settings = NoSettings
    /\ made = MaxDefaults /\ edits = 0 /\ faults = 0

(* profiles.rs *)

split_server_url(text) == [base |-> text.base, token |-> text.token]

\* The fragment of the URL is replaced; what does not parse is put together as words.
join_server_url(text, token) ==
    IF Parses(text.base) THEN [base |-> text.base, token |-> token] ELSE Text("words")

validate(p) ==
    /\ p.named
    /\ IF p.remote
       THEN p.format # "bundle" /\ p.text.base \in Servers /\ p.text.token # NoToken
       ELSE p.format # "hls" /\ p.text.base # "empty"

load(file) ==
    IF file = Unreadable THEN Default
    ELSE IF file.selected \in Ids(file) THEN file
    ELSE [file EXCEPT !.selected = file.profiles[1].id]

\* fs::write empties the file before it writes it: a failure may leave it either way.
save(list, ok) ==
    IF ok THEN disk' = list /\ UNCHANGED faults
    ELSE /\ faults < MaxFaults /\ faults' = faults + 1
         /\ disk' \in {disk, Unreadable}

SameServer(list, text) ==
    {i \in DOMAIN list.profiles : list.profiles[i].remote /\ list.profiles[i].text.base = text.base}

\* A link to a server that has a profile replaces that profile's URL, unchecked.
import_url(state, text) ==
    LET list == state.list
        same == SameServer(list, text)
        first == CHOOSE i \in same : \A j \in same : i <= j
        new == Profile(state.made + 1, TRUE, text)
    IN  IF ~state.ok THEN state
        ELSE IF same # {}
        THEN [state EXCEPT !.list.profiles[first].text = text,
                           !.list.selected = list.profiles[first].id]
        ELSE IF ~validate(new) THEN [state EXCEPT !.ok = FALSE]
        ELSE [ok |-> TRUE, made |-> new.id,
              list |-> [profiles |-> Append(list.profiles, new), selected |-> new.id]]

(* The toolbar *)

open_capture ==
    /\ ~app.open
    /\ app' = [open |-> TRUE, list |-> load(disk), stale |-> FALSE]
    /\ UNCHANGED <<disk, menu, settings, made, edits, faults>>

\* The toolbar may be closed behind its settings window, which keeps the controller.
close_windows ==
    /\ app.open
    /\ app' = NoToolbar
    /\ menu' = <<>>
    /\ settings' = [settings EXCEPT !.mine = FALSE]
    /\ UNCHANGED <<disk, made, edits, faults>>

ToolbarShown == app.open /\ ~settings.mine

show_destination_menu ==
    /\ ToolbarShown /\ menu = <<>>
    /\ menu' = [i \in DOMAIN app.list.profiles |-> app.list.profiles[i].id]
    /\ UNCHANGED <<disk, app, settings, made, edits, faults>>

DismissMenu ==
    /\ menu # <<>>
    /\ menu' = <<>>
    /\ UNCHANGED <<disk, app, settings, made, edits, faults>>

\* The entry sends its index; the profile is looked up when that arrives.
SelectProfile(i, ok) ==
    /\ i \in DOMAIN menu
    /\ menu' = <<>>
    /\ IF i \in DOMAIN app.list.profiles
       THEN LET list == [app.list EXCEPT !.selected = app.list.profiles[i].id]
            IN  app' = [app EXCEPT !.list = list] /\ save(list, ok)
       ELSE ok /\ UNCHANGED <<disk, app, faults>>
    /\ UNCHANGED <<settings, made, edits>>

\* The links of a list are imported in order.
Imported(links) ==
    LET state[n \in 0 .. Len(links)] ==
            IF n = 0 THEN [ok |-> TRUE, list |-> load(disk), made |-> made]
            ELSE import_url(state[n - 1], links[n])
    IN  state[Len(links)]

\* Mutant: the toolbar keeps its copy.
import_profile_urls_Behind ==
    \E n \in 1..MaxLinks : \E links \in [1..n -> PlainTexts], ok \in BOOLEAN :
        LET result == Imported(links)
        IN
        /\ made + MaxLinks <= MaxProfiles
        /\ IF result.ok THEN save(result.list, ok) ELSE ok /\ UNCHANGED <<disk, faults>>
        /\ app' = app
        /\ made' = result.made
        /\ UNCHANGED <<menu, settings, edits>>

\* A link that is refused undoes them all.
import_profile_urls ==
    \E n \in 1..MaxLinks : \E links \in [1..n -> PlainTexts], ok \in BOOLEAN :
        LET result == Imported(links)
        IN
        /\ made + MaxLinks <= MaxProfiles
        /\ IF result.ok THEN save(result.list, ok) ELSE ok /\ UNCHANGED <<disk, faults>>
        /\ app' = IF app.open /\ result.ok /\ ok THEN [app EXCEPT !.list = result.list] ELSE app
        /\ made' = result.made
        /\ UNCHANGED <<menu, settings, edits>>

(* The settings window *)

Inputs(p) ==
    LET url == split_server_url(p.text)
    IN  [named |-> p.named, of |-> p.id,
         text |-> IF p.remote THEN Text(url.base) ELSE p.text,
         token |-> IF p.remote THEN url.token ELSE NoToken]

\* The inputs show the profile at 'index' of 'list'.
load_inputs(s) == [s EXCEPT !.inputs = Inputs(s.list.profiles[s.index]), !.error = "none"]

\* What commit_inputs makes of the settings window s.
commit_inputs(s) ==
    LET p == s.list.profiles[s.index]
    IN  [s EXCEPT !.list.profiles[s.index] =
            [p EXCEPT !.named = s.inputs.named,
                      !.text = IF p.remote THEN join_server_url(s.inputs.text, s.inputs.token)
                               ELSE s.inputs.text]]

Committed == commit_inputs(settings)
Refused == [Committed EXCEPT !.error = "refused"]
SettingsOnly == settings.open /\ UNCHANGED <<disk, app, menu, edits, faults>>
SettingsEdit == /\ settings.open /\ edits < MaxEdits /\ edits' = edits + 1
                /\ UNCHANGED <<disk, app, menu, made, faults>>

\* OpenSettings, an entry of the destination menu.
open_profile_settings ==
    /\ menu # <<>> /\ menu' = <<>>
    /\ ~settings.open                       \* bound: one settings window
    /\ settings' = load_inputs([open |-> TRUE, mine |-> TRUE, list |-> app.list, inputs |-> NoInputs,
                                error |-> "none",
                                index |-> CHOOSE i \in DOMAIN app.list.profiles :
                                              app.list.profiles[i].id = app.list.selected])
    /\ UNCHANGED <<disk, app, made, edits, faults>>

CloseSettings ==
    /\ SettingsOnly /\ settings' = NoSettings /\ UNCHANGED made

TypeText ==
    /\ SettingsEdit
    /\ \/ settings' = [settings EXCEPT !.inputs.named = ~@]
       \/ \E text \in PlainTexts : settings' = [settings EXCEPT !.inputs.text = text]
       \/ \E token \in Tokens : settings' = [settings EXCEPT !.inputs.token = token]

select(i) ==
    /\ SettingsOnly /\ i \in DOMAIN settings.list.profiles
    /\ settings' = load_inputs([Committed EXCEPT !.index = i])
    /\ UNCHANGED made

Pushed(s, p) == load_inputs([s EXCEPT !.list.profiles = Append(@, p),
                                      !.index = Len(s.list.profiles) + 1])

add ==
    /\ SettingsOnly /\ made < MaxProfiles
    /\ settings' = Pushed(Committed, Profile(made + 1, FALSE, Desktop))
    /\ made' = made + 1

duplicate ==
    /\ SettingsOnly /\ made < MaxProfiles
    /\ settings' = Pushed(Committed, [Committed.list.profiles[settings.index] EXCEPT !.id = made + 1,
                                                                                   !.named = TRUE])
    /\ made' = made + 1

\* Mutant: the inputs are those of the deleted profile.
delete_Inputs ==
    LET list == settings.list
        rest == RemoveAt(list.profiles, settings.index)
    IN
    /\ SettingsOnly /\ Len(list.profiles) > 1
    /\ settings' = [settings EXCEPT
                        !.index = IF @ > Len(rest) THEN Len(rest) ELSE @,
                        !.list = [profiles |-> rest,
                                  selected |-> IF list.selected = list.profiles[settings.index].id
                                               THEN rest[1].id ELSE list.selected]]
    /\ UNCHANGED made

DeleteLast ==
    /\ SettingsOnly /\ Len(settings.list.profiles) = 1
    /\ settings' = [settings EXCEPT !.error = "last"]
    /\ UNCHANGED made

\* What was typed for the deleted profile is dropped.
delete ==
    LET list == settings.list
        rest == RemoveAt(list.profiles, settings.index)
    IN
    /\ SettingsOnly /\ Len(list.profiles) > 1
    /\ settings' = load_inputs([settings EXCEPT
                        !.index = IF @ > Len(rest) THEN Len(rest) ELSE @,
                        !.list = [profiles |-> rest,
                                  selected |-> IF list.selected = list.profiles[settings.index].id
                                               THEN rest[1].id ELSE list.selected]])
    /\ UNCHANGED made

\* A profile that changes sides starts from that side's defaults.
set_remote(remote) ==
    LET p == Committed.list.profiles[settings.index]
        text == IF remote THEN Text(OwnServer) ELSE Desktop
    IN
    /\ SettingsEdit
    /\ settings' = load_inputs(
          IF p.remote = remote THEN Committed
          ELSE [Committed EXCEPT !.list.profiles[settings.index] =
                   [p EXCEPT !.remote = remote, !.text = text, !.format = "mp4"]])

\* The window offers the formats of the profile's side.
set_format(format) ==
    LET p == settings.list.profiles[settings.index]
    IN
    /\ SettingsEdit
    /\ format \in IF p.remote THEN {"hls", "mp4"} ELSE {"mp4", "bundle"}
    /\ settings' = [settings EXCEPT !.list.profiles[settings.index].format = format]

\* ProfileSettings::save: every profile must be valid; the profiles go to the file and
\* to the controller, which may be that of a toolbar that is closed.
SaveProfiles(ok) ==
    LET list == Committed.list
    IN
    /\ settings.open
    /\ IF \E i \in DOMAIN list.profiles : ~validate(list.profiles[i])
       THEN ok /\ settings' = Refused /\ UNCHANGED <<disk, app, faults>>
       ELSE /\ save(list, ok)
            /\ settings' = IF ok THEN NoSettings ELSE Refused
            /\ app' = IF ok /\ settings.mine THEN [app EXCEPT !.list = list]
                      ELSE IF ok /\ app.open THEN [app EXCEPT !.stale = TRUE]
                      ELSE app
    /\ UNCHANGED <<menu, made, edits>>

Next ==
    \/ open_capture \/ close_windows
    \/ show_destination_menu \/ DismissMenu
    \/ \E i \in 1..MaxProfiles, ok \in BOOLEAN : SelectProfile(i, ok)
    \/ import_profile_urls
    \/ open_profile_settings \/ CloseSettings \/ TypeText
    \/ \E i \in 1..MaxProfiles : select(i)
    \/ add \/ duplicate \/ delete \/ DeleteLast
    \/ \E remote \in BOOLEAN : set_remote(remote)
    \/ \E format \in {"mp4", "hls", "bundle"} : set_format(format)
    \/ \E ok \in BOOLEAN : SaveProfiles(ok)

Spec == Init /\ [][Next]_vars

(* Properties *)

HasSelected(list) == list.selected \in Ids(list)

\* Every copy of the profiles has a profile and its selected profile is one of them,
\* whatever was deleted, imported or unreadable (ProfileSettings::delete, load).
SelectedExists ==
    /\ Readable => HasSelected(disk)
    /\ app.open => HasSelected(app.list)
    /\ settings.open => HasSelected(settings.list)

\* The texts of the settings window are those of the profile it would write them to:
\* what is typed for one profile never becomes the name or the server of another.
InputsBelongToProfile ==
    settings.open => settings.inputs.of = settings.list.profiles[settings.index].id

\* What is saved can be recorded with but for a token: the format fits the side, the
\* name and the folder are there, the server is an https URL.  (A link without a token
\* may replace the URL of a profile; record() refuses that profile.)
SavedIsRecordable ==
    Readable => \A i \in DOMAIN disk.profiles :
                    LET p == disk.profiles[i]
                    IN  validate(p) \/ (p.remote /\ validate([p EXCEPT !.text.token = "any"]))

\* Choosing a profile or importing one never takes another out of the file: only a save
\* of the settings window does, or a choice in a toolbar behind which the settings of an
\* earlier toolbar were saved.  (While no save has failed.)
OnlySettingsRemove ==
    [][ (Readable /\ Readable' /\ faults' = 0 /\ ~app.stale
            /\ ~(settings.open /\ ~settings'.open))
        => Ids(disk) \subseteq Ids(disk') ]_vars

\* The profile that becomes selected is the one that the menu named, whatever was
\* imported while the menu was open.  (While no save has failed and no settings were
\* saved behind the toolbar: an import then replaces its profiles by others.)
PickIsNamed ==
    [][ \A i \in DOMAIN menu, ok \in BOOLEAN :
          (SelectProfile(i, ok) /\ faults = 0 /\ ~app.stale) => app'.list.selected = menu[i] ]_vars
=============================================================================
