------------------------------ MODULE UpFlags ------------------------------
(***************************************************************************)
(* What minitail makes of minitail.conf: ParseFile, which sorts its lines  *)
(* into the two sections; setArgs, which turns the [up] flags into those   *)
(* for `tailscale set`; Redact, for the log; and AdvertisedRoutes, the one *)
(* thing minitail reads out of the flags.  They are compared with what the *)
(* user wrote, a list of settings, each a flag with or without a value, in *)
(* any of the spellings that Tailscale's flag parser takes.                *)
(*                                                                         *)
(* Text is not modelled: a value is the set of its comma-separated items,  *)
(* a line is a section header or an argument, comments and blank lines are *)
(* gone.  Settings are ones `tailscale` accepts; a value that is a line of *)
(* its own does not start with a dash.                                     *)
(***************************************************************************)
EXTENDS Naturals, Sequences, SequencesExt

CONSTANTS
    Accepts,        \* for each flag name, the values the commands take; None: no value
    upOnlyFlags, secretFlags, managedFlags,     \* names
    CIDRs,       \* the items that are CIDR prefixes
    None,
    MaxEntries      \* bound: length of a file, in headers and settings

VARIABLE file       \* the settings and section headers the user has written

RoutesFlag == "advertise-routes"
ExitFlag == "advertise-exit-node"
exitRoutes == {"0.0.0.0/0", "::/0"}
Redacted == {"<redacted>"}

-----------------------------------------------------------------------------
(* What can be written.  An argument with no dashes is a value.            *)

Header(section) == [header |-> section, dashes |-> 0, name |-> "", value |-> None, split |-> FALSE]

NeedsValue(name) == None \notin Accepts[name]

\* Credentials and routes need a value, the exit node is a switch.
ASSUME FlagsAssumption ==
    /\ upOnlyFlags \cup secretFlags \cup managedFlags \cup {RoutesFlag, ExitFlag} \subseteq DOMAIN Accepts
    /\ "" \notin DOMAIN Accepts
    /\ \A name \in secretFlags \cup {RoutesFlag} : NeedsValue(name)
    /\ ~NeedsValue(ExitFlag)
    /\ MaxEntries \in Nat

Settings ==
    {s \in [header : {""}, dashes : {1, 2}, name : DOMAIN Accepts,
            value : UNION {Accepts[n] : n \in DOMAIN Accepts}, split : BOOLEAN] :
        /\ s.value \in Accepts[s.name]
        /\ s.split => NeedsValue(s.name) /\ s.value # {}}

Line(header, dashes, name, value) ==
    [header |-> header, dashes |-> dashes, name |-> name, value |-> value]

\* The lines of one entry: "--flag=value", or "--flag" and then "value".
LinesOf(e) ==
    IF e.split THEN <<Line("", e.dashes, e.name, None), Line("", 0, "", e.value)>>
    ELSE <<Line(e.header, e.dashes, e.name, e.value)>>

Written(entries) == FlattenSeq([i \in DOMAIN entries |-> LinesOf(entries[i])])

\* Those of a list that stand at certain positions, in order.
Those(list, positions) ==
    FlattenSeq([i \in DOMAIN list |-> IF i \in positions THEN <<list[i]>> ELSE <<>>])

-----------------------------------------------------------------------------
(* Faulty forms. *)

\* Only the spelling with two dashes is looked at (for IsManaged).
ManagedInFull(line) == line.dashes = 2 /\ line.name \in managedFlags

\* The value of a dropped flag is passed on (for SkipsNext).
NothingSkipped(args, i) == i \notin DOMAIN args

\* A credential on a line of its own is logged (for HidesNext).
OwnLineLogged(args, i) == i \notin DOMAIN args

\* The two-token form is not known (for ListAt).
JoinedOnly(args, i) == IF args[i].value # None THEN args[i].value ELSE {}

-----------------------------------------------------------------------------
(* ParseFile. *)

Sections == {"tailscaled", "up"}

\* A flag minitail supplies itself, with one dash or two.
IsManaged(line) == line.dashes > 0 /\ line.name \in managedFlags

\* One line more: parsing stops at the first that is not allowed.
ParseLine(p, line) ==
    IF ~p.ok THEN p
    ELSE IF line.header # "" THEN [p EXCEPT !.section = line.header, !.ok = line.header \in Sections]
    ELSE IF p.section = "" \/ (p.section = "tailscaled" /\ IsManaged(line)) THEN [p EXCEPT !.ok = FALSE]
    ELSE IF p.section = "tailscaled" THEN [p EXCEPT !.tailscaled = Append(@, line)]
    ELSE [p EXCEPT !.up = Append(@, line)]

ParseFile(lines) ==
    LET after[i \in 0 .. Len(lines)] ==
            IF i = 0 THEN [section |-> "", ok |-> TRUE, tailscaled |-> <<>>, up |-> <<>>]
            ELSE ParseLine(after[i - 1], lines[i])
    IN after[Len(lines)]

-----------------------------------------------------------------------------
(* setArgs and Redact. *)

HasValue(arg) == arg.dashes > 0 /\ arg.value # None

\* The next argument can only be the value of this flag.
ValueFollows(args, i) ==
    args[i].dashes > 0 /\ ~HasValue(args[i]) /\ i < Len(args) /\ args[i + 1].dashes = 0

\* A flag that `set` does not take is dropped together with its value.
SkipsNext(args, i) == args[i].name \in upOnlyFlags /\ ValueFollows(args, i)

Dropped(args, i) == args[i].name \in upOnlyFlags \/ (i > 1 /\ SkipsNext(args, i - 1))

Mentions(args, name) == \E i \in DOMAIN args : args[i].name = name

\* The advertisement flags are always given: `set` changes only what it is told.
Defaults(args) ==
    (IF Mentions(args, RoutesFlag) THEN <<>> ELSE <<Line("", 2, RoutesFlag, {})>>) \o
    (IF Mentions(args, ExitFlag) THEN <<>> ELSE <<Line("", 2, ExitFlag, {"false"})>>)

setArgs(up) == Those(up, {i \in DOMAIN up : ~Dropped(up, i)}) \o Defaults(up)

\* The argument after this one is a credential.
HidesNext(args, i) == args[i].name \in secretFlags /\ ValueFollows(args, i)

Redact(args) ==
    [i \in DOMAIN args |->
        IF \/ args[i].name \in secretFlags /\ HasValue(args[i])
           \/ i > 1 /\ HidesNext(args, i - 1)
        THEN [args[i] EXCEPT !.value = Redacted]
        ELSE args[i]]

-----------------------------------------------------------------------------
(* AdvertisedRoutes: a set of prefixes, or None for one it cannot read.    *)
(* It compares the argument with the name and both its dashes.             *)

\* In any case, which makes no difference here.
isTrue(value) == value \in {{"true"}, {"1"}}

Named(args, i, name) == args[i].dashes = 2 /\ args[i].name = name

\* The value of the routes flag at i, wherever it stands.  That nothing stands
\* there, or another flag, is an error: neither is a prefix.
ListAt(args, i) ==
    IF HasValue(args[i]) THEN args[i].value
    ELSE IF ValueFollows(args, i) THEN args[i + 1].value
    ELSE {None}

AdvertisedRoutes(args) ==
    LET lists == {ListAt(args, i) : i \in {j \in DOMAIN args : Named(args, j, RoutesFlag)}}
        exit == \E i \in DOMAIN args :
                    Named(args, i, ExitFlag) /\ (~HasValue(args[i]) \/ isTrue(args[i].value))
    IN IF UNION lists \subseteq CIDRs
       THEN (UNION lists) \cup (IF exit THEN exitRoutes ELSE {})
       ELSE None

-----------------------------------------------------------------------------
Entries == Settings \cup {Header(s) : s \in Sections \cup {"other"}}

Init == file = <<>>

\* The user edits the file: one entry more, or one less.
Edit ==
    \/ Len(file) < MaxEntries /\ \E e \in Entries : file' = Append(file, e)
    \/ file # <<>> /\ file' = Front(file)

Spec == Init /\ [][Edit]_file

-----------------------------------------------------------------------------
(* What it should be. *)

\* The section an entry stands in: the last header before it.
SectionAt(entries, i) ==
    LET headers == {j \in 1 .. i : entries[j].header # ""}
    IN IF headers = {} THEN "" ELSE entries[Max(headers)].header

InSection(entries, section) ==
    Those(entries, {i \in DOMAIN entries : entries[i].header = "" /\ SectionAt(entries, i) = section})

Accepted(entries) ==
    \A i \in DOMAIN entries :
        /\ SectionAt(entries, i) \in Sections
        /\ SectionAt(entries, i) = "tailscaled" => entries[i].name \notin managedFlags

Parsed == ParseFile(Written(file))

\* ParseFile takes exactly the files with known sections, nothing before the
\* first, and no managed flag for tailscaled in any spelling; and what it takes
\* it sorts as written, sections that are interrupted and resumed included.
ParsedAsWritten ==
    /\ Parsed.ok <=> Accepted(file)
    /\ Parsed.ok => /\ Parsed.tailscaled = Written(InSection(file, "tailscaled"))
                    /\ Parsed.up = Written(InSection(file, "up"))

Given(entries, name) == \E i \in DOMAIN entries : entries[i].name = name

\* The settings that `set` is to get of these: those it takes, and the two defaults.
Rest(up) ==
    Written(Those(up, {i \in DOMAIN up : up[i].name \notin upOnlyFlags})) \o
    (IF Given(up, RoutesFlag) THEN <<>> ELSE <<Line("", 2, RoutesFlag, {})>>) \o
    (IF Given(up, ExitFlag) THEN <<>> ELSE <<Line("", 2, ExitFlag, {"false"})>>)

\* `tailscale set` gets every setting of [up] that it can take, in order, each
\* with its value and none with another's, and both advertisement flags.
SetGetsTheRest == Parsed.ok => setArgs(Parsed.up) = Rest(InSection(file, "up"))

Shown(setting) == IF setting.name \in secretFlags THEN [setting EXCEPT !.value = Redacted] ELSE setting

\* The log shows the command line with the value of every credential replaced,
\* joined to its flag or not, and nothing else.
RedactHidesSecrets ==
    Parsed.ok => LET up == InSection(file, "up")
                 IN Redact(Parsed.up) = Written([i \in DOMAIN up |-> Shown(up[i])])

LastOf(entries, name) == entries[Max({i \in DOMAIN entries : entries[i].name = name})]

\* What Tailscale's flag parser takes for "on".
On(value) == value \in {None, {"true"}, {"1"}, {"t"}}

\* What the node is told to advertise: Tailscale's flag parser takes one dash or
\* two, and the last of several settings.
Meant(up) ==
    LET list == IF Given(up, RoutesFlag) THEN LastOf(up, RoutesFlag).value ELSE {}
        exit == Given(up, ExitFlag) /\ On(LastOf(up, ExitFlag).value)
    IN IF list \subseteq CIDRs THEN list \cup (IF exit THEN exitRoutes ELSE {}) ELSE None

\* Every advertisement flag is given once at most.
GivenOnce(up) ==
    \A i, j \in DOMAIN up : up[i].name \in {RoutesFlag, ExitFlag} /\ up[i].name = up[j].name => i = j

TwoDashes(up) == \A i \in DOMAIN up : up[i].name \in {RoutesFlag, ExitFlag} => up[i].dashes = 2

\* The exit node is switched on as the documentation does it, and not with a "t".
SpelledOut(up) == \A i \in DOMAIN up : up[i].name = ExitFlag => up[i].value # {"t"}

\* The routes whose approval decides between "serving" and "not approved" are
\* those the node is told to advertise, in files that spell the flags as the
\* documentation does.
AdvertisedIsMeant ==
    LET up == InSection(file, "up")
    IN Parsed.ok /\ GivenOnce(up) /\ SpelledOut(up) /\ TwoDashes(up) => AdvertisedRoutes(Parsed.up) = Meant(up)

\* The same with one dash or two (file.go, AdvertisedRoutes).
AdvertisesTheFile ==
    LET up == InSection(file, "up")
    IN Parsed.ok /\ GivenOnce(up) /\ SpelledOut(up) => AdvertisedRoutes(Parsed.up) = Meant(up)
=============================================================================
