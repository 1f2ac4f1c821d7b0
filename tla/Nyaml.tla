------------------------------- MODULE Nyaml -------------------------------
(***************************************************************************)
(* nyaml view: the files of a command line as revisions in a viewport, with *)
(* a prompt to search and a picker of themes over it.                       *)
(*                                                                          *)
(* A message of bubbletea is handled in one step; the view is drawn between *)
(* any two of them, or not.  A session uses a set of keys of its own, which *)
(* bounds what one run combines, and ends only with the program.  Terms are *)
(* sequences of bytes, as the prompt edits them.                            *)
(***************************************************************************)
EXTENDS Viewport, Themes

CONSTANTS
    Typed,        \* texts one key press may enter, as sequences of bytes
    Sizes,        \* of the terminal
    Sessions,     \* the sources of the files, what to search for at first, the keys
    MaxInput      \* bound on the length of the search prompt

ASSUME NyamlAssumption ==
    /\ \A s \in Sessions : s.files \in Seq(Sources) /\ s.search \in Terms \cup {NoTerm}
    /\ NoTerm = <<>>
    /\ MaxInput \in Nat
    /\ Sizes \subseteq [width : Nat, height : Nat]

\* What the prompt can hold is a term, or nothing.
ASSUME PromptAssumption ==
    \A u \in Terms \cup {NoTerm} :
        /\ u # NoTerm => SubSeq(u, 1, Len(u) - 1) \in Terms \cup {NoTerm}
        /\ \A t \in Typed : Len(u) + Len(t) <= MaxInput => u \o t \in Terms \cup {NoTerm}

VARIABLES
    opts,          \* what newModel has still to do before the program runs
    keys,          \* the session's
    mode,          \* "browse", or a prompt: themePicking or searching
    searchInput,
    themeIndex, currentTheme, previousTheme,
    printerTheme,  \* of the styles the printer was made with
    chosenTheme,   \* the theme when the picker was last confirmed
    terminal       \* its size: m.width, m.height

app == <<opts, keys, mode, searchInput, themeIndex, currentTheme, previousTheme,
         printerTheme, chosenTheme, terminal>>
themeVars == <<themeIndex, currentTheme, previousTheme, printerTheme, chosenTheme>>

allVars == <<vars, app>>

\* The dark themes, sorted; they are listed by name already.
themeList == List(Dark)

ASSUME ListAssumption ==
    /\ themeList \in Seq(STRING)
    /\ \E i \in DOMAIN themeList : themeList[i] = "charm"

IndexOf(name) == CHOOSE i \in DOMAIN themeList : themeList[i] = name

\* newModel, up to the files.
NyamlInit ==
    /\ Init
    /\ \E s \in Sessions :
          /\ opts = [files |-> s.files, search |-> s.search]
          /\ keys = s.keys
    /\ mode = "browse"
    /\ searchInput = <<>>
    /\ currentTheme = "charm" /\ previousTheme = ""
    /\ themeIndex = IndexOf("charm")
    /\ printerTheme = "charm" /\ chosenTheme = "charm"
    /\ terminal = [width |-> 0, height |-> 0]

\* newModel: a file is added.
Load ==
    /\ opts.files # <<>>
    /\ opts' = [opts EXCEPT !.files = Tail(opts.files)]
    /\ AddRevision(Head(opts.files))
    /\ UNCHANGED <<keys, mode, searchInput, themeVars, terminal>>

\* newModel: the search of the command line, before the height is known.
FirstSearch ==
    /\ opts.files = <<>> /\ opts.search # NoTerm
    /\ opts' = [opts EXCEPT !.search = NoTerm]
    /\ SetSearchTerm(opts.search)
    /\ UNCHANGED <<keys, mode, searchInput, themeVars, terminal>>

Running == opts = [files |-> <<>>, search |-> NoTerm]

-----------------------------------------------------------------------------
(* Keys while no prompt is open; those of the viewport are forwarded.       *)

KeepApp == UNCHANGED app

Press(key) == Running /\ mode = "browse" /\ key \in keys

OpenPicker ==
    /\ Press("t")
    /\ mode' = "pick"
    /\ previousTheme' = currentTheme
    /\ UNCHANGED <<vars, opts, keys, searchInput, themeIndex, currentTheme, printerTheme,
                   chosenTheme, terminal>>

OpenSearch ==
    /\ Press("/")
    /\ mode' = "search"
    /\ searchInput' = <<>>
    /\ UNCHANGED <<vars, opts, keys, themeVars, terminal>>

NextDiffMode == [adjacent |-> "origin", origin |-> "none", none |-> "adjacent"]
NextViewMode(m) == IF m = "full" THEN "sideBySide" ELSE "full"

ViewportKey ==
    /\ KeepApp
    /\ \/ Press("n") /\ Navigate(1)
       \/ Press("N") /\ Navigate(-1)
       \/ Press("esc") /\ ClearSearch
       \/ Press("g") /\ SetYOffset(0)
       \/ Press("G") /\ SetYOffset(MaxYOffset)
       \/ Press("f") /\ ScrollDown(height)
       \/ Press("b") /\ ScrollUp(height)
       \/ Press("d") /\ ScrollDown(height \div 2)
       \/ Press("u") /\ ScrollUp(height \div 2)
       \/ Press("j") /\ ScrollDown(1)
       \/ Press("k") /\ ScrollUp(1)
       \/ Press("tab") /\ GoToRevision(view.cur + 1)
       \/ Press("shift+tab") /\ GoToRevision(view.cur - 1)
       \/ Press("m") /\ SetDiffMode(NextDiffMode[view.diffMode])
       \/ Press("v") /\ SetViewMode(NextViewMode(view.viewMode))
       \/ Press("w") /\ ToggleWordWrap

WheelDelta == 3

\* The mouse scrolls under an open prompt, too.
Wheel ==
    /\ Running /\ "wheel" \in keys
    /\ KeepApp
    /\ ScrollDown(WheelDelta) \/ ScrollUp(WheelDelta)

StatusLines == 2

\* tea.WindowSizeMsg: SetWidth, then SetHeight.
Resize(size) ==
    /\ Running
    /\ terminal' = size
    /\ Widen(size.width)
    /\ height' = AtLeast0(size.height - StatusLines)
    /\ UNCHANGED <<yOffset, hunkContext, wrapEnabled>>
    /\ UNCHANGED <<opts, keys, mode, searchInput, themeVars>>

Draw ==
    /\ Running
    /\ KeepApp
    /\ View

-----------------------------------------------------------------------------
(* The prompt: updateSearchInput.                                          *)

Prompted(key) == mode = "search" /\ key \in keys

SubmitSearch ==
    /\ Prompted("enter")
    /\ mode' = "browse"
    /\ IF searchInput = NoTerm THEN ClearSearch ELSE SetSearchTerm(searchInput)
    /\ UNCHANGED <<opts, keys, searchInput, themeVars, terminal>>

EditSearch ==
    /\ \/ Prompted("esc") /\ mode' = "browse" /\ searchInput' = <<>>
       \/ /\ Prompted("backspace") /\ searchInput # <<>>
          /\ searchInput' = SubSeq(searchInput, 1, Len(searchInput) - 1)
          /\ UNCHANGED mode
       \/ \E t \in Typed :
             /\ mode = "search" /\ Len(searchInput) + Len(t) <= MaxInput
             /\ searchInput' = searchInput \o t
             /\ UNCHANGED mode
    /\ UNCHANGED <<vars, opts, keys, themeVars, terminal>>

-----------------------------------------------------------------------------
(* The picker: updateThemeInput.                                           *)

Picking(key) == mode = "pick" /\ key \in keys

\* applyTheme: a printer of its own for every theme.
ApplyTheme(name) ==
    /\ currentTheme' = name
    /\ printerTheme' = name
    /\ SetPrinter

ConfirmTheme ==
    /\ Picking("enter")
    /\ mode' = "browse"
    /\ chosenTheme' = currentTheme
    /\ UNCHANGED <<vars, opts, keys, searchInput, themeIndex, currentTheme, previousTheme,
                   printerTheme, terminal>>

\* A cancel that forgets to move the selection back.
CancelThemeOnly ==
    /\ Picking("esc")
    /\ mode' = "browse"
    /\ ApplyTheme(previousTheme)
    /\ UNCHANGED <<opts, keys, searchInput, themeIndex, previousTheme, chosenTheme, terminal>>

CancelTheme ==
    /\ Picking("esc")
    /\ mode' = "browse"
    /\ ApplyTheme(previousTheme)
    /\ themeIndex' = IndexOf(previousTheme)
    /\ UNCHANGED <<opts, keys, searchInput, previousTheme, chosenTheme, terminal>>

\* The theme selected is shown at once.
MoveSelection(delta) ==
    /\ themeIndex + delta \in DOMAIN themeList
    /\ themeIndex' = themeIndex + delta
    /\ ApplyTheme(themeList[themeIndex'])
    /\ UNCHANGED <<opts, keys, mode, searchInput, previousTheme, chosenTheme, terminal>>

PickTheme ==
    \/ ConfirmTheme
    \/ CancelTheme
    \/ Picking("j") /\ MoveSelection(1)
    \/ Picking("k") /\ MoveSelection(-1)

NyamlNext ==
    \/ Load \/ FirstSearch
    \/ OpenPicker \/ OpenSearch
    \/ ViewportKey
    \/ Wheel
    \/ \E size \in Sizes : Resize(size)
    \/ Draw
    \/ SubmitSearch \/ EditSearch
    \/ PickTheme

NyamlSpec == NyamlInit /\ [][NyamlNext]_allVars

-----------------------------------------------------------------------------
(* The picker, drawn: renderThemeOverlay.                                   *)

AtMost(n, max) == IF n > max THEN max ELSE n
Larger(a, b) == IF a > b THEN a ELSE b

OverlayHeight == Larger(10, terminal.height \div 4)

\* An odd number, for the selection to be in the middle.
visibleItems ==
    LET rows == OverlayHeight - 4
    IN  IF rows % 2 = 0 THEN rows + 1 ELSE rows

\* Themes above the first one listed.
scrollOffset ==
    AtMost(AtLeast0(themeIndex - 1 - visibleItems \div 2),
           AtLeast0(Len(themeList) - visibleItems))

Listed == {i \in DOMAIN themeList : i > scrollOffset /\ i <= scrollOffset + visibleItems}

-----------------------------------------------------------------------------
(* Properties.                                                             *)

\* The title, the printer and the picker are about one theme, the one selected is
\* among those the picker lists, and once the picker is closed the theme is the
\* one confirmed last: esc undoes a preview, however far it went.
PickerHonest ==
    /\ printerTheme = currentTheme
    /\ themeList[themeIndex] = currentTheme
    /\ mode = "pick" => themeIndex \in Listed /\ previousTheme = chosenTheme
    /\ mode # "pick" => currentTheme = chosenTheme

\* With the theme of the printer, and with those for light terminals that other
\* programs use, the current match, another match and the rest of the text show
\* as different, on every token and every line of a diff.
MatchesStandOut ==
    /\ printerTheme \in Clear
    /\ \A i \in DOMAIN List(Light) : List(Light)[i] \in Clear

\* The word wrap of the status bar is that of the printer.
WrapsAsSaid == printer.wrap = wrapEnabled
=============================================================================
