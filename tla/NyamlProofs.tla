------------------------------ MODULE NyamlProofs ------------------------------
(***************************************************************************)
(* Whatever the files, the keys and the sizes of the terminal, and however *)
(* many themes there are: the picker, the title and the printer agree, the *)
(* selection is on the screen, and esc undoes the preview.  Every message   *)
(* that reaches the viewport is a call it allows, so that what is proved of *)
(* the viewport for any sequence of calls holds of every session.           *)
(***************************************************************************)
EXTENDS Nyaml, ViewportProofs

\* A theme is one of the list.
IsListed(name) == \E i \in DOMAIN themeList : themeList[i] = name

IInv ==
    /\ terminal.height \in Nat
    /\ IsListed(chosenTheme)
    /\ themeIndex \in DOMAIN themeList /\ themeList[themeIndex] = currentTheme
    /\ printerTheme = currentTheme
    /\ mode = "pick" => previousTheme = chosenTheme
    /\ mode # "pick" => currentTheme = chosenTheme

\* The themes stay as they are, the picker neither opens nor closes.
Elsewhere ==
    /\ UNCHANGED themeVars
    /\ mode' = mode \/ "pick" \notin {mode, mode'}
    /\ terminal'.height \in Nat

-----------------------------------------------------------------------------
(* The list in the window of the picker.                                   *)

\* The window has room for at least one item on either side of the middle.
LEMMA WindowSize ==
    ASSUME terminal.height \in Nat
    PROVE  visibleItems \in Nat /\ visibleItems >= 6
<1> DEFINE q == terminal.height \div 4
<1>1. q \in Int
  BY Z3
<1> HIDE DEF q
<1> DEFINE rows == Larger(10, q) - 4
<1>2. rows \in Nat /\ rows >= 6
  BY <1>1 DEF Larger
<1>3. visibleItems = IF rows % 2 = 0 THEN rows + 1 ELSE rows
  BY DEF visibleItems, OverlayHeight, q
<1> HIDE DEF rows
<1> QED
  BY <1>2, <1>3

\* The window moves with the selection, and stops at the ends of the list.
LEMMA SelectionListed ==
    ASSUME IInv
    PROVE  themeIndex \in Listed
<1>1. visibleItems \in Nat /\ visibleItems >= 6
  BY WindowSize DEF IInv
<1>2. Len(themeList) \in Nat /\ DOMAIN themeList = 1 .. Len(themeList)
  BY ListAssumption
<1> DEFINE v == visibleItems  n == Len(themeList)
<1> HIDE DEF v, n
<1>3. /\ v \in Nat /\ v >= 6 /\ n \in Nat /\ themeIndex \in 1 .. n
      /\ scrollOffset = AtMost(AtLeast0(themeIndex - 1 - v \div 2), AtLeast0(n - v))
  BY <1>1, <1>2 DEF IInv, scrollOffset, v, n
<1> DEFINE h == v \div 2
<1>4. h \in Int /\ h >= 0 /\ v - h >= 1
  BY <1>3
<1> HIDE DEF h
<1>5. scrollOffset = AtMost(AtLeast0(themeIndex - 1 - h), AtLeast0(n - v))
  BY <1>3 DEF h
<1>6. themeIndex > scrollOffset /\ themeIndex <= scrollOffset + v
  BY <1>3, <1>4, <1>5 DEF AtMost, AtLeast0
<1> QED
  BY <1>6 DEF Listed, IInv, v

-----------------------------------------------------------------------------
(* Steps.                                                                  *)

\* What keeps off the themes keeps the invariant.
LEMMA ElsewhereKeeps ==
    ASSUME IInv, Elsewhere
    PROVE  IInv'
<1> QED
  BY DEF IInv, Elsewhere, themeVars, IsListed

\* IndexOf finds what is listed.
LEMMA IndexFound ==
    ASSUME NEW name, IsListed(name)
    PROVE  IndexOf(name) \in DOMAIN themeList /\ themeList[IndexOf(name)] = name
<1> QED
  BY DEF IsListed, IndexOf

\* The first theme is listed.
LEMMA InitHolds ==
    ASSUME NyamlInit
    PROVE  IInv
<1>1. IsListed("charm")
  BY ListAssumption DEF IsListed
<1>2. /\ themeIndex = IndexOf("charm") /\ currentTheme = "charm" /\ printerTheme = "charm"
      /\ chosenTheme = "charm" /\ mode = "browse" /\ terminal.height = 0
  BY DEF NyamlInit
<1> QED
  BY <1>1, <1>2, IndexFound DEF IInv

\* Keys of the viewport, the wheel and drawing do not touch the themes.
LEMMA BrowsingKeeps ==
    ASSUME IInv, Load \/ FirstSearch \/ OpenSearch \/ ViewportKey \/ Wheel \/ Draw
    PROVE  IInv'
<1>1. Load \/ FirstSearch => Elsewhere
  BY DEF IInv, Load, FirstSearch, Elsewhere
<1>2. OpenSearch => Elsewhere
  BY DEF IInv, OpenSearch, Press, Elsewhere
<1>3. ViewportKey \/ Wheel \/ Draw => Elsewhere
  BY DEF IInv, ViewportKey, Wheel, Draw, KeepApp, app, themeVars, Elsewhere
<1> QED
  BY <1>1, <1>2, <1>3, ElsewhereKeeps

\* Nor does another size.
LEMMA ResizeKeeps ==
    ASSUME IInv, NEW size \in Sizes, Resize(size)
    PROVE  IInv'
<1>1. terminal'.height \in Nat
  BY NyamlAssumption DEF Resize
<1> QED
  BY <1>1, ElsewhereKeeps DEF Resize, Elsewhere

\* Nor does the search prompt.
LEMMA PromptKeeps ==
    ASSUME IInv, SubmitSearch \/ EditSearch
    PROVE  IInv'
<1> QED
  BY ElsewhereKeeps DEF IInv, SubmitSearch, EditSearch, Prompted, Elsewhere

\* The picker remembers the theme confirmed last.
LEMMA OpenPickerKeeps ==
    ASSUME IInv, OpenPicker
    PROVE  IInv'
<1> QED
  BY DEF IInv, IsListed, OpenPicker, Press

\* Enter confirms the theme that is shown.
LEMMA ConfirmKeeps ==
    ASSUME IInv, ConfirmTheme
    PROVE  IInv'
<1> QED
  BY DEF IInv, IsListed, ConfirmTheme

\* Esc finds the theme of before in the list and shows it.
LEMMA CancelKeeps ==
    ASSUME IInv, CancelTheme
    PROVE  IInv'
<1>1. /\ mode = "pick" /\ mode' = "browse"
      /\ currentTheme' = previousTheme /\ printerTheme' = previousTheme
      /\ themeIndex' = IndexOf(previousTheme)
      /\ chosenTheme' = chosenTheme /\ terminal' = terminal
  BY DEF CancelTheme, Picking, ApplyTheme
<1>2. previousTheme = chosenTheme /\ IsListed(previousTheme)
  BY <1>1 DEF IInv
<1>3. themeIndex' \in DOMAIN themeList /\ themeList[themeIndex'] = previousTheme
  BY <1>1, <1>2, IndexFound
<1> QED
  BY <1>1, <1>2, <1>3 DEF IInv, IsListed

\* A move shows the theme it comes to.
LEMMA MoveKeeps ==
    ASSUME IInv, mode = "pick", NEW delta \in Int, MoveSelection(delta)
    PROVE  IInv'
<1> QED
  BY DEF IInv, IsListed, MoveSelection, ApplyTheme

\* No step breaks the invariant.
LEMMA NextKeeps ==
    ASSUME IInv, [NyamlNext]_allVars
    PROVE  IInv'
<1>1. CASE UNCHANGED allVars
  BY <1>1 DEF allVars, app, IInv, IsListed
<1>2. CASE PickTheme
  BY <1>2, ConfirmKeeps, CancelKeeps, MoveKeeps DEF PickTheme, Picking
<1>3. CASE \E size \in Sizes : Resize(size)
  BY <1>3, ResizeKeeps
<1> QED
  BY <1>1, <1>2, <1>3, BrowsingKeeps, OpenPickerKeeps, PromptKeeps DEF NyamlNext

\* The title, the printer and the picker are about one theme, the selection is
\* among those the picker lists, and esc undoes a preview, for every list of
\* themes and every session (model.go:122-130, 179-206, 472-510).
THEOREM PickerRight == NyamlSpec => []PickerHonest
<1>1. NyamlInit => IInv
  BY InitHolds
<1>2. IInv /\ [NyamlNext]_allVars => IInv'
  BY NextKeeps
<1>3. IInv => PickerHonest
  BY SelectionListed DEF IInv, PickerHonest
<1> QED
  BY <1>1, <1>2, <1>3, PTL DEF NyamlSpec

-----------------------------------------------------------------------------
(* The viewport of a session.                                              *)

SessionInv ==
    /\ ViewInv /\ Cleared
    /\ opts \in [files : Seq(Sources), search : Terms \cup {NoTerm}]
    /\ searchInput \in Terms \cup {NoTerm}

\* A file that is left is a document.
LEMMA FilesLeft ==
    ASSUME SessionInv, opts.files # <<>>
    PROVE  Head(opts.files) \in Sources /\ Tail(opts.files) \in Seq(Sources)
<1>1. opts.files \in Seq(Sources)
  BY DEF SessionInv
<1> QED
  BY <1>1

\* A message that does not reach the viewport leaves it as it is.
LEMMA IdleIsCall ==
    ASSUME ViewInv, UNCHANGED vars
    PROVE  Call
<1> QED
  BY DEF vars, ViewInv, Scalars, Settings, Call

\* A key of the viewport is one of its calls.
LEMMA KeyIsCall ==
    ASSUME SessionInv, ViewportKey
    PROVE  Call
<1>1. ViewInv /\ view \in Choice /\ height \in Nat
  BY DEF SessionInv, ViewInv, IsView, Scalars
<1>2. height \div 2 \in Int /\ 0 \in Int /\ 1 \in Int /\ -1 \in Int
  BY <1>1
<1>3. MaxYOffset \in Int
  <2>1. MaxYOffset \in Nat
    BY <1>1, LeftTyped, LastOffset DEF MaxYOffset
  <2> QED
    BY <2>1
<1>4. CASE \E n \in Int : SetYOffset(n) \/ ScrollDown(n) \/ ScrollUp(n)
  <2>1. Settings
    BY <1>1, <1>4, SetYOffsetSets, ScrollSets
  <2> QED
    BY <2>1 DEF Call
<1>5. NextDiffMode[view.diffMode] \in DiffModes /\ NextViewMode(view.viewMode) \in ViewModes
  BY <1>1 DEF Choice, DiffModes, ViewModes, NextDiffMode, NextViewMode
<1> QED
  BY <1>1, <1>2, <1>3, <1>4, <1>5 DEF ViewportKey, Call

\* Every message is a call, or none.
LEMMA MessageIsCall ==
    ASSUME SessionInv, [NyamlNext]_allVars
    PROVE  Call
<1>1. ViewInv /\ searchInput \in Terms \cup {NoTerm} /\ opts.search \in Terms \cup {NoTerm}
  BY DEF SessionInv
<1>2. CASE UNCHANGED vars
  BY <1>1, <1>2, IdleIsCall
<1>3. CASE Load
  BY <1>3, FilesLeft DEF Load, Call
<1>4. CASE FirstSearch
  BY <1>1, <1>4 DEF FirstSearch, Call
<1>5. CASE ViewportKey
  BY <1>5, KeyIsCall
<1>6. CASE Wheel \/ Draw
  <2>1. WheelDelta \in Int
    BY DEF WheelDelta
  <2>2. Settings
    BY <1>1, <1>6, <2>1, ScrollSets, PrintingSets DEF Wheel, Draw
  <2> QED
    BY <2>2 DEF Call
<1>7. CASE \E size \in Sizes : Resize(size)
  <2>1. PICK size \in Sizes : Resize(size)
    BY <1>7
  <2>2. size.width \in Nat /\ size.height \in Nat
    BY NyamlAssumption
  <2>3. AtLeast0(size.height - StatusLines) \in Nat
    BY <2>2 DEF AtLeast0, StatusLines
  <2>4. yOffset \in Nat
    BY <1>1 DEF ViewInv, Scalars
  <2>5. /\ Widen(size.width) /\ yOffset' \in Nat /\ height' \in Nat
        /\ UNCHANGED <<hunkContext, wrapEnabled>>
    BY <2>1, <2>3, <2>4 DEF Resize
  <2> QED
    BY <2>2, <2>5 DEF Call
<1>8. CASE SubmitSearch
  BY <1>1, <1>8 DEF SubmitSearch, Call
<1>9. CASE PickTheme
  <2>1. SetPrinter \/ UNCHANGED vars
    BY <1>9 DEF PickTheme, ConfirmTheme, CancelTheme, MoveSelection, ApplyTheme
  <2> QED
    BY <1>1, <2>1, IdleIsCall DEF Call
<1>10. CASE OpenPicker \/ OpenSearch \/ EditSearch \/ UNCHANGED allVars
  <2>1. UNCHANGED vars
    BY <1>10 DEF OpenPicker, OpenSearch, EditSearch, allVars
  <2> QED
    BY <1>1, <2>1, IdleIsCall
<1> QED
  BY <1>3, <1>4, <1>5, <1>6, <1>7, <1>8, <1>9, <1>10 DEF NyamlNext

\* The files left to add are documents, and the prompt holds a term.
LEMMA PromptTyped ==
    ASSUME SessionInv, [NyamlNext]_allVars
    PROVE  /\ opts' \in [files : Seq(Sources), search : Terms \cup {NoTerm}]
           /\ searchInput' \in Terms \cup {NoTerm}
<1>1. /\ opts \in [files : Seq(Sources), search : Terms \cup {NoTerm}]
      /\ searchInput \in Terms \cup {NoTerm} /\ NoTerm = <<>>
  BY NyamlAssumption DEF SessionInv
<1>2. CASE Load
  <2>1. Tail(opts.files) \in Seq(Sources)
    BY <1>2, FilesLeft DEF Load
  <2> QED
    BY <1>1, <1>2, <2>1 DEF Load
<1>3. CASE FirstSearch
  <2>1. NoTerm \in Terms \cup {NoTerm}
    OBVIOUS
  <2> QED
    BY <1>1, <1>3, <2>1 DEF FirstSearch
<1>4. CASE EditSearch
  BY <1>1, <1>4, PromptAssumption DEF EditSearch, Prompted
<1>5. CASE OpenSearch
  BY <1>1, <1>5 DEF OpenSearch
<1>6. CASE ViewportKey \/ Wheel \/ Draw \/ UNCHANGED allVars
  BY <1>1, <1>6 DEF ViewportKey, Wheel, Draw, KeepApp, app, allVars
<1>7. CASE OpenPicker \/ SubmitSearch \/ PickTheme \/ \E size \in Sizes : Resize(size)
  BY <1>1, <1>7 DEF OpenPicker, SubmitSearch, PickTheme, ConfirmTheme, CancelTheme, MoveSelection, Resize
<1> QED
  BY <1>2, <1>3, <1>4, <1>5, <1>6, <1>7 DEF NyamlNext

\* No message breaks the invariant.
LEMMA SessionKeeps ==
    ASSUME SessionInv, [NyamlNext]_allVars
    PROVE  SessionInv'
<1>1. ViewInv /\ Cleared /\ Call
  BY MessageIsCall DEF SessionInv
<1>2. ViewInv'
  BY <1>1, CallKeeps
<1>3. Cleared'
  BY <1>1, <1>2, ClearedKeeps
<1> QED
  BY <1>2, <1>3, PromptTyped DEF SessionInv

\* Nor does the start.
LEMMA SessionStarts ==
    ASSUME NyamlInit
    PROVE  SessionInv
<1>1. ViewInv /\ Cleared
  BY InitEstablishes DEF NyamlInit, Init, Cleared, NoSearch
<1>2. PICK s \in Sessions : opts = [files |-> s.files, search |-> s.search]
  BY DEF NyamlInit
<1>3. s.files \in Seq(Sources) /\ s.search \in Terms \cup {NoTerm} /\ NoTerm = <<>>
  BY NyamlAssumption
<1>4. opts \in [files : Seq(Sources), search : Terms \cup {NoTerm}]
  BY <1>2, <1>3
<1> QED
  BY <1>1, <1>3, <1>4 DEF SessionInv, NyamlInit

\* In every session, whatever the files, the keys and the sizes: what is shown,
\* counted and highlighted is that of the revision, the modes and the term, and a
\* redraw shows nothing new (model.go:111-160, 208-391).
THEOREM SessionsShow ==
    NyamlSpec => [](TypeOK /\ ShowsRevisions /\ SearchCurrent /\ HighlightsRight /\ RedrawStable)
<1>1. SessionInv /\ [NyamlNext]_allVars => SessionInv'
  BY SessionKeeps
<1>2. SessionInv => TypeOK /\ ShowsRevisions /\ SearchCurrent /\ HighlightsRight /\ RedrawStable
  <2>1. ViewInv => TypeOK
    BY DEF ViewInv, IsView, IsPaint, IsSearch, Scalars, TypeOK
  <2>2. ViewInv => RedrawStable
    BY DEF ViewInv
  <2> QED
    BY <2>1, <2>2, Shows, Counted, PrintedRight DEF SessionInv
<1> QED
  BY <1>1, <1>2, SessionStarts, PTL DEF NyamlSpec

\* In every session a search ends with its match on the screen, but for the hunks
\* view, and a revision is not shown from below its end.
THEOREM SessionsScroll == NyamlSpec => MatchVisible /\ LandsInside
<1> DEFINE seen == left' # Nil /\ height > 0 /\ view'.viewMode # "hunks" =>
                       \A m \in Current(search') : m.row \in Window'
<1>1. SessionInv /\ [NyamlNext]_allVars => SessionInv'
  BY SessionKeeps
<1>2. SessionInv => ViewInv
  BY DEF SessionInv
<1>3. ASSUME SessionInv, [NyamlNext]_allVars PROVE Call
  BY <1>3, MessageIsCall
<1>4. ASSUME ViewInv, ViewInv', Searches PROVE seen
  <2> SUFFICES ASSUME left' # Nil, height > 0, view'.viewMode # "hunks",
                      NEW m \in Current(search')
               PROVE  m.row \in Window'
    OBVIOUS
  <2>1. height' = height /\ ScrollToMatch
    BY <1>4, SearchesScroll
  <2>2. m.row \in yOffset' + 1 .. yOffset' + height
    BY <1>4, <2>1, ScrollShows
  <2> QED
    BY <1>4, <2>1, <2>2, WindowHasMatch
<1>5. ViewInv /\ ViewInv' => [seen \/ ~Searches]_vars
  BY <1>4
<1>6. SessionInv /\ ViewInv /\ ViewInv' /\ [NyamlNext]_allVars =>
          [view'.cur # view.cur /\ view'.cur # 0 => yOffset' <= MaxYOffset']_vars
  BY <1>3, RevisionLandsInside
<1> QED
  BY <1>1, <1>2, <1>5, <1>6, SessionStarts, PTL DEF NyamlSpec, MatchVisible, LandsInside
=============================================================================
