------------------------------- MODULE Themes -------------------------------
(***************************************************************************)
(* The styles of a printer and the built-in themes, one definition per file *)
(* of style/theme.                                                          *)
(*                                                                          *)
(* A style is its background, which is what a highlight shows by: a colour  *)
(* of three bytes, or a name for the colours another package defines.  A    *)
(* theme sets many more styles than are written here; those have the        *)
(* background of its base and differ in the foreground and font only.       *)
(* Titles of the status bar are left out.                                   *)
(***************************************************************************)
EXTENDS Integers, Sequences, TLC

NoColor == <<>>

-----------------------------------------------------------------------------
(* Styles.                                                                 *)

Highlights == {"genericHighlight", "genericHighlightDim"}

\* tokenTypeStyles: the styles of the tokens, by their type and neighbours.
TokenStyles ==
    {"nameAlias", "nameAnchor", "literalNumberBin", "literalBoolean", "punctuationCollectEntry",
     "comment", "commentPreproc", "punctuationHeading", "literalStringDouble",
     "literalNumberFloat", "punctuationBlockFolded", "literalNumberHex", "literalNullImplicit",
     "literalNumberInfinity", "literalNumberInteger", "genericErrorInvalid",
     "punctuationBlockLiteral", "punctuationMappingEnd", "nameTag", "punctuationMappingStart",
     "punctuationMappingValue", "nameAliasMerge", "literalNumberNaN", "literalNull",
     "literalNumberOct", "punctuationSequenceEnd", "punctuationSequenceEntry",
     "punctuationSequenceStart", "literalStringSingle", "text", "literalString",
     "nameDecorator", "genericErrorUnknown"}

\* The styles of whole lines of a diff.
LineStyles == {"genericInserted", "genericDeleted"}

Children(parent, styles) == [s \in styles |-> parent]

\* The parents below "text", of the styles above.
styleParent ==
    Children("comment", {"commentPreproc"})
    @@ Children("generic", LineStyles \cup {"genericError", "genericHighlight"})
    @@ Children("genericError", {"genericErrorInvalid", "genericErrorUnknown"})
    @@ Children("genericHighlight", {"genericHighlightDim"})
    @@ Children("literal", {"literalBoolean", "literalNull", "literalNumber", "literalString"})
    @@ Children("literalNull", {"literalNullImplicit"})
    @@ Children("literalNumber",
          {"literalNumberBin", "literalNumberFloat", "literalNumberHex", "literalNumberInfinity",
           "literalNumberInteger", "literalNumberNaN", "literalNumberOct"})
    @@ Children("literalString", {"literalStringDouble", "literalStringSingle"})
    @@ Children("name", {"nameAlias", "nameAnchor", "nameTag"})
    @@ Children("nameAlias", {"nameAliasMerge"})
    @@ Children("nameAnchor", {"nameDecorator"})
    @@ Children("punctuation",
          {"punctuationBlock", "punctuationCollectEntry", "punctuationHeading",
           "punctuationMapping", "punctuationSequence"})
    @@ Children("punctuationBlock", {"punctuationBlockFolded", "punctuationBlockLiteral"})
    @@ Children("punctuationMapping",
          {"punctuationMappingEnd", "punctuationMappingStart", "punctuationMappingValue"})
    @@ Children("punctuationSequence",
          {"punctuationSequenceEnd", "punctuationSequenceEntry", "punctuationSequenceStart"})

\* getParent.
getParent(s) == IF s \in DOMAIN styleParent THEN styleParent[s] ELSE "text"

\* NewStyles: every style is the nearest one set at it or above it.
NewStyles(base, sets) ==
    LET overrides == sets @@ ("text" :> base)
        resolve[s \in TokenStyles \cup LineStyles \cup Highlights \cup DOMAIN styleParent
                      \cup {"generic", "literal", "name", "punctuation"}] ==
            IF s \in DOMAIN overrides THEN overrides[s] ELSE resolve[getParent(s)]
    IN  [s \in TokenStyles \cup LineStyles \cup Highlights |-> resolve[s]]

\* lipgloss: percent of full white more, or of itself less, in each byte.
Lighten(color, percent) ==
    [i \in 1 .. 3 |-> LET c == (100 * color[i] + 255 * percent) \div 100
                      IN  IF c > 255 THEN 255 ELSE c]
Darken(color, percent) == [i \in 1 .. 3 |-> (color[i] * (100 - percent)) \div 100]

\* The highlights of a theme for dark, and for light terminals.
Brighter(color) ==
    [genericHighlightDim |-> Lighten(color, 15), genericHighlight |-> Lighten(color, 30)]
Darker(color) ==
    [genericHighlightDim |-> Darken(color, 15), genericHighlight |-> Darken(color, 30)]

Lightened(bg, sets) == NewStyles(bg, Brighter(bg) @@ sets)
Darkened(bg, sets) == NewStyles(bg, Darker(bg) @@ sets)

-----------------------------------------------------------------------------
(* The themes.                                                             *)

Abap == Darkened(<<255, 255, 255>>, <<>>)
Algol == Darkened(<<255, 255, 255>>, <<>>)
AlgolNu == Darkened(<<255, 255, 255>>, <<>>)
Arduino == Darkened(<<255, 255, 255>>, <<>>)
Ashen == Lightened(<<18, 18, 18>>, <<>>)
AuraThemeDark == Lightened(<<21, 20, 27>>, <<>>)
AuraThemeDarkSoft == Lightened(<<21, 20, 27>>, <<>>)
Autumn == Darkened(<<255, 255, 255>>, <<>>)
Average == Lightened(<<0, 0, 0>>, <<>>)
Base16Snazzy == Lightened(<<40, 42, 54>>, <<>>)
Borland == Darkened(<<255, 255, 255>>,
    [genericInserted |-> <<221, 255, 221>>, genericDeleted |-> <<255, 221, 221>>])
Bw == Darkened(<<255, 255, 255>>, <<>>)
CatppuccinFrappe == Lightened(<<48, 52, 70>>,
    [genericInserted |-> <<65, 69, 89>>, genericDeleted |-> <<65, 69, 89>>])
CatppuccinLatte == Darkened(<<239, 241, 245>>,
    [genericInserted |-> <<204, 208, 218>>, genericDeleted |-> <<204, 208, 218>>])
CatppuccinMacchiato == Lightened(<<36, 39, 58>>,
    [genericInserted |-> <<54, 58, 79>>, genericDeleted |-> <<54, 58, 79>>])
CatppuccinMocha == Lightened(<<30, 30, 46>>,
    [genericInserted |-> <<49, 50, 68>>, genericDeleted |-> <<49, 50, 68>>])
Charm ==
    NewStyles(<<"Pepper">>,
        [genericHighlightDim |-> <<"Iron">>, genericHighlight |-> <<"Smoke">>,
         genericInserted |-> <<"Spinach">>, genericDeleted |-> <<"Toast">>,
         genericError |-> <<"Sriracha">>])
Colorful == Darkened(<<255, 255, 255>>, [literalString |-> <<255, 240, 240>>])
DoomOne == Lightened(<<40, 44, 52>>, <<>>)
DoomOne2 == Lightened(<<40, 44, 52>>, <<>>)
\* A theme whose dim highlight is left to inherit the bright one.
DraculaUndimmed == NewStyles(<<40, 42, 54>>, [genericHighlight |-> Lighten(<<40, 42, 54>>, 30)])

\* dracula.go.
Dracula == Lightened(<<40, 42, 54>>, <<>>)

Emacs == Darkened(<<248, 248, 248>>, <<>>)
Evergarden == Lightened(<<37, 43, 46>>,
    [genericInserted |-> <<178, 201, 143>>, genericDeleted |-> <<230, 126, 128>>,
      genericError |-> <<230, 126, 128>>])
Friendly == Darkened(<<240, 240, 240>>, <<>>)
Fruity == Lightened(<<17, 17, 17>>, [comment |-> <<15, 20, 15>>])
Github == Darkened(<<247, 247, 247>>,
    [genericInserted |-> <<218, 251, 225>>, genericDeleted |-> <<255, 235, 233>>])
GithubDark == Lightened(<<13, 17, 23>>,
    [genericInserted |-> <<15, 83, 35>>, genericDeleted |-> <<73, 2, 2>>])
Gruvbox == Lightened(<<40, 40, 40>>,
    [genericInserted |-> <<184, 187, 38>>, genericDeleted |-> <<251, 73, 52>>,
      genericError |-> <<251, 73, 52>>])
GruvboxLight == Darkened(<<251, 241, 199>>,
    [genericInserted |-> <<121, 116, 14>>, genericDeleted |-> <<157, 0, 6>>,
      genericError |-> <<157, 0, 6>>])
HrHighContrast == Lightened(<<0, 0, 0>>, <<>>)
Hrdark == Lightened(<<29, 36, 50>>, <<>>)
Igor == Darkened(<<255, 255, 255>>, <<>>)
KanagawaDragon == Lightened(<<24, 22, 22>>,
    [genericInserted |-> <<43, 51, 40>>, genericDeleted |-> <<67, 36, 43>>])
KanagawaLotus == Darkened(<<242, 236, 188>>,
    [genericInserted |-> <<183, 208, 174>>, genericDeleted |-> <<217, 165, 148>>])
KanagawaWave == Lightened(<<31, 31, 40>>,
    [genericInserted |-> <<43, 51, 40>>, genericDeleted |-> <<67, 36, 43>>])
Lovelace == Darkened(<<255, 255, 255>>, <<>>)
Manni == Darkened(<<240, 243, 243>>,
    [genericInserted |-> <<204, 255, 204>>, genericDeleted |-> <<255, 204, 204>>])
ModusOperandi == Darkened(<<255, 255, 255>>, <<>>)
ModusVivendi == Lightened(<<0, 0, 0>>, <<>>)
Monokai == Lightened(<<39, 40, 34>>, [genericError |-> <<30, 0, 16>>])
Monokailight == Darkened(<<250, 250, 250>>, [genericError |-> <<30, 0, 16>>])
Murphy == Darkened(<<255, 255, 255>>, [literalString |-> <<224, 224, 255>>])
Native == Lightened(<<32, 32, 32>>, <<>>)
Nord == Lightened(<<46, 52, 64>>, <<>>)
Nordic == Lightened(<<36, 41, 51>>, <<>>)
Onedark == Lightened(<<40, 44, 52>>, <<>>)
Onesenterprise == NewStyles(<<>>, Darker(<<255, 255, 255>>))
ParaisoDark == Lightened(<<47, 30, 46>>, <<>>)
ParaisoLight == Darkened(<<231, 233, 219>>, <<>>)
Pastie == Darkened(<<255, 255, 255>>,
    [genericInserted |-> <<221, 255, 221>>,
      genericDeleted |-> <<255, 221, 221>>, literalString |-> <<255, 240, 240>>])
Perldoc == Darkened(<<238, 238, 221>>, <<>>)
Pygments == NewStyles(<<>>, Darker(<<255, 255, 255>>))
RainbowDash == Darkened(<<255, 255, 255>>,
    [genericInserted |-> <<204, 255, 204>>, genericDeleted |-> <<255, 204, 204>>])
RosePine == Lightened(<<25, 23, 36>>, <<>>)
RosePineDawn == Darkened(<<250, 244, 237>>, <<>>)
RosePineMoon == Lightened(<<35, 33, 54>>, <<>>)
Rpgle == Darkened(<<250, 250, 250>>, [genericError |-> <<30, 0, 16>>])
Rrt == Lightened(<<0, 0, 0>>, <<>>)
SolarizedDark == Lightened(<<0, 43, 54>>, <<>>)
SolarizedDark256 == Lightened(<<28, 28, 28>>, <<>>)
SolarizedLight == Darkened(<<238, 232, 213>>, <<>>)
Swapoff == Lightened(<<0, 0, 0>>, <<>>)
Tango == Darkened(<<248, 248, 248>>, <<>>)
TokyonightDay == Darkened(<<225, 226, 231>>,
    [genericInserted |-> <<233, 233, 237>>, genericDeleted |-> <<233, 233, 237>>])
TokyonightMoon == Lightened(<<34, 36, 54>>,
    [genericInserted |-> <<27, 29, 43>>, genericDeleted |-> <<27, 29, 43>>])
TokyonightNight == Lightened(<<26, 27, 38>>,
    [genericInserted |-> <<21, 22, 30>>, genericDeleted |-> <<21, 22, 30>>])
TokyonightStorm == Lightened(<<26, 27, 38>>,
    [genericInserted |-> <<21, 22, 30>>, genericDeleted |-> <<21, 22, 30>>])
Trac == Darkened(<<255, 255, 255>>,
    [genericInserted |-> <<221, 255, 221>>, genericDeleted |-> <<255, 221, 221>>])
Vim == Lightened(<<0, 0, 0>>, <<>>)
Vs == Darkened(<<255, 255, 255>>, <<>>)
Vulcan == Lightened(<<40, 44, 52>>, [literalBoolean |-> <<67, 69, 79>>])
Witchhazel == Lightened(<<67, 62, 86>>, [genericError |-> <<30, 0, 16>>])
Xcode == Darkened(<<255, 255, 255>>, <<>>)
XcodeDark == Lightened(<<31, 31, 36>>, <<>>)

-----------------------------------------------------------------------------
(* The table of the themes, in the order of their names.                   *)

Light == "light"
Dark == "dark"

themes ==
   <<<<Abap, "abap", Light>>, <<Algol, "algol", Light>>, <<AlgolNu, "algol-nu", Light>>,
    <<Arduino, "arduino", Light>>, <<Ashen, "ashen", Dark>>,
    <<AuraThemeDark, "aura-theme-dark", Dark>>,
    <<AuraThemeDarkSoft, "aura-theme-dark-soft", Dark>>, <<Autumn, "autumn", Light>>,
    <<Average, "average", Dark>>, <<Base16Snazzy, "base16-snazzy", Dark>>,
    <<Borland, "borland", Light>>, <<Bw, "bw", Light>>,
    <<CatppuccinFrappe, "catppuccin-frappe", Dark>>,
    <<CatppuccinLatte, "catppuccin-latte", Light>>,
    <<CatppuccinMacchiato, "catppuccin-macchiato", Dark>>,
    <<CatppuccinMocha, "catppuccin-mocha", Dark>>, <<Charm, "charm", Dark>>,
    <<Colorful, "colorful", Light>>, <<DoomOne, "doom-one", Dark>>,
    <<DoomOne2, "doom-one2", Dark>>, <<Dracula, "dracula", Dark>>, <<Emacs, "emacs", Light>>,
    <<Evergarden, "evergarden", Dark>>, <<Friendly, "friendly", Light>>,
    <<Fruity, "fruity", Dark>>, <<Github, "github", Light>>,
    <<GithubDark, "github-dark", Dark>>, <<Gruvbox, "gruvbox", Dark>>,
    <<GruvboxLight, "gruvbox-light", Light>>, <<HrHighContrast, "hr-high-contrast", Dark>>,
    <<Hrdark, "hrdark", Dark>>, <<Igor, "igor", Light>>,
    <<KanagawaDragon, "kanagawa-dragon", Dark>>, <<KanagawaLotus, "kanagawa-lotus", Light>>,
    <<KanagawaWave, "kanagawa-wave", Dark>>, <<Lovelace, "lovelace", Light>>,
    <<Manni, "manni", Light>>, <<ModusOperandi, "modus-operandi", Light>>,
    <<ModusVivendi, "modus-vivendi", Dark>>, <<Monokai, "monokai", Dark>>,
    <<Monokailight, "monokailight", Light>>, <<Murphy, "murphy", Light>>,
    <<Native, "native", Dark>>, <<Nord, "nord", Dark>>, <<Nordic, "nordic", Dark>>,
    <<Onedark, "onedark", Dark>>, <<Onesenterprise, "onesenterprise", Light>>,
    <<ParaisoDark, "paraiso-dark", Dark>>, <<ParaisoLight, "paraiso-light", Light>>,
    <<Pastie, "pastie", Light>>, <<Perldoc, "perldoc", Light>>, <<Pygments, "pygments", Light>>,
    <<RainbowDash, "rainbow-dash", Light>>, <<RosePine, "rose-pine", Dark>>,
    <<RosePineDawn, "rose-pine-dawn", Light>>, <<RosePineMoon, "rose-pine-moon", Dark>>,
    <<Rpgle, "rpgle", Light>>, <<Rrt, "rrt", Dark>>, <<SolarizedDark, "solarized-dark", Dark>>,
    <<SolarizedDark256, "solarized-dark256", Dark>>,
    <<SolarizedLight, "solarized-light", Light>>, <<Swapoff, "swapoff", Dark>>,
    <<Tango, "tango", Light>>, <<TokyonightDay, "tokyonight-day", Light>>,
    <<TokyonightMoon, "tokyonight-moon", Dark>>, <<TokyonightNight, "tokyonight-night", Dark>>,
    <<TokyonightStorm, "tokyonight-storm", Dark>>, <<Trac, "trac", Light>>,
    <<Vim, "vim", Dark>>, <<Vs, "vs", Light>>, <<Vulcan, "vulcan", Dark>>,
    <<Witchhazel, "witchhazel", Dark>>, <<Xcode, "xcode", Light>>,
    <<XcodeDark, "xcode-dark", Dark>>>>

\* List, of a program that has registered no theme of its own.
List(mode) ==
    LET chosen == SelectSeq(themes, LAMBDA t : t[3] = mode)
    IN  [i \in DOMAIN chosen |-> chosen[i][2]]

\* Styles, likewise.
Styles(name) == (CHOOSE t \in {themes[i] : i \in DOMAIN themes} : t[2] = name)[1]

-----------------------------------------------------------------------------
(* A highlight over a token, and over a line of a diff.                    *)

\* Override and Blend; a mix is known by the colours mixed.
Override(base, overlay) == IF overlay = NoColor THEN base ELSE overlay
Blend(base, overlay) == {base, overlay} \ {NoColor}

\* computeStyleForPoint: a token under a highlight takes its colour, a line of a
\* diff mixes its own with it.
Backgrounds(styles, s) ==
    IF s \in LineStyles
    THEN <<Blend(styles[s], NoColor), Blend(styles[s], styles["genericHighlightDim"]),
           Blend(styles[s], styles["genericHighlight"])>>
    ELSE <<styles[s], Override(styles[s], styles["genericHighlightDim"]),
           Override(styles[s], styles["genericHighlight"])>>

\* Text, another match and the current match have three backgrounds, whatever the
\* token and whatever the line.
TellsApart(styles) ==
    \A s \in TokenStyles \cup LineStyles :
        \A i, j \in 1 .. 3 : i # j => Backgrounds(styles, s)[i] # Backgrounds(styles, s)[j]

\* The names of the themes that do.
Clear == {t[2] : t \in {themes[i] : i \in {j \in DOMAIN themes : TellsApart(themes[j][1])}}}
=============================================================================
