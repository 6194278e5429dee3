------------------------------ MODULE ScriptChecks ------------------------------
(***************************************************************************)
(* The two readings of a generated script: the static check that refuses   *)
(* it (validation/static_check.py) and the diagnostics that explain a      *)
(* failed attempt to its repair (validation/script_diagnostics.py).  The   *)
(* code writes the same rules twice, over the same syntax tree; here each  *)
(* reading is an operator of its own, and only what is the same text in    *)
(* both files is shared.                                                   *)
(*                                                                         *)
(* A script is what the rules look at: whether it parses, whether a class  *)
(* extends a Scene, the packages it imports, and its statements, each an   *)
(* expression that may be bound to a name.                                 *)
(***************************************************************************)
EXTENDS Integers, Sequences, FiniteSets

\* Expressions.  A text is one of three: a bare control sequence, a mathematical
\* label, or words; a path is what is applied to a name, outermost first.
Text(value) == [kind |-> "text", value |-> value]
Name(id) == [kind |-> "name", id |-> id]
Path(steps) == [kind |-> "path", steps |-> steps]
FunctionCall(name, args, keywords) ==
    [kind |-> "call", name |-> name, method |-> FALSE, on |-> "nothing", animate |-> FALSE,
     args |-> args, keywords |-> keywords]
MethodCall(on, name, args) ==
    [kind |-> "call", name |-> name, method |-> TRUE, on |-> on, animate |-> on = "animate",
     args |-> args, keywords |-> {}]
Statement(target, value) == [target |-> target, value |-> value]

When(condition, code) == IF condition THEN {code} ELSE {}
Elements(s) == {s[i] : i \in DOMAIN s}
CallsAmong(expressions) == {e \in expressions : e.kind = "call"}

\* ast.walk: a call and the calls in its arguments, down to the third level.
CallsOf(script) ==
    LET walk[d \in 0 .. 2] ==
          IF d = 0 THEN CallsAmong({s.value : s \in script.statements})
          ELSE CallsAmong(UNION {Elements(c.args) : c \in walk[d - 1]})
    IN UNION {walk[d] : d \in 0 .. 2}

UsesLatex(script) ==
    script.parses /\ \E c \in CallsOf(script) : c.name \in {"MathTex", "Tex", "SingleStringMathTex"}

-----------------------------------------------------------------------------
(* What both files say in the same words.                                  *)

DiagonalCorners == {"get_bottom_right", "get_bottom_left", "get_top_right", "get_top_left"}
PlainMethods == {"set_color", "align_to", "arrange", "flip", "move_to", "next_to", "rotate",
                 "scale", "shift", "stretch", "to_corner", "to_edge"}

\* A subscript by a number or a slice, reached through attributes, other subscripts
\* and calls of copy() only.
NumericSubscript(e) ==
    /\ e.kind = "path"
    /\ \E i \in DOMAIN e.steps :
          e.steps[i] = "number" /\ \A j \in 1 .. i - 1 : e.steps[j] \in {"copy", "attribute", "key"}

\* An argument of play that changes an object and animates nothing.
PlainOperation(e) ==
    /\ e.kind = "call" /\ ~e.animate
    /\ IF e.method THEN e.name \in PlainMethods ELSE e.name = "SurroundingRectangle"

TextsOf(call) == SelectSeq(call.args, LAMBDA e : e.kind = "text")
IsMath(text) == text.value \in {"control sequence", "label"}
IsBare(text) == text.value = "control sequence"

-----------------------------------------------------------------------------
(* The static check.                                                       *)

StaticFirstBare(call) == TextsOf(call) # << >> /\ IsBare(TextsOf(call)[1])
StaticSelects(e) == e.kind = "call" /\ e.name = "get_part_by_tex" /\ e.method

\* _bare_tex_fragment_aliases: the static check looks at every text of the selector.
StaticAliases(script) ==
    {s.target : s \in {x \in script.statements :
        StaticSelects(x.value) /\ \E t \in Elements(TextsOf(x.value)) : IsBare(t)}}

StaticRules(call, aliases) ==
    LET first(P(_)) == Len(call.args) > 0 /\ P(call.args[1])
        highlighted(e) == \/ StaticSelects(e) /\ StaticFirstBare(e)
                          \/ e.kind = "name" /\ e.id \in aliases
    IN UNION {
        When(call.name \in {"eval", "exec"}, "forbidden_call"),
        When(call.name = "TransformMatchingTex" /\ first(NumericSubscript),
             "unsafe_transformmatchingtex_slice"),
        When(call.name = "play" /\ \E e \in Elements(call.args) : PlainOperation(e),
             "non_animation_play_argument"),
        When(call.name = "Tex" /\ \E t \in Elements(TextsOf(call)) : IsMath(t), "tex_math_label"),
        When(call.name = "set_backstroke" /\ "width" \in call.keywords,
             "set_backstroke_width_keyword"),
        When(call.name = "SurroundingRectangle" /\ first(highlighted), "unsafe_bare_tex_highlight"),
        When(call.name = "get_part_by_tex" /\ StaticFirstBare(call), "unsafe_bare_tex_selection"),
        When(call.name = "get_area_under_graph", "nonexistent_graph_area_getter"),
        When(call.name \in DiagonalCorners, "unsupported_diagonal_corner_getter"),
        When(call.name \in {"get_x_axis_labels", "get_y_axis_labels"},
             "nonexistent_axis_label_getter")}

\* StaticCheckValidator.validate.
StaticIssues(script) ==
    IF ~script.parses THEN {"syntax_error"}
    ELSE (UNION {StaticRules(c, StaticAliases(script)) : c \in CallsOf(script)})
           \cup When(script.imports \cap {"subprocess", "socket", "requests"} # {}, "forbidden_import")
           \cup When(~script.scene, "missing_scene")

-----------------------------------------------------------------------------
(* The diagnostics.                                                        *)

\* _extract_bare_tex_fragment: the diagnostics look at the first text only.
DiagnosedFragment(e) ==
    /\ e.kind = "call" /\ e.name = "get_part_by_tex" /\ e.method
    /\ TextsOf(e) # << >> /\ IsBare(TextsOf(e)[1])

\* The diagnostics without the names that stand for a fragment.
DirectTargetsOnly(script) == {}

DiagnosedAliases(script) ==
    {s.target : s \in {x \in script.statements : DiagnosedFragment(x.value)}}

DiagnosticRules(call, aliases) ==
    LET first(P(_)) == Len(call.args) > 0 /\ P(call.args[1])
        unsafe(e) == DiagnosedFragment(e) \/ (e.kind = "name" /\ e.id \in aliases)
    IN UNION {
        When(call.name \in {"get_v_line", "get_h_line"}
                /\ call.keywords \cap {"color", "opacity", "fill_opacity", "stroke_opacity"} # {},
             "unsupported_helper_kwargs"),
        When(call.method /\ call.on \in {"c2p", "coords_to_point", "point_from_proportion"},
             "coordinate_object_method_call"),
        When(call.name = "TransformMatchingTex" /\ first(NumericSubscript),
             "unsafe_transformmatchingtex_slice"),
        When(call.name = "play" /\ \E e \in Elements(call.args) : PlainOperation(e),
             "non_animation_play_argument"),
        When(call.name = "Tex" /\ \E t \in Elements(TextsOf(call)) : IsMath(t), "tex_math_label"),
        When(call.name = "set_backstroke" /\ "width" \in call.keywords,
             "set_backstroke_width_keyword"),
        When(call.name = "SurroundingRectangle" /\ first(unsafe), "unsafe_bare_tex_highlight"),
        When(call.name = "get_part_by_tex" /\ TextsOf(call) # << >> /\ IsBare(TextsOf(call)[1]),
             "unsafe_bare_tex_selection"),
        When(call.name \in {"get_x_axis_labels", "get_y_axis_labels"},
             "nonexistent_axis_label_getter"),
        When(call.name = "get_area_under_graph", "nonexistent_graph_area_getter"),
        When(call.name \in DiagonalCorners, "unsupported_diagonal_corner_getter")}

\* collect_script_diagnostics; duplicates are dropped, and nothing is said of a
\* script that does not parse.
Diagnostics(script) ==
    IF ~script.parses THEN {}
    ELSE (UNION {DiagnosticRules(c, DiagnosedAliases(script)) : c \in CallsOf(script)})
           \cup When(~script.scene, "missing_scene_subclass")
=============================================================================
