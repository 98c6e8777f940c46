------------------------------ MODULE MCKernels ------------------------------
EXTENDS KernelLoops

\* Names that begin with another name.
MCPath(name) ==
  CASE name = "less_equal" -> <<"less", "_equal">>
    [] name = "greater_equal" -> <<"greater", "_equal">>
    [] name = "equaln" -> <<"equal", "n">>
    [] name \in {"exp2", "expm1"} -> <<"exp", name>>
    [] name \in {"log2", "log10", "log1p", "logb"} -> <<"log", name>>
    [] name \in {"sinh", "cosh", "tanh", "asinh", "acosh", "atanh", "erfc"} ->
         <<CASE name = "sinh" -> "sin" [] name = "cosh" -> "cos" [] name = "tanh" -> "tan" [] name = "erfc" -> "erf"
             [] name = "asinh" -> "asin" [] name = "acosh" -> "acos" [] OTHER -> "atan", "h">>
    [] name = "f?" -> <<"f", "?">>
    [] name = "f2" -> <<"f", "2">>
    [] OTHER -> <<name>>

\* Functions of one operand are called with outputs of any dtype.
MCOutDtypes(name) ==
  {"none"} \union IF name \in {"copy", "abs", "invert", "negative", "exp", "fabs", "reduce_add"} THEN Dtypes
                 ELSE {"b", "i16", "f32", "c64"}

MCOptional == [1..1 -> BOOLEAN] \union [1..2 -> BOOLEAN]
\* C order, backwards, every row the same, Fortran order.
MCLayouts == {View(0, <<2, 1>>), View(3, <<-2, -1>>), View(0, <<0, 1>>), View(0, <<1, 2>>)}
MCShapes == {<<2, 2>>, <<1, 9>>, <<2, 1>>}
MCBases == {-128, -3, -1, 0, 2, 127}
MCExponents == {-3, -1, 0, 1, 2, 7, 127}
=============================================================================
