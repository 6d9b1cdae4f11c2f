---------------------------- MODULE MCChartView ----------------------------
(* A chart of three series with up to four rows, as the five data handlers get them. *)
EXTENDS ChartView

N(n) == [kind |-> "number", n |-> n * 720]
B    == [kind |-> "blank", n |-> 0]
Q    == [kind |-> "nan", n |-> 0]

Row(x, a, b) == [kind |-> "row", x |-> x, cells |-> <<a, b, a>>]
Skip == [kind |-> "comment", x |-> NaN, cells |-> <<<<B>>, <<B>>, <<B>>>>]
\* The lines are drawn through when the last value of the file is missing.
Connect(lines) == lines # <<>> /\ Last(lines).cells[2] \in {<<B>>, <<B, B>>, <<B, B, B>>}
File(k, l, f, z, lines) == [mode |-> [kind |-> k, log |-> l, wilson |-> z], fill |-> f, zero |-> z, connect |-> Connect(lines), lines |-> lines]

\* Plain values, one of them late, with a mean to take over gaps and a comment between the rows.
A == {<<N(1)>>, <<N(-2)>>, <<B>>, <<Q>>}
DefaultFiles ==
    {File("default", FALSE, k.fill, FALSE, <<Row(1, a, <<N(3)>>), Row(k.x, b, <<B>>), Row(3, <<k.y>>, <<N(3)>>)>>) :
        a \in A, b \in A, k \in {[fill |-> "off", x |-> 2, y |-> B], [fill |-> "inside", x |-> 1, y |-> N(1)],
                                [fill |-> "inside", x |-> 2, y |-> B]}}
    \cup {File("default", l, "off", TRUE, <<Row(2, a, <<N(0)>>), Skip, Row(4, b, <<N(1)>>), Row(1, <<B>>, <<B>>), Row(3, <<N(2)>>, <<N(2)>>)>>) :
            a \in A, b \in {<<N(-2)>>, <<B>>}, l \in BOOLEAN}
    \cup {File("default", FALSE, "all", FALSE, <<Row(1, <<B>>, a), Row(2, a, <<N(2)>>), Row(3, <<N(1)>>, b), Row(4, <<B>>, <<B>>)>>) :
            a \in A, b \in {<<N(1)>>, <<B>>}}
    \cup {File("default", FALSE, "off", z, <<>>) : z \in BOOLEAN}
    \cup {File("default", FALSE, "none", FALSE, <<Row(NaN, <<B>>, <<B>>), Row(1, <<N(0)>>, <<B>>)>>)}
E2 == {<<N(1), N(0)>>, <<N(2), N(1)>>, <<B, B>>}
ErrorFiles ==
    {File("errorBars", FALSE, "off", FALSE, <<Row(1, a, <<N(4), N(1)>>), Row(2, <<B, B>>, <<B, B>>), Row(4, c, <<N(4), N(1)>>)>>) :
        a \in E2, c \in E2}
C3 == {<<N(0), N(1), N(2)>>, <<N(-1), N(1), N(1)>>, <<B, B, B>>}
CustomFiles ==
    {File("customBars", FALSE, "off", FALSE,
          <<Row(1, a, <<N(1), N(1), N(1)>>), Row(2, b, <<B, B, B>>), Row(3, b, <<N(1), N(1), N(1)>>), Row(4, <<N(3), N(3), N(3)>>, <<B, B, B>>)>>) :
        a \in C3, b \in C3}
Of(num, den) == <<[kind |-> "number", n |-> num], [kind |-> "number", n |-> den]>>
F2 == {Of(1, 2), Of(0, 1), <<B, B>>}
\* Denominators of their own: a numerator that is missing, one that is no number.
Lone == {<<B, Of(0, 2)[2]>>, <<Q, Of(0, 2)[2]>>}
FractionFiles ==
    {File("fractions", FALSE, "off", FALSE, <<Row(1, a, Of(1, 1)), Row(2, b, Of(1, 1)), Row(3, a, <<B, B>>)>>) :
        a \in F2, b \in F2 \cup Lone}
    \cup {File("fractionBars", FALSE, "off", w, <<Row(1, a, Of(1, 1)), Row(2, b, Of(1, 2)), Row(3, <<B, B>>, <<B, B>>)>>) :
            a \in F2, b \in F2, w \in BOOLEAN}

MCFiles == DefaultFiles \cup ErrorFiles \cup CustomFiles \cup FractionFiles
MCWindows == {<<2, 3>>, <<5, 6>>}
MCRolls == {1, 2, Fraction}
MCColumns == 1..3
MCMice == {2, 5}
=============================================================================
