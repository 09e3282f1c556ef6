------------------------------ MODULE MCDecode ------------------------------
(***************************************************************************)
(* Small inputs: up to three records of codes with two and four detectors, *)
(* codes no table is built for, inputs that load_input does not take, and  *)
(* artifacts extracted from small histograms.                              *)
(***************************************************************************)
EXTENDS DecodeSession

MCRequired == {"the others", "parent_receipt_id"}

Pattern(width, ones) == [width |-> width, binary |-> TRUE, ones |-> ones]

Records ==
  {Pattern(2, ones) : ones \in SUBSET (0..1)}
    \union
  {Pattern(4, ones) : ones \in {{0, 1}, {1, 2}, {1, 3}, 0..3}}
    \union
  {NotString, [width |-> 2, binary |-> FALSE, ones |-> {0}]}

Lists == UNION {[1..n -> Records] : n \in 0..3}

Sound ==
  [ form : {"object"}, fields : {MCRequired}, typed : {TRUE}, session : {2},
    parent : {"rcpt"}, distance : {3}, rounds : {1, 2}, shots : 1..3, records : Lists ]

ASound == [ form |-> "object", fields |-> MCRequired, typed |-> TRUE, session |-> 2,
            parent |-> "rcpt", distance |-> 3, rounds |-> 1, shots |-> 1,
            records |-> <<Pattern(2, {})>> ]

\* Even and too small distances, and one detector more than a table may have
\* (the run's MaxDetectorBits is 6).
NoTables ==
  { [ASound EXCEPT !.distance = c[1], !.rounds = c[2]] :
      c \in {<<1, 1>>, <<2, 2>>, <<4, 1>>, <<3, 4>>, <<5, 2>>, <<9, 1>>} }

Unloaded ==
  {[ASound EXCEPT !.form = f] : f \in Refused \union Unforeseen}
    \union
  { [ASound EXCEPT !.fields = {"the others"}], [ASound EXCEPT !.typed = FALSE],
    [ASound EXCEPT !.session = 0], [ASound EXCEPT !.session = 1],
    [ASound EXCEPT !.parent = Nil], [ASound EXCEPT !.rounds = 0],
    [ASound EXCEPT !.distance = 0], [ASound EXCEPT !.shots = 0],
    [ASound EXCEPT !.session = 1, !.parent = Nil] }

-----------------------------------------------------------------------------
(* Artifacts extracted from published sessions of three rounds.             *)

Data == <<0, 1, 1>>
Shot(first, second, third) == <<Data, first, second, third>>
Outcomes ==
  { Shot(<<0, 0>>, <<0, 0>>, <<0, 0>>), Shot(<<1, 0>>, <<0, 1>>, <<0, 0>>),
    Shot(<<0, 0>>, <<1, 0>>, <<1, 1>>), Shot(<<1>>, <<0, 0, 1>>, <<0, 1>>),
    <<<<0>>, <<0, 1>>, <<1, 1>>, <<0, 0>>>> }
Unusable == {<<Data, <<1, 0>>, <<0, 0>>>>, Shot(<<0, 0>>, <<0>>, <<0, 1>>),
             Shot(<<0, 0>>, <<1, Blot>>, <<0, 0>>)}

\* Up to two entries, in either order.
Entries(outcomes) == [outcome : outcomes, count : 0..2]
Histograms ==
  LET pairs == {h \in [1..2 -> Entries(Outcomes)] : h[1].outcome # h[2].outcome}
      spoilt == {<<h[1], e>> : h \in pairs, e \in Entries(Unusable)}
  IN  {<<>>} \union {<<e>> : e \in Entries(Outcomes)} \union pairs \union spoilt

Submitted == 30 * Hour

\* A file without the circuit, of other rounds than its records, and ages on
\* either side of a day.
MCPublished ==
  [ circuit : {TRUE}, rounds : {3}, counts : Histograms, submitted : {Submitted},
    calibrated : {Submitted - 24 * Hour, Submitted - 24 * Hour + 1} ]
    \union
  [ circuit : BOOLEAN, rounds : {2, 3},
    counts : {<<[outcome |-> Shot(<<0, 1>>, <<1, 1>>, <<0, 0>>), count |-> 1]>>},
    submitted : {Submitted}, calibrated : {Submitted, Submitted + 1} ]

MCPlaces == {<<1, Nil>>, <<2, "rcpt">>, <<1, "rcpt">>}

\* What is written to fixtures/.
Extracted == {InputOf(files, place) : files \in Buildables, place \in Places}

MCInputs == Sound \union NoTables \union Unloaded \union Extracted
=============================================================================
