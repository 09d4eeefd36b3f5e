------------------------------- MODULE MCAddon ------------------------------
(***************************************************************************)
(* Small files for checking Addon.                                         *)
(***************************************************************************)
EXTENDS Addon

Named(letters) == [letters |-> letters, padded |-> FALSE]
Padded(letters) == [letters |-> letters, padded |-> TRUE]
Object(name, attributes) == [name |-> name, attributes |-> attributes]
Set(type, labels, objects) == [type |-> type, labels |-> labels, objects |-> objects, rows |-> <<>>]
Rows(set, names) == [set EXCEPT !.rows = [i \in DOMAIN names |-> [frame |-> names[i], coded |-> TRUE]]]

CONSTANT Text    \* a text
AllTexts == {Text}

Header(n) == Set("FILE-HEADER", <<"SEQUENCE-NUMBER">>, << Object(Named("h"), << <<n>> >>) >>)
HeaderID(n, id) == Set("FILE-HEADER", <<"SEQUENCE-NUMBER", "ID">>,
                       << Object(Named("h"), << <<n>>, <<id>> >>) >>)
Origin == Set("ORIGIN", <<"WELL-NAME">>, << Object(Named("o"), << <<>> >>) >>)
TwoOrigins == Set("ORIGIN", <<"WELL-NAME">>,
                  << Object(Named("o"), << <<Text>> >>), Object(Named("p"), << <<1>> >>) >>)
OriginOf(value) == Set("ORIGIN", <<"WELL-NAME">>, << Object(Named("o"), << <<value>> >>) >>)

Channel(name, dimension) == Object(name, << <<1>>, dimension >>)
Channels(objects) == Set("CHANNEL", <<"REPRESENTATION-CODE", "DIMENSION">>, objects)
X == Named("x")
Y == Named("y")
XY == Channels(<< Channel(X, <<1>>), Channel(Y, <<2, 3>>) >>)

\* Up: with an index; Down: read downwards, the index first in the template.
Up(names) == Set("FRAME", <<"CHANNELS", "INDEX-TYPE">>, << Object(Named("f"), <<names, <<1>> >>) >>)
F == Named("f")
G == Named("g")
Frames(frames) == Set("FRAME", <<"CHANNELS">>, [i \in DOMAIN frames |-> Object(frames[i], << <<X>> >>)])
Down(names) == Set("FRAME", <<"SPACING", "CHANNELS">>, << Object(Named("f"), << <<-1>>, names>>) >>)
Equipment == Set("EQUIPMENT", <<"STATUS">>,
                 << Object(Named("e"), << <<1>> >>), Object(Named("g"), << <<>> >>) >>)
Tool == Set("TOOL", <<"STATUS">>, << Object(Named("t"), << <<1>> >>) >>)
Zone == Set("ZONE", <<"DOMAIN">>, << Object(Named("z"), << <<1>> >>) >>)

\* The last attribute is not given.
Short(set) == [set EXCEPT !.objects[1].attributes = Front(@)]
\* An attribute that the template does not have.
Long(set) == [set EXCEPT !.objects[1].attributes = Append(@, <<1>>)]

AllFiles == [
  channels_first |-> <<HeaderID(1, Padded("i")), TwoOrigins, XY, Rows(Up(<<X, Y>>), <<F, F>>), Equipment, Tool, Zone>>,
  frame_first    |-> <<Header(1), Origin, Down(<<Y, X>>), XY>>,
  two_files      |-> <<HeaderID(1, X), Origin, XY, Rows(Frames(<<F, G>>), <<F>>), Header(2), Origin,
                       Up(<<X, Y>>), Rows(XY, <<F>>)>>,
  from_two       |-> <<Header(2), Origin, Up(<<Y>>), Channels(<< Channel(Y, <<>>) >>)>>,
  frame_short    |-> <<Header(1), Origin, XY, Short(Up(<<X, Y>>)), Equipment>>,
  two_short      |-> <<Header(1), Origin, XY, Short(Down(<<X>>)), Short(Up(<<Y>>))>>,
  last_short     |-> <<Header(1), Origin, Short(Up(<<X>>))>>,
  too_long       |-> <<Header(1), Long(Origin)>>,
  no_origin      |-> <<Header(1), Channels(<< Channel(X, <<1>>) >>)>>,
  origin_late    |-> <<Header(1), Header(2), TwoOrigins, XY, Up(<<X, Y>>)>>,
  no_header      |-> <<Origin, XY>>,
  padded_channel |-> <<Header(1), Origin, Channels(<< Channel(Padded("x"), <<1>>) >>), Up(<<Padded("x")>>)>>,
  between        |-> <<Header(1), Origin, Channels(<< Channel(X, <<1>>) >>), Up(<<X, Y>>),
                       Channels(<< Channel(Y, <<2>>) >>)>>,
  uncoded        |-> <<Header(1), Origin, Down(<<X>>), Short(Set("CHANNEL", <<"REPRESENTATION-CODE">>,
                                                       << Object(X, << <<>> >>) >>)), Equipment>>,
  small          |-> <<Header(1), Origin, Down(<<X>>), Channels(<< Channel(X, <<2>>) >>)>>,
  number_well    |-> <<Header(1), OriginOf(1)>>,
  ends           |-> <<Header(1), Origin, XY, Rows(Up(<<X>>), <<F, NoName, F>>)>>,
  after_end      |-> <<Header(1), Origin, XY, Rows(Frames(<<F, G>>), <<F, NoName>>), Rows(Up(<<X>>), <<F, G>>)>>,
  late_frame     |-> <<Header(1), Origin, XY, Rows(Frames(<<F, G>>), <<F>>), Rows(Up(<<X>>), <<F, G>>)>>,
  row_astray     |-> <<Header(1), Origin, XY, Rows(Up(<<X>>), <<G>>)>>,
  wrong_channel  |-> <<Header(1), Origin, [Up(<<X>>) EXCEPT !.rows = << [frame |-> F, coded |-> FALSE] >>]>>,
  wrong_value    |-> <<Header(1), OriginOf(WrongCode)>>,
  wide           |-> <<Header(1), Set("ZONE", <<"A", "B", "C">>, <<>>)>>,
  no_type        |-> <<Header(1), Set(NoType, <<>>, <<>>)>>,
  no_name        |-> <<Header(1), Set("ZONE", <<"A">>, << Object(NoName, << <<>> >>) >>)>>,
  smaller        |-> <<Header(1), Origin>>,
  header_only    |-> <<Header(1)>>
]

FrameNames == {F, G, Padded("f")}
AllRanges == [f \in DOMAIN AllFiles |-> [n \in FrameNames |-> [min |-> 3, max |-> 7]]]

\* One file; one after the other, in one process; calls that may overlap.
Alone == { [files |-> <<f>>, waits |-> TRUE] : f \in DOMAIN AllFiles \cup {"missing"} }
InTurn == { [files |-> fs, waits |-> TRUE] :
              fs \in {<<"channels_first", "two_files">>, <<"two_files", "frame_first">>,
                      <<"frame_short", "small">>, <<"last_short", "from_two">>} }
AtOnce == { [files |-> fs, waits |-> FALSE] :
              fs \in {<<"header_only", "smaller">>, <<"smaller", "header_only">>} }
AllScripts == Alone \cup InTurn \cup AtOnce
=============================================================================
