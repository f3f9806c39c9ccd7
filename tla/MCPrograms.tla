----------------------------- MODULE MCPrograms -----------------------------
(* Constants for checking Programs. *)
EXTENDS Programs

Entry(name, offset, length) ==
  [filename |-> name, terminated |-> TRUE, offset |-> offset, length |-> length]

Image(table, data) ==
  [entries |-> Len(table), table |-> table, data |-> data]

LongName(length) == [m \in 1 .. length |-> "A"]

MCNames == {<<"A">>, <<"B">>, <<"B", "B">>, LongName(19), LongName(20)}
MCNameLength == [name \in MCNames |-> Len(name)]

\* A picture of 12 bytes, two programs, and a name as long as a listing allows;
\* 9 + 4 * 72 bytes before the first.
MCDisk ==
  Image(<<Entry(<<"A">>, 297, 12), Entry(<<"B">>, 309, 4), Entry(<<"B", "B">>, 313, 5),
          Entry(LongName(19), 318, 1)>>,
        [m \in 1 .. 12 |-> "a"] \o (Magic \o <<"a">>) \o (Magic \o <<"a", "b">>) \o <<"a">>)

\* A name of 20 characters.
MCDiskLong == Image(<<Entry(LongName(20), 81, 4)>>, Magic \o <<"a">>)

\* Every line of up to three characters, and some for which there is no room.
Short == {"B", Delimiter, Escape}
MCLines ==
  UNION {[1 .. size -> Short] : size \in 0 .. 3}
    \cup {<<"A">>,
          <<"B", Delimiter, Delimiter, "A">>,
          <<"B", Delimiter, "A", Delimiter, "B">>,
          <<Escape, "B", Escape, Delimiter, "A">>,
          <<"B", Delimiter, Escape, "A", Delimiter>>,
          <<"B", "B">> \o <<Delimiter>> \o LongName(3),
          <<"B", Delimiter>> \o LongName(4) \o <<Delimiter, "A">>,
          <<"B", Delimiter, Escape, "A", Delimiter, "A", Escape, Delimiter, "B">>,
          <<"B", Delimiter, "A", Delimiter, Delimiter, "B">>,
          LongName(13)}
=============================================================================
