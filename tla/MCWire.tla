------------------------------- MODULE MCWire -------------------------------
(* Small instances of Wire for TLC. *)
EXTENDS Wire, TLC

(* A plain key, one that looks like the base64 of another, keys with bytes *)
(* the line cannot hold, and keys too long as they are or once encoded.    *)
Plain  == <<"a">>
Alike  == <<"Y", "S", "A", "=">>
Spacy  == <<"a", Sp>>
Broken == <<"a", Lf>>
Long   == <<"a", "a", "a", "a", "a">>
Wide   == <<Sp, "a", "a", "a">>

RealBase64 == (Spacy :> Alike) @@ (Broken :> <<"Y", "Q", "o", "=">>)
              @@ (Wide :> <<"I", "G", "F", "h", "Y", "Q", "=", "=">>)

Digits == <<"0", "1", "2", "3", "4">>

(* Values that look like responses and like commands. *)
Stored == {<<>>, <<"HD", Cr, Lf>>, <<Lf>>, <<"a", "a", "a", "a">>}
Mimic  == <<"mn", Cr, Lf>>

Cmd(op, key, fl) == [op |-> op, key |-> key, flags |-> fl, hasValue |-> FALSE, value |-> <<>>]

Put(key, v, fl) == [Cmd("ms", key, fl) EXCEPT !.hasValue = TRUE, !.value = v]

SmallRequests ==
    {Cmd("mg", k, << <<"v">>, <<"k">> >>) : k \in {Plain, Alike, Spacy, Broken, Long, Wide, <<>>}}
    \cup {Cmd("mg", Alike, << <<"b">>, <<"k">> >>), Cmd("mg", Spacy, << <<"b">>, <<"k">> >>),
          Cmd("md", Broken, << <<"k">> >>), Cmd("md", Plain, << <<"q">> >>),
          Cmd("md", Plain, << <<"k", Lf>> >>), Cmd("md", Plain, << <<>> >>),
          Cmd("ms", Plain, <<>>), Cmd("me", Spacy, <<>>), Cmd("me", Plain, <<>>),
          Cmd("me", Alike, << <<"b">> >>),
          Cmd("mn", <<>>, <<>>)}
    \cup {Put(Spacy, Mimic, <<>>), Put(Plain, <<Lf>>, << <<"k">> >>),
          Put(Plain, <<"a", "a", "a", "a">>, <<>>)}
=============================================================================
