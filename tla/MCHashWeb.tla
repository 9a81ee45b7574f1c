------------------------------ MODULE MCHashWeb ------------------------------
(***************************************************************************)
(* HashWeb with three blobs: b1 has links to b2 and b3, and b2 to b1, one  *)
(* of them nested in an object and one after an attribute of the same      *)
(* name; the hash of b2 has a slash in its text.                           *)
(***************************************************************************)
EXTENDS HashWeb

CONSTANTS b1, b2, b3

MCBase64 == b1 :> <<"m1">> @@ b2 :> <<"m2", "x">> @@ b3 :> <<"m3">>

Attr(name, value) == [name |-> name, value |-> value]

MCAttributes ==
    [f \in {"json"} |->
        b1 :> << Attr("size", [type |-> "integer"]),
                 Attr("next", LinkValue(<<"main", "m2", "x">>)),
                 Attr("next", LinkValue(<<"main", "m3">>)),
                 Attr("in", Object(<<Attr("far", LinkValue(<<"", "other", "m3">>))>>)) >>
     @@ b2 :> << Attr("next", LinkValue(<<"other", "m1">>)) >>
     @@ b3 :> Error]

At(path) == [format |-> "json", path |-> path]
Address(link, attrs) == [link |-> link, attrs |-> attrs]

MCAddresses ==
    { Address(<<"main", "m1">>, <<At(<<"next">>)>>),
      Address(<<"", "other", "m1">>, <<At(<<"in", "far">>)>>),
      Address(<<"main", "m1">>, <<At(<<"next">>), At(<<"next">>), At(<<"in", "far">>)>>),
      Address(<<"main", "m2", "x">>, <<At(<<"next">>), At(<<"size">>)>>),
      Address(<<"main", "m1">>, <<At(<<"next", "far">>)>>),
      Address(<<"main", "m3">>, <<At(<<"next">>)>>),
      Address(<<"m1">>, <<At(<<"next">>)>>),
      Address(<<"else", "m1">>, <<At(<<"next">>)>>),
      Address(<<"main", "m1">>, <<[format |-> "none", path |-> <<"next">>]>>),
      Address(<<"main", "m1">>, <<[format |-> "json", path |-> Error]>>),
      Address(<<"main", "m1">>, Error) }
=============================================================================
