---------------------------- MODULE MCTypeTable ----------------------------
(***************************************************************************)
(* Small packages for TypeTable, in three families: two nominals that name *)
(* each other in every way a type can, next to the functions that use      *)
(* them; the shapes of signatures, methods and statics; and paths, imports *)
(* and malformed definitions over a root with a child module.              *)
(***************************************************************************)
EXTENDS TypeTableChecks

Ty(kind, tag, is_mut, path, args) ==
    [kind |-> kind, tag |-> tag, is_mut |-> is_mut, path |-> path, args |-> args]
Prim(tag)    == Ty("Primitive", tag, FALSE, <<>>, <<>>)
Unit         == Ty("Unit", "", FALSE, <<>>, <<>>)
Never        == Ty("Never", "", FALSE, <<>>, <<>>)
Tuple(args)  == Ty("Tuple", "", FALSE, <<>>, args)
Ref(ty)      == Ty("Ref", "", FALSE, <<>>, <<ty>>)
MutRef(ty)   == Ty("Ref", "", TRUE, <<>>, <<ty>>)
Path(path)   == Ty("Path", "", FALSE, path, <<>>)
Generic(path, args) == Ty("Path", "", FALSE, path, args)

A == Path(<<"A">>)
B == Path(<<"B">>)
Me == Path(<<"Self">>)
I32 == Prim("I32")
Opt(ty) == Generic(<<"Option">>, <<ty>>)
Res(ok, err) == Generic(<<"Result">>, <<ok, err>>)

MCName == {"A", "B", "C", "m", "pkg"}

Sig(params, ret, body) == [params |-> params, ret |-> ret, body |-> body]
It(kind, name, variants, subject, signatures) ==
    [kind |-> kind, name |-> name, variants |-> variants, subject |-> subject, sigs |-> signatures]
Struct(name, fields) == It("Struct", name, <<fields>>, Unit, <<>>)
Enum(name, variants) == It("Enum", name, variants, Unit, <<>>)
Fn(name, params, ret, body) == It("Fn", name, <<>>, Unit, <<Sig(params, ret, body)>>)
Static(kind, ty) == It(kind, "C", <<>>, Unit, <<Sig(<<>>, ty, <<>>)>>)
Impl(subject, methods) == It("Impl", "C", <<>>, subject, methods)

\* A root with one child m.
Package(width, root, child, imports) ==
    [count   |-> 2, parent |-> [m \in 0 .. 1 |-> IF m = 0 THEN kNoModule ELSE 0],
     label   |-> [m \in 0 .. 1 |-> IF m = 0 THEN "" ELSE "m"],
     width   |-> width, items |-> [m \in 0 .. 1 |-> IF m = 0 THEN root ELSE child],
     imports |-> [m \in 0 .. 1 |-> IF m = 0 THEN imports ELSE <<>>]]

UpTo1(S) == {<<>>} \cup {<<x>> : x \in S}

-----------------------------------------------------------------------------
FieldTypes == {I32, A, B, Ref(A), MutRef(B), Tuple(<<A, B>>), Opt(B), Res(A, I32), Ref(Tuple(<<B>>))}

\* A is a struct or an enum with two payloads, B an enum with two variants or
\* a struct; the order of the items varies.
Nominals ==
    {Package(64, IF swap THEN <<a1, b1, fn>> ELSE <<fn, a1, b1>>, <<>>, <<>>) :
        swap \in BOOLEAN,
        a1 \in {Struct("A", <<x, I32>>) : x \in FieldTypes}
                   \cup {Enum("A", <<<<x>>, <<B, I32>>>>) : x \in FieldTypes},
        b1 \in {Enum("B", <<<<x>>, <<>>>>) : x \in FieldTypes} \cup {Struct("B", <<Ref(A), x>>) : x \in FieldTypes},
        fn \in {Fn("C", <<B>>, Opt(A), <<>>)}}

SignatureTypesOf ==
    {I32, Unit, Never, Prim("Usize"), Prim("I128"), A, Ref(A), MutRef(A), Me, Ref(Me), MutRef(Me),
     Tuple(<<A, I32>>), Opt(Tuple(<<I32>>)), Res(Unit, Ref(A)), Opt(Never), Ref(Tuple(<<I32>>)),
     Tuple(<<Opt(I32), I32>>)}

Signatures ==
    {Package(width, <<Struct("A", <<fld>>), Impl(A, <<Sig(<<x>>, y, <<z>>), Sig(<<>>, Me, <<>>)>>),
                      Fn("main", <<>>, y, <<>>), Static("Static", x), Static("Const", x)>>, <<>>, <<>>) :
        width \in {32, 64}, fld \in {I32, MutRef(I32)},
        x \in SignatureTypesOf, y \in SignatureTypesOf, z \in {I32, Me}}

PathTypes ==
    {Path(<<"A">>), Path(<<"B">>), Path(<<"C">>), Path(<<"m", "A">>), Path(<<"package", "A">>),
     Path(<<"self", "A">>), Path(<<"super", "A">>), Path(<<"C", "A">>), Path(<<"super", "m", "A">>),
     Path(<<"Self", "A">>), Path(<<"m", "Option">>), Generic(<<"A">>, <<I32>>), Generic(<<"Self">>, <<I32>>),
     Generic(<<"Option">>, <<>>), Generic(<<"Result">>, <<Path(<<"C">>), Path(<<"B">>)>>), Tuple(<<>>)}

Import(name, module, member) == [name |-> name, module |-> module, member |-> member]

Paths ==
    {Package(64, <<Struct(name, <<t>>), Impl(t, <<Sig(<<t>>, Unit, <<>>)>>)>>,
                 <<Fn("C", <<t>>, Unit, <<>>), Enum("A", <<>>), Struct("A", <<I32>>)>>, imports) :
        name \in {"A", "B", "Option"}, t \in PathTypes,
        imports \in UpTo1({Import("B", 1, "A"), Import("A", 1, "A"), Import("C", 1, "B")})
                        \cup {<<Import("C", 1, "C"), Import("C", 1, "A")>>}}

MCFamilies == {Nominals, Signatures, Paths}

\* All the expressions of the families, with their parts.
Whole == FieldTypes \cup SignatureTypesOf \cup PathTypes
MCTypeExpr == Whole \cup UNION {{t.args[k] : k \in 1 .. Len(t.args)} : t \in Whole}
                    \cup {I32, MutRef(I32), Opt(A), Opt(I32), Tuple(<<B>>), Tuple(<<I32>>)}
                    \cup UNION {{u.args[k] : k \in 1 .. Len(u.args)} : u \in {Opt(A), Tuple(<<B>>)}}

=============================================================================
