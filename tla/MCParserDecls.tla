--------------------------- MODULE MCParserDecls ---------------------------
(***************************************************************************)
(* Inputs for Parser: the spellings of a set of declarations.              *)
(***************************************************************************)
EXTENDS MCParser

Types2 == LET t0 == {Named1("a"), Plain("TupleType", <<>>),
                     T("NamedType", <<"a", "::", "b">>, <<>>)}
              Over(t) == {Plain("ArrayType", <<t, Lit("1")>>),
                          Plain("TensorType", <<t, Lit("1"), Lit("0")>>),
                          Plain("TupleType", <<t, Named1("b")>>)}
          IN  t0 \cup UNION {Over(t) : t \in t0 \cup UNION {Over(t) : t \in t0}}

Doc == T("DocComment", <<"doc_comment">>, <<>>)
Field(regime, t) == R("StructField", regime, "x", <<t>>)
Generics == {<<>>, <<Plain("GenericParamList", <<T("GenericParam", <<"a">>, <<Absent>>),
                                               T("GenericParam", <<"b">>, <<Named1("S")>>)>>)>>}
Self == Short(R("Param", 1, "self", <<T("NamedType", <<"Self">>, <<>>)>>))
Methods(last) ==
    {R("FnDecl", NoRegime, "f", docs \o g \o <<Params(ps)>> \o ret \o <<last>>) :
        docs \in {<<>>, <<Doc>>}, g \in Generics, ret \in {<<>>, <<Named1("a")>>},
        ps \in {<<>>, <<Self>>, <<Self, R("Param", 0, "x", <<Named1("a")>>)>>}}

Members(t) ==
    {<<>>, <<Field(NoRegime, t)>>, <<Field(1, t), Field(2, Named1("a"))>>}
Variants(t) ==
    {<<R("EnumVariantUnit", NoRegime, "a", <<>>)>>,
     <<R("EnumVariantUnit", NoRegime, "a", <<Lit("1")>>),
       R("EnumVariantTuple", NoRegime, "b", <<t, t>>),
       R("EnumVariantStruct", NoRegime, "x", <<Field(0, t)>>)>>}

DeclsOver(t) ==
    {T(kind, <<"S">>, g \o m) : kind \in {"StructDecl", "UnionDecl"}, g \in Generics,
                                m \in Members(t)}
    \cup {T("EnumDecl", <<"S">>, g \o m) : g \in Generics, m \in Variants(t)}
    \cup {T("ConstDecl", <<"a">>, <<t, Lit("1")>>)}
    \cup {Plain("ImplDecl", g \o <<trait, t>>) : g \in Generics,
                                                 trait \in {Absent, Named1("S")}}

D1 == UNION {DeclsOver(t) : t \in Types2}
          \cup {T("UseDecl", u, <<>>) : u \in {<<"a">>, <<"a", "::", "b">>,
                    <<"a", "::", "*">>, <<"a", "::", "b", "as", "x">>}}
          \cup {T("ModDeclFile", <<"a">>, <<>>), T("ModDecl", <<"a">>, <<>>)}
          \cup Methods(BlockOf(<<>>))
          \cup {T("TraitDecl", <<"S">>, g \o <<m, m>>) : g \in Generics,
                                                         m \in Methods(Absent)}
          \cup {Plain("ImplDecl", <<Absent, Named1("S"), m, m>>) :
                    m \in Methods(BlockOf(<<>>))}

Marked(d) ==
    {d, [d EXCEPT !.flags = {"pub"}],
     [d EXCEPT !.kids = <<Doc, Doc>> \o SelectSeq(@, LAMBDA k : k # Doc)]}

DeclPrograms ==
    {File(<<d, FnG>>) : d \in UNION {Marked(d) : d \in D1}}
    \cup {File(<<T("FileDocComment", <<"file_doc_comment">>, <<>>),
                 T("ModDecl", <<"a">>, <<d, e>>)>>) :
              d \in D1, e \in {[FnG EXCEPT !.flags = {"pub", "unsafe"}]}}

MCDeclarations == {Spell(p) : p \in DeclPrograms}
=============================================================================
