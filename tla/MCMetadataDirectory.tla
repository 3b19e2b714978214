------------------------ MODULE MCMetadataDirectory ------------------------
(* MetadataDirectory with a part of the tree of server.New. *)
EXTENDS MetadataDirectory

MCPrefix == <<"computeMetadata", "v1">>
Under(path) == MCPrefix \o path
Account == <<"service-accounts", "$service_account">>

Reg(kind, path) == [kind |-> kind, path |-> Under(path)]

\* Registrations of New, one for each way to conflict with them, and a parameter
\* below a parameter.
MCRegistrations ==
    {Reg("meta", <<"name">>), Reg("lister", Account), Reg("meta", Account \o <<"email">>),
     Reg("token", Account \o <<"token">>),
     Reg("lister", Account \o <<"keys", "$key">>),
     Reg("meta", <<"service-accounts">>), Reg("meta", <<"service-accounts", "default">>),
     Reg("lister", <<"service-accounts", "$account">>), Reg("lister", <<"name">>),
     [kind |-> "meta", path |-> <<>>]}

Paths ==
    {<<"">>, <<"">> \o Under(<<"name">>), <<"computeMetadata", "v2">>}
    \cup {Under(p) : p \in {<<"">>, <<"name">>, <<"name", "more">>, <<"service-accounts">>,
                            <<"service-accounts", "">>,
                            <<"service-accounts", "default">>,
                            <<"service-accounts", "other", "">>,
                            <<"service-accounts", "default", "email">>,
                            <<"service-accounts", "default", "token">>,
                            <<"service-accounts", "default", "none">>,
                            <<"service-accounts", "default", "keys", "a">>}}
MCRequests == [segments : Paths, flavor : BOOLEAN, recursive : BOOLEAN]

MCListings == {<<"default", "a">>, <<"default", "other">>}
=============================================================================
