---------------------------- MODULE MCTlsAdmission ----------------------------
(***************************************************************************)
(* A small instance of TlsAdmission: two client certificates, two issuers  *)
(* in the canonical chain, a cross-signed variant of the second, the root  *)
(* behind the second, and a certificate of nobody.                         *)
(***************************************************************************)
EXTENDS TlsAdmission, TLC

CONSTANTS leafA, leafB, ca, root, old, crossed, stray, r1, r2, p1, p2

MCCerts == {leafA, leafB, ca, root, old, crossed, stray}

MCSubject ==
  leafA :> "a" @@ leafB :> "b" @@ ca :> "ca" @@ root :> "root" @@ old :> "old" @@ crossed :> "root" @@ stray :> "stray"

MCIssuer ==
  leafA :> "ca" @@ leafB :> "ca" @@ ca :> "root" @@ root :> "old" @@ old :> "old" @@ crossed :> "other" @@ stray :> "stray"

MCCanonicalChain == <<ca, root>>

MCPresentations ==
  {None, <<>>, <<leafA>>, <<leafA, ca, root>>, <<leafB, ca, root>>, <<leafA, ca, crossed>>,
   <<leafA, ca>>, <<leafA, stray, ca, root>>, <<leafA, ca, root, stray>>, <<leafA, ca, root, old>>,
   <<leafA, root, ca>>, <<ca, leafA, root>>, <<stray>>}

MCUser(clid, password, cert) == [clid |-> clid, password |-> password, cert |-> cert]

\* Each with a certificate, one with, one shared, none.
MCUserLists ==
  {<<MCUser(r1, p1, leafA), MCUser(r2, p2, leafB)>>, <<MCUser(r1, p1, leafA), MCUser(r2, p2, None)>>,
   <<MCUser(r1, p1, leafA), MCUser(r2, p2, leafA)>>, <<MCUser(r1, p1, None), MCUser(r2, p2, None)>>}

\* The plaintext listener of the dashboard and the production listener, with the
\* certificates of EPP_TLS_CA or, without it, Node's own roots in the store.
MCSettings ==
  [tls : {FALSE}, exitOnError : {FALSE}, trustCertVariations : {TRUE},
   requireCert : {TRUE}, store : {{}}, users : MCUserLists]
  \cup
  [tls : {TRUE}, exitOnError : {TRUE}, trustCertVariations : BOOLEAN,
   requireCert : BOOLEAN, store : {{}, {ca, root}, {root, old}}, users : MCUserLists]
===============================================================================
