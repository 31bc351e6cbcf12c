--------------------------- MODULE MCPublication ---------------------------
(* Publication with two processes that publish to one destination: every   *)
(* family of files, and of the seven kinds of sidecars one with two files  *)
(* and one with three; the others differ in names only.                    *)
EXTENDS Publication

MCFamilies == {<<"run">>, <<"artifacts">>, <<"evaluation">>, <<"kit">>, <<"release">>,
               PublishSignedSidecars, PublishSignedPolicySidecars, PackageFiles, ToolFiles}

=============================================================================
