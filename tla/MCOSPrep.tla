------------------------------ MODULE MCOSPrep ------------------------------
(* OSPrep on an image like Oracle Linux 9's, with the plugin as el8, el9 and   *)
(* newer toolsets ship it.                                                     *)
EXTENDS OSPrep, TLC

MCEPELPackages == <<"oracle-epel-release">>
MCEnable == <<"codeready_builder", "developer_EPEL">>
MCDefines == "oracle-epel-release" :> {"developer_EPEL"}

Ships(files) == files @@ Empty
EL8 == Ships("annobin.so" :> Regular)
EL9 == Ships("gts-annobin.so.0.0.0" :> Regular)
Linked == Ships("annobin.so.0.0.0" :> Regular @@ "annobin.so" :> "annobin.so.0.0.0")
Dangling == Ships("gts-annobin.so.0.0.0" :> Regular @@ "annobin.so" :> "annobin.so.0.0.0")
MCLayouts == {EL8, EL9, Linked, Dangling}
=============================================================================
