--------------------------- MODULE MCPropertyBoot ---------------------------
(* What the files may say: a few alternatives for each partition, all        *)
(* combinations of them.                                                     *)
EXTENDS PropertyBoot, TLC

S(k, v) == [op |-> "set", key |-> k, value |-> <<v>>]
Import(f, filter) == [op |-> "import", file |-> f, filter |-> filter]
Legacy(p, version) ==
  ("/" \o p \o "/default.prop") :> <<S("ro.x", p), S("ro.build.id", p)>>
    @@ ("/" \o p \o "/build.prop") :> version

SystemFiles ==
  LET base == <<S("ro.x", "system"), S("ro.product.system.brand", "system"),
                S("ro.system.product.cpu.abilist64", "64"), S("sys.powerctl", "reboot")>> IN
  {"/system/build.prop" :> (base \o more) :
     more \in {<<S("ro.build.legacy.id", "id")>>, <<S("ro.build.id", "id"), S("ro.debuggable", "1")>>,
               <<S("ro.build.fingerprint", "print"), S("ro.x", "again")>>}}

VendorPartition ==
  {None,
   "/vendor/build.prop" :> <<S("ro.x", "vendor"), S("ro.hardware", "vendor"),
                             S("ro.product.vendor.brand", "vendor"),
                             S("persist.sys.usb.config", "mtp"), S("ro.debuggable", "1")>>,
   "/vendor/build.prop" :> <<Import("/vendor/more.prop", {"ro.x"}), Import("/vendor/all.prop", {})>>
     @@ "/vendor/more.prop" :> <<S("ro.x", "more"), S("ro.product.vendor.brand", "more"),
                                 Import("/vendor/all.prop", {})>>
     @@ "/vendor/all.prop" :> <<S("ro.hardware", "all"), S("ro.debuggable", "maybe"), S("ro..y", "all")>>
     @@ "/vendor/default.prop" :> <<S("ro.vendor.product.cpu.abilist32", "32"), S("ro.x", "default")>>}

OdmPartition ==
  {"/odm/etc/build.prop" :> <<S("ro.x", "odm"), S("ro.product.odm.brand", "odm")>>,
   Legacy("odm", <<S("ro.odm.build.version.sdk", "28")>>),
   Legacy("odm", <<S("ro.odm.build.version.sdk", "29")>>),
   Legacy("odm", <<S("ro.odm.build.version.sdk", "S")>>),
   Legacy("odm", <<>>)}

ProductPartition ==
  {None,
   "/product/etc/build.prop" :>
     <<S("ro.product.brand", "product"), S("ro.product.cpu.abilist", "abi")>>,
   "/product/etc/build.prop" :>
     <<[op |-> "set", key |-> "ro.product.property_source_order", value |-> <<"vendor", "odm">>],
       S("ro.x", "product")>>,
   "/product/etc/build.prop" :>
     <<[op |-> "set", key |-> "ro.product.property_source_order", value |-> <<"vendor", "nowhere">>],
       S("ro.product.product.brand", "product"), S("ro.build.legacy.fingerprint", "legacy")>>}

MCContents ==
  {s @@ v @@ o @@ p @@ ("/debug_ramdisk/adb_debug.prop" :> <<S("ro.debuggable", "1")>>) :
     s \in SystemFiles, v \in VendorPartition, o \in OdmPartition, p \in ProductPartition}

MCKernels ==
  {[s \in {"dt", "cmdline", "bootconfig"} |->
      IF s = "dt" THEN d ELSE IF s = "cmdline" THEN c ELSE b] :
     d \in {None, "ro.boot.hardware" :> <<"dt">>},
     c \in {None, "ro.boot.hardware" :> <<"cmdline">> @@ "ro.boot.vbmeta.digest" :> <<"digest">>},
     b \in {"ro.boot.hardware" :> <<"bootconfig">> @@ "ro.boot.vbmeta.digest" :> <<"short">>,
            "ro.boot.serialno" :> <<"serial">>}}

MCContexts == {{"plat"}, {"plat", "vendor"}, {"vendor"}}
PlatKeys == {"ro.x", "ro.hardware", "ro.serialno", "ro.build.id", "ro.build.legacy.id", "ro.debuggable",
             "ro.build.fingerprint", "ro.build.legacy.fingerprint", "persist.sys.usb.config",
             "ro.product.brand", "ro.product.property_source_order", "ro.product.cpu.abilist",
             "ro.product.system.brand", "ro.product.product.brand", "ro.system.product.cpu.abilist64"}
VendorKeys == {"ro.product.vendor.brand", "ro.product.odm.brand", "ro.odm.build.version.sdk",
               "ro.vendor.product.cpu.abilist32"}
MCLabelledBy == [k \in PlatKeys \cup VendorKeys |-> IF k \in PlatKeys THEN "plat" ELSE "vendor"]
MCGranted ==
  ({"init"} \X (PlatKeys \cup VendorKeys \cup {"default_prop"}))
    \cup ({"vendor_init"} \X (VendorKeys \cup {"ro.x", "ro.hardware", "persist.sys.usb.config",
                                               "ro.build.id", "ro.debuggable"}))
MCIllegalNames == {"ro..y"}
MCMistyped == {<<"ro.debuggable", <<"maybe">>>>}
MCSdk == <<"28">> :> 28 @@ <<"29">> :> 29
=============================================================================
