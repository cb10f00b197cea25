--------------------------- MODULE MC_PayloadTool ---------------------------
(* Instance of PayloadTool: configs of up to two generators, each a        *)
(* supported (tcp) or unsupported (http) transport, named a, b or nothing, *)
(* with a cache budget below the smallest block size, one that S = {2, 3}  *)
(* can or cannot cover exactly, 2^width (cast to zero) or 2^width + 4      *)
(* (cast to 4).  TLC's integers are 32-bit, so the cast target is narrowed *)
(* to 3 bits.                                                              *)
EXTENDS PayloadTool

CONSTANTS a, b, none, noarg

MCCastWidth == 3
MCIds == {a, b}
MCBudgets == {1, 4, 5, 2^MCCastWidth, 2^MCCastWidth + 4}
MCGeneratorConfigs ==
  [id : {a, none}, kind : {"tcp"}, cacheBytes : MCBudgets]
  \cup [id : {b}, kind : {"tcp", "http"}, cacheBytes : {5}]
=============================================================================
