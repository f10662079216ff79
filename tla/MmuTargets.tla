----------------------------- MODULE MmuTargets -----------------------------
(***************************************************************************)
(* What mmu.c can tell of the targets' caches and MMUs.  Of a cache:       *)
(*   invalidateAddr  it can invalidate a range of addresses                *)
(*   dirty           it holds data of PSRAM and can write it back          *)
(*   freezes         stub_target_cache_stop stops it (or only its autoload)*)
(* Of an MMU:                                                              *)
(*   sensitive       stub_target_mmu_write_entry marks entries that are to *)
(*                   be decrypted (elsewhere all reads of encrypted flash  *)
(*                   through the cache are decrypted)                      *)
(* The ESP8266 has neither; the weak defaults leave it no DROM entries and *)
(* every call is refused.                                                  *)
(***************************************************************************)

CacheTraits(invalidateAddr, dirty, freezes) ==
    [invalidateAddr |-> invalidateAddr, dirty |-> dirty, freezes |-> freezes]

MmuTraits(sensitive) == [sensitive |-> sensitive]

Esp32Cache == CacheTraits(FALSE, TRUE, TRUE)
Esp32s2Cache == CacheTraits(TRUE, TRUE, TRUE)
Esp32s3Cache == CacheTraits(TRUE, TRUE, TRUE)
Esp32c2Cache == CacheTraits(TRUE, FALSE, TRUE)
Esp32c3Cache == CacheTraits(TRUE, FALSE, TRUE)
Esp32c5Cache == CacheTraits(TRUE, TRUE, TRUE)
Esp32c6Cache == CacheTraits(TRUE, FALSE, TRUE)
Esp32c61Cache == CacheTraits(TRUE, TRUE, TRUE)
Esp32h2Cache == CacheTraits(TRUE, FALSE, TRUE)
Esp32h21Cache == CacheTraits(TRUE, FALSE, TRUE)
Esp32h4Cache == CacheTraits(TRUE, TRUE, TRUE)
Esp32p4Cache == CacheTraits(TRUE, TRUE, FALSE)
Esp32s31Cache == CacheTraits(TRUE, TRUE, TRUE)

Esp32Mmu == MmuTraits(FALSE)
Esp32s2Mmu == MmuTraits(FALSE)
Esp32s3Mmu == MmuTraits(FALSE)
Esp32c2Mmu == MmuTraits(FALSE)
Esp32c3Mmu == MmuTraits(FALSE)
Esp32c5Mmu == MmuTraits(TRUE)
Esp32c6Mmu == MmuTraits(TRUE)
Esp32c61Mmu == MmuTraits(TRUE)
Esp32h2Mmu == MmuTraits(TRUE)
Esp32h21Mmu == MmuTraits(TRUE)
Esp32h4Mmu == MmuTraits(TRUE)
Esp32p4Mmu == MmuTraits(TRUE)
Esp32s31Mmu == MmuTraits(TRUE)

Target(cache, mmu) == [cache |-> cache, mmu |-> mmu]

Targets ==
    {Target(Esp32Cache, Esp32Mmu), Target(Esp32s2Cache, Esp32s2Mmu),
     Target(Esp32s3Cache, Esp32s3Mmu), Target(Esp32c2Cache, Esp32c2Mmu),
     Target(Esp32c3Cache, Esp32c3Mmu), Target(Esp32c5Cache, Esp32c5Mmu),
     Target(Esp32c6Cache, Esp32c6Mmu), Target(Esp32c61Cache, Esp32c61Mmu),
     Target(Esp32h2Cache, Esp32h2Mmu), Target(Esp32h21Cache, Esp32h21Mmu),
     Target(Esp32h4Cache, Esp32h4Mmu), Target(Esp32p4Cache, Esp32p4Mmu),
     Target(Esp32s31Cache, Esp32s31Mmu)}
=============================================================================
