-------------------------- MODULE SlaveSpiTargets --------------------------
(***************************************************************************)
(* How the targets' slave_spi.c differ:                                    *)
(*   engine  the SPI slave and the DMA engine report separately: RX_DONE   *)
(*           and TX_DONE end a transaction, IN_SUC_EOF and OUT_DONE the    *)
(*           engine's work; where the DMA is part of the SPI slave, RX_DONE*)
(*           and TX_DONE tell of both and are all there is to wait for     *)
(*   cached  the processor sees the buffers through a cache the DMA engine *)
(*           does not, and the driver keeps them coherent                  *)
(***************************************************************************)

SpiTraits(engine, cached) == [engine |-> engine, cached |-> cached]

Esp32s3Spi == SpiTraits(TRUE, FALSE)
Esp32c2Spi == SpiTraits(TRUE, FALSE)
Esp32c3Spi == SpiTraits(TRUE, FALSE)
Esp32s2Spi == SpiTraits(FALSE, FALSE)
Esp32p4Spi == SpiTraits(TRUE, TRUE)

SpiTargets == {Esp32s3Spi, Esp32c2Spi, Esp32c3Spi, Esp32s2Spi, Esp32p4Spi}
=============================================================================
