------------------------------ MODULE AiotApp ------------------------------
(***************************************************************************)
(* The example application app/scenario_app/aiot_example: the loop of      *)
(* app_main polls for an I2C command, captures an image, runs the          *)
(* algorithm on it and writes image and result over SPI (module SpiSlave,  *)
(* whose steps are steps of this one) and over WiFi (module WifiStream).   *)
(* An interrupt hands a received command to the loop; the command that     *)
(* starts an upgrade resets the chip, whatever still goes on.              *)
(***************************************************************************)
EXTENDS SpiSlave

VARIABLES
  place,                \* where the loop is
  tcp_connected,
  i2c_rx_ready,
  gRead_buf,            \* the command in it
  reading,              \* the I2C library has been given the buffer to read into
  image,                \* what the one image memory holds: captures 0, 1, 0, ...
  algo_result,          \* the capture that it describes, or None
  host,                 \* history: the image and the result the SPI host has
  missed,               \* history: the write of this round's image failed or was disturbed
  owed                  \* history: the command received and not yet dispatched

spi  == vars            \* of SpiSlave
i2c  == <<i2c_rx_ready, gRead_buf, reading, owed>>
data == <<image, algo_result, host, missed>>
app_vars == <<place, tcp_connected, i2c, data, spi>>

None == -1
Commands ==
  { "jump",             \* I2CCOMM_CMD_OTA_JUMP2UPG of I2CCOMM_FEATURE_OTA_RESERVED
    "jump_bad",         \* the same with a wrong checksum
    "other" }           \* any other command of any feature

AppInit ==
  /\ place = "start" /\ tcp_connected = FALSE
  /\ i2c_rx_ready = FALSE /\ gRead_buf = "none" /\ reading = FALSE /\ owed = "none"
  /\ image = 0 /\ algo_result = None
  /\ host = [jpg |-> None, meta |-> None] /\ missed = FALSE
  /\ Init

Go(from, to) == place = from /\ place' = to

-----------------------------------------------------------------------------
(* I2C commands                                                            *)

\* app_setup, app_wifi_connect and app_tcp_open.  app_i2c_cmd_init starts no read
\* when the library says that it is open already.
Setup ==
  /\ Go("start", "poll")
  /\ reading' \in BOOLEAN /\ tcp_connected' \in BOOLEAN
  /\ UNCHANGED <<i2c_rx_ready, gRead_buf, owed, data, spi>>

\* The library reads one command for each buffer it is given.
i2ccomm_callback_fun_rx ==
  /\ reading /\ reading' = FALSE
  /\ gRead_buf' \in Commands /\ owed' = gRead_buf'
  /\ i2c_rx_ready' = TRUE
  /\ UNCHANGED <<place, tcp_connected, data, spi>>

app_i2c_cmd_polling ==
  /\ Go("poll", IF i2c_rx_ready THEN "dispatch" ELSE "capture")
  /\ UNCHANGED <<tcp_connected, i2c, data, spi>>

\* i2ccomm_cmd_process_ota_flow, if it is for the upgrade.
Dispatch ==
  /\ Go("dispatch", IF gRead_buf = "jump" THEN "dmac" ELSE "clear")
  /\ owed' = "none"
  /\ UNCHANGED <<tcp_connected, i2c_rx_ready, gRead_buf, reading, data, spi>>

ClearReady ==
  /\ Go("clear", "enable")
  /\ gRead_buf' = "none" /\ i2c_rx_ready' = FALSE
  /\ UNCHANGED <<tcp_connected, reading, owed, data, spi>>

\* Mutant: the library is not given the buffer again.
EnableNot ==
  /\ Go("enable", "capture")
  /\ UNCHANGED <<tcp_connected, i2c, data, spi>>

hx_lib_i2ccomm_enable_read ==
  /\ Go("enable", "capture")
  /\ reading' = TRUE
  /\ UNCHANGED <<tcp_connected, i2c_rx_ready, gRead_buf, owed, data, spi>>

\* dmac_deinit, if dmac_active says that the controller was ever initialised (it
\* does not look at the channels, arc_udma.c:427), which ends what the driver
\* moves by DMA; then the indication for the boot loader.
dmac_deinit ==
  /\ Go("dmac", "reset")
  /\ xfer' \in {xfer, "none"}
  /\ UNCHANGED <<tcp_connected, i2c, data, pc, kind, s_cmd_count, busy, pin, sent, passed, disturbed>>

\* hx_lib_pm_cpu_rst: the boot loader upgrades and starts the application anew.
hx_lib_pm_cpu_rst ==
  /\ place = "reset"
  /\ place' = "start" /\ tcp_connected' = FALSE
  /\ i2c_rx_ready' = FALSE /\ gRead_buf' = "none" /\ reading' = FALSE /\ owed' = "none"
  /\ image' = 0 /\ algo_result' = None
  /\ host' = [jpg |-> None, meta |-> None] /\ missed' = FALSE
  /\ pc' = "client" /\ kind' = "ex" /\ s_cmd_count' = 0 /\ busy' = FALSE /\ pin' = FALSE
  /\ xfer' = "none" /\ sent' = FALSE /\ passed' = FALSE /\ disturbed' = FALSE

-----------------------------------------------------------------------------
(* Images                                                                  *)

\* app_sensor_get_image: the driver's result is not looked at.
Capture ==
  /\ Go("capture", "algo")
  /\ image' \in {image, 1 - image}
  /\ UNCHANGED <<tcp_connected, i2c, algo_result, host, missed, spi>>

\* Mutant: the result of the last round is not zeroed.
RunKeep ==
  /\ Go("algo", "jpg")
  /\ algo_result' \in {image, algo_result}
  /\ UNCHANGED <<tcp_connected, i2c, image, host, missed, spi>>

\* app_algo_run: zeroed, and filled unless the algorithm fails.
app_algo_run ==
  /\ Go("algo", "jpg")
  /\ algo_result' \in {image, None}
  /\ UNCHANGED <<tcp_connected, i2c, image, host, missed, spi>>

\* app_spi_write, which returns at once while the link is busy.
app_spi_write(from, waiting, next) ==
  IF busy THEN Go(from, next) /\ UNCHANGED spi ELSE Go(from, waiting) /\ write_simple("ex")

\* Mutant: the write is started, and not waited for.
ReturnedEarly(waiting, next) ==
  /\ pc # "raise" /\ Go(waiting, next)
  /\ UNCHANGED spi

\* Its end; the loop does not look at the result.
SpiReturned(waiting, next) ==
  /\ pc = "client" /\ Go(waiting, next)
  /\ UNCHANGED spi

WriteImage ==
  /\ \/ app_spi_write("jpg", "jpg_wait", "meta")
     \/ SpiReturned("jpg_wait", "meta")
  /\ missed' = (disturbed \/ ~passed')
  /\ UNCHANGED <<tcp_connected, i2c, image, algo_result, host>>

WriteResult ==
  /\ \/ app_spi_write("meta", "meta_wait", "wifi")
     \/ SpiReturned("meta_wait", "wifi")
  /\ UNCHANGED <<tcp_connected, i2c, data>>

\* priv_wifi_send_result twice, in which the application waits for the module.
SendWifi ==
  /\ Go("wifi", "poll")
  /\ UNCHANGED <<tcp_connected, i2c, data, spi>>

SpiWriter ==
  /\ Writer
  /\ UNCHANGED <<place, tcp_connected, i2c, data>>

\* The host has clocked the driver's transfer out; what an earlier call has left
\* there is not followed.
HostClocks ==
  /\ spi_s_callback_ptl_tx
  /\ host' = CASE xfer = "current" /\ place = "jpg_wait"  -> [jpg |-> image, meta |-> None]
               [] xfer = "current" /\ place = "meta_wait" -> [host EXCEPT !.meta = algo_result]
               [] OTHER -> host
  /\ UNCHANGED <<place, tcp_connected, i2c, image, algo_result, missed>>

-----------------------------------------------------------------------------
Loop ==
  \/ Setup \/ app_i2c_cmd_polling \/ Dispatch \/ ClearReady \/ hx_lib_i2ccomm_enable_read
  \/ dmac_deinit \/ hx_lib_pm_cpu_rst
  \/ Capture \/ app_algo_run \/ WriteImage \/ WriteResult \/ SendWifi

AppNext == Loop \/ SpiWriter \/ i2ccomm_callback_fun_rx \/ HostClocks

AppSpec == AppInit /\ [][AppNext]_app_vars

\* The processor runs, the sensor, the WiFi module and the boot loader answer;
\* nothing is assumed of the two hosts.
FairAppSpec == AppSpec /\ WF_app_vars(Loop) /\ WF_app_vars(SpiWriter)

-----------------------------------------------------------------------------
(***************************************************************************)
(* Properties                                                              *)
(***************************************************************************)

Places == {"start", "poll", "dispatch", "clear", "enable", "dmac", "reset",
           "capture", "algo", "jpg", "jpg_wait", "meta", "meta_wait", "wifi"}
Captures == {0, 1, None}

AppTypeOK ==
  /\ place \in Places /\ tcp_connected \in BOOLEAN
  /\ i2c_rx_ready \in BOOLEAN /\ reading \in BOOLEAN
  /\ gRead_buf \in Commands \union {"none"} /\ owed \in Commands \union {"none"}
  /\ image \in {0, 1} /\ algo_result \in Captures
  /\ host \in [jpg : Captures, meta : Captures] /\ missed \in BOOLEAN
  /\ TypeOK

\* Image and result stay in memory until the SPI driver has done with them:
\* neither a capture nor the algorithm nor the next write comes before, whether
\* the host clocks or not, unless a halt has failed.
DataKept == [][ (image' # image \/ algo_result' # algo_result) /\ place # "reset"
                => disturbed \/ xfer = "none" ]_app_vars

\* The upgrade resets the chip between two transfers: no host is left in the
\* middle of one, unless a halt has failed.
QuietReset == place \in {"dmac", "reset"} => disturbed \/ (xfer = "none" /\ ~pin)

\* A result the host gets describes the image it has got just before, unless the
\* write of the image failed or was disturbed: then the host lacks the one the
\* result describes, and nothing tells it.
ResultOfImage == host.meta # None => host.meta = host.jpg \/ missed

\* Every command that is received is dispatched in the end, whatever the SPI
\* host does, and then the next one can be received, or the chip restarts.
CommandHandled == owed # "none" ~> owed = "none" /\ (reading \/ place = "start")
=============================================================================
